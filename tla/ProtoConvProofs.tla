--------------------------- MODULE ProtoConvProofs ---------------------------
(***************************************************************************)
(* Theorems about ProtoConv. The loops of ToCapnp keep ProtoInv: each      *)
(* interface written so far holds the translations of exactly the methods  *)
(* handled so far that are not to be skipped, and the skipped list holds   *)
(* the others. From it follow, for files of any length: the ordinals and   *)
(* the order of the methods, that plain methods are translated exactly,    *)
(* and that the result is a function of the text alone.                    *)
(***************************************************************************)
EXTENDS ProtoConv, SequenceLemmas, FiniteSetTheorems

\* What a scan for comments carries along.
ScanStates == [at: {"text", "block", "lineBlock", "tail"}, left: Seq(Lexeme)]

\* What it begins with.
Blank == [at |-> "text", left |-> <<>>]

\* c is the course of a scan: c[k] is what it carries after k lexemes.
Scans(c, text, openers) ==
    /\ c[0] = Blank
    /\ \A k \in 0..(Len(text) - 1) : c[k + 1] = Eat(c[k], text[k + 1], openers)

\* A lexeme taken keeps the scan's state one.
LEMMA EatType ==
    ASSUME NEW acc \in ScanStates, NEW x \in Lexeme, NEW openers
    PROVE  Eat(acc, x, openers) \in ScanStates
<1>. DEFINE kind == IF x.d = "remark" THEN x.kind ELSE ""
<1>1. After(acc.at, kind, openers) \in {"text", "block", "lineBlock", "tail"}
    BY DEF After, ScanStates
<1>2. Append(acc.left, x) \in Seq(Lexeme) /\ acc.left \in Seq(Lexeme)
    BY DEF ScanStates
<1>. QED
    BY <1>1, <1>2 DEF Eat, ScanStates

\* The fold of WithoutComments is such a course, and returns its end: this is
\* where FoldLeft is unrolled.
LEMMA ScanExists ==
    ASSUME NEW text \in Seq(Lexeme), NEW openers
    PROVE  \E c : Scans(c, text, openers)
                    /\ WithoutComments(text, openers) = c[Len(text)].left
<1>. DEFINE n == Len(text)
            F == [acc \in ScanStates |-> [x \in Lexeme |-> Eat(acc, x, openers)]]
            Is(g) == g = [s \in SUBSET (DOMAIN text) |->
                            IF s = {} THEN Blank
                            ELSE Eat(g[s \ {Max(s)}], text[Max(s)], openers)]
            f == CHOOSE g : Is(g)
<1>1. n \in Nat /\ DOMAIN text = 1..n /\ \A i \in 1..n : text[i] \in Lexeme
    OBVIOUS
<1>2. Blank \in ScanStates
    BY DEF Blank, ScanStates
<1>3. F \in [ScanStates -> [Lexeme -> ScanStates]]
    BY EatType
<1>4. PICK it \in [SUBSET (1..n) -> ScanStates] : FoldsBy(F, Blank, text, n, it)
    BY <1>1, <1>2, <1>3, Foldable DEF HasFold
<1>5. WithoutComments(text, openers) = f[DOMAIN text].left
    BY DEF WithoutComments, FoldLeft, MapThenFoldSet, Blank
<1>6. it = [s \in SUBSET (1..n) |->
             IF s = {} THEN Blank ELSE Eat(it[s \ {Max(s)}], text[Max(s)], openers)]
    <2>1. ASSUME NEW s \in SUBSET (1..n), s # {}
          PROVE  F[it[s \ {Max(s)}]][text[Max(s)]]
                   = Eat(it[s \ {Max(s)}], text[Max(s)], openers)
        <3>1. Max(s) \in 1..n
            BY <1>1, <2>1, MaxOfInterval
        <3>2. it[s \ {Max(s)}] \in ScanStates /\ text[Max(s)] \in Lexeme
            BY <1>1, <3>1
        <3>. QED
            BY <3>2
    <2>. HIDE DEF F
    <2>2. \A s \in SUBSET (1..n) :
             (IF s = {} THEN Blank ELSE F[it[s \ {Max(s)}]][text[Max(s)]])
               = IF s = {} THEN Blank
                 ELSE Eat(it[s \ {Max(s)}], text[Max(s)], openers)
        BY <2>1
    <2>. QED
        BY <1>4, <2>2 DEF FoldsBy
<1>7. Is(f)
    <2>1. Is(it)
        BY <1>1, <1>6
    <2>. QED
        BY <2>1, Zenon
<1>. HIDE DEF f
<1>8. ASSUME NEW s \in SUBSET (1..n)
      PROVE  f[s] = IF s = {} THEN Blank
                    ELSE Eat(f[s \ {Max(s)}], text[Max(s)], openers)
    BY <1>1, <1>7
<1>. DEFINE c == [k \in 0..n |-> f[1..k]]
<1>9. c[0] = Blank
    <2>1. 1..0 = {} /\ 0 \in 0..n
        BY <1>1
    <2>. QED
        BY <2>1, <1>8
<1>10. ASSUME NEW k \in 0..(n - 1)
       PROVE  c[k + 1] = Eat(c[k], text[k + 1], openers)
    <2>1. /\ 1..(k + 1) \in SUBSET (1..n) /\ k + 1 \in 1..(k + 1)
          /\ (1..(k + 1)) \ {k + 1} = 1..k /\ k \in 0..n /\ k + 1 \in 0..n
        BY <1>1
    <2>2. Max(1..(k + 1)) = k + 1
        BY <2>1, IntervalGrows
    <2>3. f[1..(k + 1)] = Eat(f[1..k], text[k + 1], openers)
        BY <1>8, <2>1, <2>2
    <2>. QED
        BY <2>1, <2>3
<1>11. f[DOMAIN text] = c[n]
    BY <1>1
<1>. HIDE DEF c
<1>. QED
    BY <1>5, <1>9, <1>10, <1>11 DEF Scans

\* Comments are cut out of a text, and a text is left (stripComments).
LEMMA ScanType ==
    ASSUME NEW text \in Seq(Lexeme), NEW openers
    PROVE  WithoutComments(text, openers) \in Seq(Lexeme)
<1>1. PICK c : /\ Scans(c, text, openers)
               /\ WithoutComments(text, openers) = c[Len(text)].left
    BY ScanExists
<1>. DEFINE Typed == {k \in Nat : k <= Len(text) => c[k] \in ScanStates}
<1>2. 0 \in Typed
    <2>1. Blank \in ScanStates
        BY DEF Blank, ScanStates
    <2>. QED
        BY <1>1, <2>1 DEF Scans
<1>3. ASSUME NEW k \in Nat, k \in Typed PROVE k + 1 \in Typed
    <2>1. SUFFICES ASSUME k + 1 <= Len(text) PROVE c[k + 1] \in ScanStates
        OBVIOUS
    <2>2. k \in 0..(Len(text) - 1) /\ k <= Len(text) /\ text[k + 1] \in Lexeme
        BY <2>1
    <2>3. c[k + 1] = Eat(c[k], text[k + 1], openers)
        BY <1>1, <2>2 DEF Scans
    <2>. QED
        BY <1>3, <2>2, <2>3, EatType
<1>. HIDE DEF Typed
<1>4. Len(text) \in Typed
    BY <1>2, <1>3, SetInduction
<1>5. Len(text) <= Len(text)
    OBVIOUS
<1>. QED
    BY <1>1, <1>4, <1>5 DEF Typed, ScanStates

-----------------------------------------------------------------------------

\* The tag of a lexeme says what it is.
LEMMA LexemeKinds ==
    ASSUME NEW x \in Lexeme
    PROVE  /\ x.d = "field" => x \in Field
           /\ x.d = "open" => x \in Open
           /\ x.d = "rpc" => x \in Rpc
BY DEF Lexeme, Field, MapField, Value, Rpc, Open, Close, GoOption, Remark

\* The brace that closes a block lies behind the one that opens it.
LEMMA ClosingFound ==
    ASSUME NEW text \in Seq(Lexeme), NEW i \in DOMAIN text, Closings(text, i) # {}
    PROVE  Min(Closings(text, i)) \in i..Len(text)
<1>1. Closings(text, i) \subseteq i..Len(text) /\ Closings(text, i) \subseteq Nat
    BY DEF Closings
<1>. QED
    BY <1>1, MinOfNats

\* The body of a block is a text.
LEMMA BodyType ==
    ASSUME NEW text \in Seq(Lexeme), NEW i \in DOMAIN text, Closings(text, i) # {}
    PROVE  balancedBody(text, i) \in Seq(Lexeme)
<1>. DEFINE j == Min(Closings(text, i)) - 1
<1>1. i + 1 \in Int /\ j \in Int /\ \A k \in (i + 1)..j : text[k] \in Lexeme
    BY ClosingFound
<1>. HIDE DEF j
<1>. QED
    BY <1>1, SubSeqProperties DEF balancedBody, j

\* The parsers of bodies pick lexemes.
LEMMA FieldsPicked ==
    ASSUME NEW body \in Seq(Lexeme)
    PROVE  /\ parseFields(body)
                = Picked(body, {i \in DOMAIN body : IsFieldLine(body, i)})
           /\ parseMethods(body)
                = Picked(body, {i \in DOMAIN body : body[i].d = "rpc"})
BY DEF parseFields, parseMethods, SelectAt, Picked, Pieces

\* They return fields and rpcs (parseFields, parseMethods).
LEMMA PartsType ==
    ASSUME NEW body \in Seq(Lexeme)
    PROVE  parseFields(body) \in Seq(Field) /\ parseMethods(body) \in Seq(Rpc)
<1>1. \A i \in DOMAIN body : body[i] \in Lexeme
    OBVIOUS
<1>2. \A i \in DOMAIN body : IsFieldLine(body, i) => body[i] \in Field
    BY <1>1, LexemeKinds DEF IsFieldLine
<1>3. \A i \in DOMAIN body : body[i].d = "rpc" => body[i] \in Rpc
    BY <1>1, LexemeKinds
<1>4. Picked(body, {i \in DOMAIN body : IsFieldLine(body, i)}) \in Seq(Field)
    BY <1>2, PickedWithin
<1>5. Picked(body, {i \in DOMAIN body : body[i].d = "rpc"}) \in Seq(Rpc)
    BY <1>3, PickedWithin
<1>. QED
    BY <1>4, <1>5, FieldsPicked

\* The services of a balanced text have their type.
LEMMA ServicesType ==
    ASSUME NEW text \in Seq(Lexeme), Balanced(text)
    PROVE  ParsedServices(text) \in Seq(ProtoService)
<1>. DEFINE one(i) == [name |-> text[i].name,
                       methods |-> parseMethods(balancedBody(text, i))]
            each == [i \in DOMAIN text |->
                       IF IsBlock(text, i, {"service"}) THEN <<one(i)>> ELSE <<>>]
<1>1. ASSUME NEW i \in DOMAIN text, IsBlock(text, i, {"service"})
      PROVE  one(i) \in ProtoService
    <2>1. text[i].name \in Names
        BY <1>1, LexemeKinds DEF IsBlock, Open
    <2>2. Closings(text, i) # {}
        BY <1>1 DEF Balanced, IsBlock
    <2>3. parseMethods(balancedBody(text, i)) \in Seq(Rpc)
        BY <2>2, BodyType, PartsType
    <2>. QED
        BY <2>1, <2>3 DEF ProtoService
<1>. HIDE DEF one
<1>2. \A i \in 1..Len(text) : each[i] \in Seq(ProtoService)
    <2>1. ASSUME NEW x \in ProtoService PROVE <<x>> \in Seq(ProtoService)
        OBVIOUS
    <2>. QED
        BY <1>1, <2>1
<1>3. each \in Seq(Seq(ProtoService))
    <2>1. Len(text) \in Nat /\ each = [i \in 1..Len(text) |-> each[i]]
        OBVIOUS
    <2>. HIDE DEF each
    <2>. QED
        BY <1>2, <2>1
<1>. HIDE DEF each
<1>4. FlattenSeq(each) \in Seq(ProtoService)
    BY <1>3, FlattenType
<1>. QED
    BY <1>4 DEF ParsedServices, each, one

\* And so have its messages.
LEMMA MessagesType ==
    ASSUME NEW text \in Seq(Lexeme), Balanced(text)
    PROVE  \A n \in DOMAIN ParsedMessages(text) :
              n \in Names /\ ParsedMessages(text)[n] \in Seq(Field)
<1>. DEFINE At(n) == {i \in DOMAIN text : IsBlock(text, i, {"message"})
                                            /\ text[i].name = n}
<1>1. ASSUME NEW n \in Names, At(n) # {}
      PROVE  parseFields(balancedBody(text, Max(At(n)))) \in Seq(Field)
    <2>1. At(n) \subseteq 1..Len(text) /\ Len(text) \in Nat
        OBVIOUS
    <2>. HIDE DEF At
    <2>2. Max(At(n)) \in At(n)
        BY <1>1, <2>1, MaxOfInterval
    <2>3. Max(At(n)) \in DOMAIN text /\ IsBlock(text, Max(At(n)), {"message"})
        BY <2>2 DEF At
    <2>4. Closings(text, Max(At(n))) # {}
        BY <2>3 DEF Balanced, IsBlock
    <2>. QED
        BY <2>3, <2>4, BodyType, PartsType
<1>2. ParsedMessages(text) = [n \in {m \in Names : At(m) # {}} |->
                                parseFields(balancedBody(text, Max(At(n))))]
    BY DEF ParsedMessages
<1>. HIDE DEF At
<1>. QED
    BY <1>1, <1>2

-----------------------------------------------------------------------------

\* How many methods of service s have been handled.
Seen(s) ==
    IF s < svc \/ pc = "done" THEN Len(services[s].methods)
    ELSE IF s = svc /\ pc = "method" THEN meth - 1 ELSE 0

\* Which of the methods ms are not to be skipped.
Kept(ms) == {k \in DOMAIN ms : WhySkipped(ms[k]) = ""}

\* How methods ms are written into one interface.
Written(ms) ==
    [k \in DOMAIN ms |->
        [name |-> LowerFirst[ms[k].name], ord |-> k - 1,
         params |-> flatten(ms[k].req), results |-> flatten(ms[k].resp)]]

\* What the interface has when n of the methods ms have been handled.
WrittenOf(ms, n) == Written(Picked(SubSeq(ms, 1, n), Kept(ms)))

\* Where the loops are.
LoopsInv ==
    /\ pc \in {"parse", "check", "error"} => svc = 1 /\ out = <<>> /\ skipped = <<>>
    /\ pc \in {"interface", "done"} => Len(out) = svc - 1
    /\ pc = "method" => Len(out) = svc /\ ord = Len(out[svc].methods)
    /\ pc = "done" => svc = Len(services) + 1

\* What has been parsed is what the file says.
ParsedInv ==
    pc \in {"check", "interface", "method", "done"} =>
        /\ Balanced(stripComments(file))
        /\ messages = ParsedMessages(stripComments(file))
        /\ services = ParsedServices(stripComments(file))

\* Each interface holds the handled methods that are not to be skipped.
WrittenInv ==
    \A s \in DOMAIN out :
        out[s] = [name    |-> services[s].name,
                  methods |-> WrittenOf(services[s].methods, Seen(s))]

\* The skipped list holds the others.
SkippedInv ==
    /\ \A j \in DOMAIN skipped :
          LET s == skipped[j].svc
          IN  s \in DOMAIN services /\
              \E k \in 1..Seen(s) : /\ skipped[j].name = services[s].methods[k].name
                                    /\ k \notin Kept(services[s].methods)
    /\ \A s \in DOMAIN services : \A k \in 1..Seen(s) :
          k \notin Kept(services[s].methods)
            => \E j \in DOMAIN skipped :
                  /\ skipped[j].svc = s
                  /\ skipped[j].name = services[s].methods[k].name

\* The inductive invariant. TypeOK alone is not inductive: SkipMethod and
\* EmitMethod index out with svc, which LoopsInv keeps within it; and the other
\* conjuncts say what the loops have done so far.
ProtoInv == file \in Files /\ TypeOK /\ LoopsInv /\ ParsedInv /\ WrittenInv /\ SkippedInv

\* A message that can be flattened becomes a list of parameters.
LEMMA FlattenedType ==
    ASSUME TypeOK, NEW path \in Path, Flattens(path)
    PROVE  flatten(path) \in Seq(Param)
<1>. DEFINE fields == messages[trimPkg(path)]
<1>1. fields \in Seq(Field)
    BY DEF TypeOK, Flattens
<1>2. ASSUME NEW f \in Field, Supported(f) PROVE AsParam(f) \in Param
    <2>1. scalarToCapnp[f.type] \in Range(scalarToCapnp)
        BY <1>2, Zenon DEF Supported, Range
    <2>2. Camel[f.name] \in Range(Camel)
        BY ProtoConvAssumption DEF Field, Range
    <2>. QED
        BY <1>2, <2>1, <2>2 DEF Supported, AsParam, Param
<1>3. \A k \in 1..Len(fields) : AsParam(fields[k]) \in Param
    <2>1. \A k \in 1..Len(fields) : fields[k] \in Field /\ Supported(fields[k])
        BY <1>1 DEF Flattens
    <2>. QED
        BY <1>2, <2>1
<1>4. flatten(path) = [k \in 1..Len(fields) |-> AsParam(fields[k])]
    BY <1>1 DEF flatten
<1>. HIDE DEF fields
<1>. QED
    BY <1>1, <1>3, <1>4

\* What Parse assigns has its type.
LEMMA ParseTyped ==
    ASSUME file \in Files, Balanced(stripComments(file))
    PROVE  /\ ParsedServices(stripComments(file)) \in Seq(ProtoService)
           /\ \A n \in DOMAIN ParsedMessages(stripComments(file)) :
                 /\ n \in Names
                 /\ ParsedMessages(stripComments(file))[n] \in Seq(Field)
<1>1. file \in Seq(Lexeme)
    BY ProtoConvAssumption
<1>2. stripComments(file) \in Seq(Lexeme)
    BY <1>1, ScanType DEF stripComments
<1>. QED
    BY <1>2, ServicesType, MessagesType

\* The method at hand is one of the service at hand.
LEMMA MethodTyped ==
    ASSUME TypeOK, pc = "method", meth <= Len(services[svc].methods)
    PROVE  /\ services[svc].methods[meth] \in Rpc
           /\ Len(services[svc].methods) \in Nat
<1>1. services[svc] \in ProtoService /\ meth \in 1..(Len(services[svc].methods) + 1)
    BY DEF TypeOK
<1>2. services[svc].methods \in Seq(Rpc)
    BY <1>1 DEF ProtoService
<1>3. Len(services[svc].methods) \in Nat
    BY <1>2
<1>4. meth \in 1..Len(services[svc].methods)
    BY <1>1, <1>3
<1>. QED
    BY <1>2, <1>3, <1>4

\* An interface with one method more is one.
LEMMA AppendedTyped ==
    ASSUME NEW os \in Seq(OutInterface), NEW s, NEW e \in OutMethod
    PROVE  [os EXCEPT ![s].methods = Append(@, e)] \in Seq(OutInterface)
<1>. DEFINE new == [os EXCEPT ![s].methods = Append(@, e)]
<1>1. CASE s \in DOMAIN os
    <2>1. os[s] \in OutInterface
        BY <1>1
    <2>2. Append(os[s].methods, e) \in Seq(OutMethod)
        BY <2>1 DEF OutInterface
    <2>3. [os[s] EXCEPT !.methods = Append(os[s].methods, e)] \in OutInterface
        BY <2>1, <2>2 DEF OutInterface
    <2>4. new = [os EXCEPT ![s] = [os[s] EXCEPT !.methods = Append(os[s].methods, e)]]
        OBVIOUS
    <2>. HIDE DEF new
    <2>5. ASSUME NEW x \in OutInterface PROVE [os EXCEPT ![s] = x] \in Seq(OutInterface)
        BY <1>1
    <2>. QED
        BY <2>3, <2>4, <2>5 DEF new
<1>2. CASE s \notin DOMAIN os
    <2>1. new = os
        BY <1>2
    <2>. QED
        BY <2>1
<1>. QED
    BY <1>1, <1>2

\* The initial state has the types.
LEMMA InitTyped == Init => TypeOK /\ file \in Files
<1>. SUFFICES ASSUME Init PROVE TypeOK /\ file \in Files
    OBVIOUS
<1>1. <<>> \in Seq(ProtoService) /\ <<>> \in Seq(OutInterface) /\ <<>> \in Seq(Skip)
    BY EmptySeq
<1>. QED
    BY <1>1 DEF Init, TypeOK

\* No step breaks them.
LEMMA StepTyped ==
    ASSUME TypeOK, file \in Files, LoopsInv, [Next]_vars
    PROVE  TypeOK' /\ (file \in Files)'
<1>1. CASE Parse
    <2>1. ASSUME Balanced(stripComments(file)),
                 messages' = ParsedMessages(stripComments(file)),
                 services' = ParsedServices(stripComments(file)), pc' = "check"
          PROVE  TypeOK'
        <3>1. /\ services' \in Seq(ProtoService)
              /\ \A n \in DOMAIN messages' :
                    n \in Names /\ messages'[n] \in Seq(Field)
            BY <2>1, ParseTyped
        <3>2. svc = 1
            BY <1>1 DEF Parse, LoopsInv
        <3>3. UNCHANGED <<svc, meth, ord, out, skipped>>
            BY <1>1 DEF Parse
        <3>. QED
            BY <2>1, <3>1, <3>2, <3>3 DEF TypeOK
    <2>2. ASSUME pc' = "error", UNCHANGED <<messages, services>> PROVE TypeOK'
        BY <1>1, <2>2 DEF Parse, TypeOK
    <2>. QED
        BY <1>1, <2>1, <2>2 DEF Parse, Balanced
<1>2. CASE Check
    BY <1>2 DEF Check, TypeOK
<1>3. CASE OpenInterface
    <2>1. [name |-> services[svc].name, methods |-> <<>>] \in OutInterface
        <3>1. services[svc] \in ProtoService
            BY <1>3 DEF TypeOK, OpenInterface, MoreServices
        <3>2. <<>> \in Seq(OutMethod)
            BY EmptySeq
        <3>. QED
            BY <3>1, <3>2 DEF ProtoService, OutInterface
    <2>2. out' \in Seq(OutInterface)
        BY <1>3, <2>1 DEF OpenInterface, TypeOK
    <2>3. svc \in DOMAIN services /\ 1 \in 1..(Len(services[svc].methods) + 1)
        BY <1>3 DEF OpenInterface, MoreServices, TypeOK, ProtoService
    <2>. QED
        BY <1>3, <2>2, <2>3 DEF OpenInterface, FirstOrd, TypeOK
<1>4. CASE SkipMethod
    <2>. DEFINE m == services[svc].methods[meth]
    <2>0. pc = "method" /\ meth <= Len(services[svc].methods)
        BY <1>4 DEF SkipMethod
    <2>1. m \in Rpc
        BY <2>0, MethodTyped
    <2>2. WhySkipped(m) \in {"streaming", "params", "results"}
        BY <1>4 DEF SkipMethod, WhySkipped
    <2>3. [svc |-> svc, name |-> m.name, why |-> WhySkipped(m)] \in Skip
        BY <2>1, <2>2 DEF Rpc, Skip, TypeOK
    <2>4. skipped' \in Seq(Skip)
        <3>. DEFINE e == [svc |-> svc, name |-> m.name, why |-> WhySkipped(m)]
        <3>1. skipped' = Append(skipped, e)
            BY <1>4 DEF SkipMethod
        <3>. HIDE DEF e
        <3>2. e \in Skip
            BY <2>3 DEF e
        <3>. QED
            BY <3>1, <3>2 DEF TypeOK
    <2>5. meth + 1 \in Nat
          /\ (pc = "method" => meth + 1 \in 1..(Len(services[svc].methods) + 1))
        BY <2>0, MethodTyped DEF TypeOK
    <2>6. /\ UNCHANGED <<file, pc, messages, services, svc, ord, out>>
          /\ meth' = meth + 1
        BY <1>4 DEF SkipMethod
    <2>. QED
        BY <2>4, <2>5, <2>6 DEF TypeOK
<1>5. CASE EmitMethod
    <2>. DEFINE m == services[svc].methods[meth]
                e == [name |-> LowerFirst[m.name], ord |-> ord,
                      params |-> flatten(m.req), results |-> flatten(m.resp)]
    <2>0. pc = "method" /\ meth <= Len(services[svc].methods)
        BY <1>5 DEF EmitMethod
    <2>1. m \in Rpc
        BY <2>0, MethodTyped
    <2>2. Flattens(m.req) /\ Flattens(m.resp)
        BY <1>5 DEF EmitMethod, WhySkipped
    <2>3. m.name \in Names /\ m.req \in Path /\ m.resp \in Path
        BY <2>1 DEF Rpc
    <2>4. e \in OutMethod
        <3>1. LowerFirst[m.name] \in Range(LowerFirst)
            BY <2>3, ProtoConvAssumption DEF Range
        <3>2. ord \in Nat
            BY DEF TypeOK
        <3>3. flatten(m.req) \in Seq(Param) /\ flatten(m.resp) \in Seq(Param)
            BY <2>2, <2>3, FlattenedType
        <3>. QED
            BY <3>1, <3>2, <3>3 DEF OutMethod
    <2>. HIDE DEF e
    <2>5. out' = [out EXCEPT ![svc].methods = Append(@, e)]
        BY <1>5 DEF EmitMethod, e
    <2>6. out' \in Seq(OutInterface)
        BY <2>4, <2>5, AppendedTyped DEF TypeOK
    <2>7. meth + 1 \in Nat
          /\ (pc = "method" => meth + 1 \in 1..(Len(services[svc].methods) + 1))
        BY <2>0, MethodTyped DEF TypeOK
    <2>8. /\ UNCHANGED <<file, pc, messages, services, svc, skipped>>
          /\ ord' = ord + 1 /\ meth' = meth + 1
        BY <1>5 DEF EmitMethod
    <2>. QED
        BY <2>6, <2>7, <2>8 DEF TypeOK
<1>6. CASE CloseInterface
    <2>1. svc \in 1..Len(services) /\ Len(services) \in Nat
        BY <1>6 DEF CloseInterface, TypeOK
    <2>2. svc + 1 \in 1..(Len(services) + 1)
        BY <2>1
    <2>. QED
        BY <1>6, <2>2 DEF CloseInterface, TypeOK
<1>7. CASE Return
    BY <1>7 DEF Return, TypeOK
<1>8. CASE UNCHANGED vars
    BY <1>8 DEF vars, TypeOK
<1>9. (file \in Files)'
    BY DEF Next, vars, Parse, Check, OpenInterface, SkipMethod, EmitMethod,
           CloseInterface, Return
<1>. QED
    BY <1>1, <1>2, <1>3, <1>4, <1>5, <1>6, <1>7, <1>8, <1>9 DEF Next

\* The loops stay in step with the interfaces they have opened.
LEMMA StepLoops ==
    ASSUME TypeOK, LoopsInv, [Next]_vars
    PROVE  LoopsInv'
<1>1. CASE Parse
    BY <1>1 DEF Parse, LoopsInv
<1>2. CASE Check
    BY <1>2 DEF Check, LoopsInv
<1>3. CASE OpenInterface
    <2>. DEFINE e == [name |-> services[svc].name, methods |-> <<>>]
    <2>1. Len(out) = svc - 1 /\ svc \in Nat
        BY <1>3 DEF OpenInterface, LoopsInv, TypeOK
    <2>2. out' = Append(out, e) /\ ord' = 0 /\ pc' = "method" /\ svc' = svc
        BY <1>3 DEF OpenInterface, FirstOrd
    <2>3. e.methods = <<>> /\ Len(<<>>) = 0
        OBVIOUS
    <2>. HIDE DEF e
    <2>4. Len(out') = svc /\ out'[svc] = e
        BY <2>1, <2>2 DEF TypeOK
    <2>. QED
        BY <2>2, <2>3, <2>4 DEF LoopsInv
<1>4. CASE SkipMethod
    BY <1>4 DEF SkipMethod, LoopsInv
<1>5. CASE EmitMethod
    <2>. DEFINE m == services[svc].methods[meth]
                e == [name |-> LowerFirst[m.name], ord |-> ord,
                      params |-> flatten(m.req), results |-> flatten(m.resp)]
    <2>1. pc = "method" /\ Len(out) = svc /\ ord = Len(out[svc].methods)
        BY <1>5 DEF EmitMethod, LoopsInv
    <2>2. /\ out' = [out EXCEPT ![svc].methods = Append(@, e)]
          /\ ord' = ord + 1 /\ pc' = "method" /\ svc' = svc
        BY <1>5 DEF EmitMethod
    <2>. HIDE DEF e
    <2>3. svc \in 1..Len(out) /\ out[svc].methods \in Seq(OutMethod)
        <3>1. svc \in 1..Len(out)
            BY <2>1 DEF TypeOK
        <3>2. out[svc] \in OutInterface
            BY <3>1 DEF TypeOK
        <3>. QED
            BY <3>1, <3>2 DEF OutInterface
    <2>4. Len(out') = svc /\ out'[svc].methods = Append(out[svc].methods, e)
        BY <2>1, <2>2, <2>3 DEF TypeOK, OutInterface
    <2>5. Len(Append(out[svc].methods, e)) = Len(out[svc].methods) + 1
        BY <2>3
    <2>. QED
        BY <2>1, <2>2, <2>4, <2>5 DEF LoopsInv
<1>6. CASE CloseInterface
    BY <1>6 DEF CloseInterface, LoopsInv, TypeOK
<1>7. CASE Return
    BY <1>7 DEF Return, MoreServices, LoopsInv, TypeOK
<1>8. CASE UNCHANGED vars
    BY <1>8 DEF vars, LoopsInv
<1>. QED
    BY <1>1, <1>2, <1>3, <1>4, <1>5, <1>6, <1>7, <1>8 DEF Next

\* For files of any length over any names, the variables of ToCapnp keep their
\* types: no loop runs past its services or methods, and every interface and entry
\* of the skipped list is well formed.
THEOREM TypeCorrect == Spec => []TypeOK
<1>. DEFINE Inv == TypeOK /\ file \in Files /\ LoopsInv
<1>1. Init => Inv
    BY InitTyped DEF Init, LoopsInv
<1>2. Inv /\ [Next]_vars => Inv'
    BY StepTyped, StepLoops
<1>. QED
    BY <1>1, <1>2, PTL DEF Spec

\* No more methods are handled than there are.
LEMMA SeenWithin ==
    ASSUME TypeOK, NEW s \in DOMAIN services
    PROVE  /\ services[s].methods \in Seq(Rpc)
           /\ Len(services[s].methods) \in Nat
           /\ Seen(s) \in 0..Len(services[s].methods)
<1>1. services[s] \in ProtoService /\ s \in 1..Len(services)
    BY DEF TypeOK
<1>2. services[s].methods \in Seq(Rpc)
    BY <1>1 DEF ProtoService
<1>3. Len(services[s].methods) \in Nat
    BY <1>2
<1>4. CASE s < svc \/ pc = "done"
    <2>1. Seen(s) = Len(services[s].methods)
        BY <1>4 DEF Seen
    <2>. QED
        BY <1>2, <1>3, <2>1
<1>5. CASE ~(s < svc \/ pc = "done") /\ s = svc /\ pc = "method"
    <2>1. Seen(s) = meth - 1 /\ meth \in 1..(Len(services[s].methods) + 1)
        BY <1>5 DEF Seen, TypeOK
    <2>. QED
        BY <1>3, <1>5, <2>1, <1>2
<1>6. CASE ~(s < svc \/ pc = "done") /\ ~(s = svc /\ pc = "method")
    BY <1>2, <1>3, <1>6 DEF Seen
<1>. QED
    BY <1>2, <1>3, <1>4, <1>5, <1>6

\* The steps that handle a method.
Handling == SkipMethod \/ EmitMethod

\* A step handles the next method of the service at hand, or none.
LEMMA SeenSteps ==
    ASSUME TypeOK, LoopsInv, [Next]_vars, ~Parse, NEW s \in DOMAIN services
    PROVE  /\ UNCHANGED <<file, services, messages>>
           /\ Seen(s)' = IF Handling /\ s = svc THEN Seen(s) + 1 ELSE Seen(s)
           /\ Handling => svc' = svc /\ svc \in DOMAIN services
                            /\ Seen(svc) = meth - 1
<1>1. s \in 1..Len(services) /\ Len(services) \in Nat /\ svc \in Nat
    BY DEF TypeOK
<1>2. CASE Check
    BY <1>1, <1>2 DEF Check, LoopsInv, Seen, Handling, SkipMethod, EmitMethod
<1>3. CASE OpenInterface
    BY <1>1, <1>3 DEF OpenInterface, Seen, Handling, SkipMethod, EmitMethod
<1>4. CASE Handling
    <2>1. /\ pc = "method" /\ pc' = pc /\ svc' = svc /\ meth' = meth + 1
          /\ UNCHANGED <<file, services, messages>>
        BY <1>4 DEF Handling, SkipMethod, EmitMethod
    <2>2. svc \in DOMAIN services /\ meth \in Nat
        BY <2>1 DEF TypeOK
    <2>3. Seen(s)' = IF s < svc THEN Len(services[s].methods)
                     ELSE IF s = svc THEN meth ELSE 0
        BY <2>1, <2>2 DEF Seen
    <2>4. Seen(s) = IF s < svc THEN Len(services[s].methods)
                    ELSE IF s = svc THEN meth - 1 ELSE 0
        BY <2>1 DEF Seen
    <2>5. Seen(svc) = meth - 1
        BY <1>1, <2>1 DEF Seen
    <2>. QED
        BY <1>1, <1>4, <2>1, <2>2, <2>3, <2>4, <2>5
<1>5. CASE CloseInterface
    <2>1. /\ pc = "method" /\ pc' = "interface" /\ svc' = svc + 1
          /\ UNCHANGED <<file, services, messages>> /\ ~Handling
          /\ meth > Len(services[svc].methods)
        BY <1>5 DEF CloseInterface, Handling, SkipMethod, EmitMethod
    <2>2. svc \in DOMAIN services /\ meth \in 1..(Len(services[svc].methods) + 1)
        BY <2>1 DEF TypeOK
    <2>3. Len(services[svc].methods) \in Nat
        BY <2>2, SeenWithin
    <2>4. meth - 1 = Len(services[svc].methods)
        BY <2>1, <2>2, <2>3
    <2>5. Seen(s)' = IF s < svc + 1 THEN Len(services[s].methods) ELSE 0
        BY <2>1 DEF Seen
    <2>6. Seen(s) = IF s < svc THEN Len(services[s].methods)
                    ELSE IF s = svc THEN meth - 1 ELSE 0
        BY <2>1 DEF Seen
    <2>. QED
        BY <1>1, <2>1, <2>4, <2>5, <2>6
<1>6. CASE Return
    BY <1>1, <1>6 DEF Return, MoreServices, Seen, Handling, SkipMethod, EmitMethod
<1>7. CASE UNCHANGED vars
    <2>1. ~Handling
        <3>1. meth \in Nat /\ meth' = meth
            BY <1>7 DEF TypeOK, vars
        <3>2. Handling => meth' = meth + 1
            BY DEF Handling, SkipMethod, EmitMethod
        <3>. QED
            BY <3>1, <3>2
    <2>. QED
        BY <1>7, <2>1 DEF vars, Seen
<1>. QED
    BY <1>2, <1>3, <1>4, <1>5, <1>6, <1>7 DEF Next, Handling

\* Which methods are skipped, and what the others become, depends on the
\* messages only.
LEMMA Unmoved ==
    ASSUME messages' = messages
    PROVE  /\ \A ms : Kept(ms)' = Kept(ms)
           /\ \A ms, n : WrittenOf(ms, n)' = WrittenOf(ms, n)
<1>1. ASSUME NEW ms PROVE Kept(ms)' = Kept(ms)
    BY DEF Kept, WhySkipped, Flattens
<1>2. ASSUME NEW ms, NEW n PROVE WrittenOf(ms, n)' = WrittenOf(ms, n)
    BY <1>1 DEF WrittenOf, Written, flatten
<1>. QED
    BY <1>1, <1>2

\* With one more method handled, one more is written at the end, under the next
\* ordinal, or none.
LEMMA WrittenSteps ==
    ASSUME NEW ms \in Seq(Rpc), NEW n \in 0..(Len(ms) - 1)
    PROVE  WrittenOf(ms, n + 1) =
             IF n + 1 \in Kept(ms)
             THEN Append(WrittenOf(ms, n),
                         [name |-> LowerFirst[ms[n + 1].name],
                          ord |-> Len(WrittenOf(ms, n)),
                          params |-> flatten(ms[n + 1].req),
                          results |-> flatten(ms[n + 1].resp)])
             ELSE WrittenOf(ms, n)
<1>. DEFINE t == Picked(SubSeq(ms, 1, n), Kept(ms))
            m == ms[n + 1]
            W(x, o) == [name |-> LowerFirst[x.name], ord |-> o,
                        params |-> flatten(x.req), results |-> flatten(x.resp)]
<1>1. Picked(SubSeq(ms, 1, n + 1), Kept(ms))
        = IF n + 1 \in Kept(ms) THEN Append(t, m) ELSE t
    BY PickedStep
<1>2. t \in Seq(Rpc)
    <2>1. SubSeq(ms, 1, n) \in Seq(Rpc)
        OBVIOUS
    <2>. QED
        BY <2>1, PickedType
<1>. HIDE DEF t, m
<1>3. \A ts : Written(ts) = [k \in DOMAIN ts |-> W(ts[k], k - 1)]
    BY DEF Written
<1>. HIDE DEF W
<1>4. DOMAIN t = 1..Len(t) /\ Len(t) \in Nat
    BY <1>2
<1>5. Written(t) = [k \in 1..Len(t) |-> W(t[k], k - 1)] /\ Len(Written(t)) = Len(t)
    BY <1>3, <1>4
<1>6. Written(Append(t, m)) = Append(Written(t), W(m, Len(t)))
    <2>. DEFINE n1 == Len(t)
                u == Append(t, m)
    <2>1. /\ DOMAIN u = 1..(n1 + 1) /\ u[n1 + 1] = m
          /\ \A i \in 1..n1 : u[i] = t[i]
        BY <1>2
    <2>2. Written(u) = [k \in 1..(n1 + 1) |-> W(u[k], k - 1)]
        BY <1>3, <2>1
    <2>. HIDE DEF n1, u
    <2>. DEFINE A == {W(u[k], k - 1) : k \in 1..(n1 + 1)}
    <2>3. \A k \in 1..(n1 + 1) : W(u[k], k - 1) \in A
        OBVIOUS
    <2>. HIDE DEF A
    <2>4. Written(u) \in [1..(n1 + 1) -> A] /\ Written(u)[n1 + 1] = W(m, n1)
        BY <1>4, <2>1, <2>2, <2>3 DEF n1
    <2>5. /\ Written(t) \in [1..n1 -> A]
          /\ \A k \in 1..n1 : Written(t)[k] = Written(u)[k]
        BY <1>4, <1>5, <2>1, <2>2, <2>3 DEF n1
    <2>6. n1 \in Nat
        BY <1>4 DEF n1
    <2>7. Written(u) = Append(Written(t), Written(u)[n1 + 1])
        BY <2>4, <2>5, <2>6, Extend
    <2>. QED
        BY <2>4, <2>7 DEF u, n1
<1>. QED
    BY <1>1, <1>5, <1>6 DEF WrittenOf, W, t, m

-----------------------------------------------------------------------------

\* Once parsed, the messages and services stay what the text says.
LEMMA StepParsed ==
    ASSUME ParsedInv, LoopsInv, TypeOK, [Next]_vars
    PROVE  ParsedInv'
<1>1. CASE Parse
    BY <1>1 DEF Parse, ParsedInv, Balanced
<1>2. CASE ~Parse
    <2>1. /\ UNCHANGED <<file, services, messages>>
          /\ pc' \in {"check", "interface", "method", "done"}
                => pc \in {"check", "interface", "method", "done"}
        BY <1>2 DEF Next, Check, OpenInterface, SkipMethod, EmitMethod,
                    CloseInterface, Return, vars
    <2>. QED
        BY <2>1 DEF ParsedInv
<1>. QED
    BY <1>1, <1>2

\* The method an action handles.
Method == services[svc].methods[meth]

\* The method at hand is the next one of its service, and EmitMethod is taken
\* exactly if it is to be kept.
LEMMA AtHand ==
    ASSUME TypeOK, LoopsInv, [Next]_vars, Handling, NEW s \in DOMAIN services, s = svc
    PROVE  /\ services[s].methods[Seen(s) + 1] = Method
           /\ Seen(s) \in 0..(Len(services[s].methods) - 1)
           /\ EmitMethod <=> Seen(s) + 1 \in Kept(services[s].methods)
<1>. DEFINE ms == services[s].methods
<1>1. Seen(s) = meth - 1 /\ meth \in Nat
    BY SeenSteps DEF TypeOK, Handling, Parse, SkipMethod, EmitMethod
<1>2. ms \in Seq(Rpc) /\ Seen(s) \in 0..Len(ms)
    BY SeenWithin
<1>3. meth <= Len(ms)
    BY DEF Handling, SkipMethod, EmitMethod
<1>4. Seen(s) \in 0..(Len(ms) - 1) /\ Seen(s) + 1 = meth /\ meth \in DOMAIN ms
    BY <1>1, <1>2, <1>3
<1>5. meth \in Kept(ms) <=> WhySkipped(ms[meth]) = ""
    BY <1>4 DEF Kept
<1>6. /\ EmitMethod => WhySkipped(ms[meth]) = ""
      /\ SkipMethod => WhySkipped(ms[meth]) # ""
    BY DEF EmitMethod, SkipMethod
<1>. QED
    BY <1>4, <1>5, <1>6 DEF Method, Handling

\* Interfaces are written for services that there are.
LEMMA OutWithin ==
    ASSUME TypeOK, LoopsInv
    PROVE  \A s \in DOMAIN out : s \in DOMAIN services
<1>1. /\ DOMAIN out = 1..Len(out) /\ Len(out) \in Nat
      /\ DOMAIN services = 1..Len(services) /\ Len(services) \in Nat
      /\ svc \in 1..(Len(services) + 1)
    BY DEF TypeOK
<1>2. CASE pc \in {"parse", "check", "error"}
    <2>1. out = <<>>
        BY <1>2 DEF LoopsInv
    <2>. QED
        BY <2>1
<1>3. CASE pc \in {"interface", "done"}
    <2>1. Len(out) = svc - 1
        BY <1>3 DEF LoopsInv
    <2>2. Len(out) <= Len(services)
        BY <1>1, <2>1
    <2>. QED
        BY <1>1, <2>2
<1>4. CASE pc = "method"
    <2>1. Len(out) = svc /\ svc \in 1..Len(services)
        BY <1>1, <1>4 DEF LoopsInv, TypeOK
    <2>. QED
        BY <1>1, <2>1
<1>. QED
    BY <1>2, <1>3, <1>4 DEF TypeOK

\* What WrittenInv says of one interface.
WrittenAt(s) ==
    out[s] = [name    |-> services[s].name,
              methods |-> WrittenOf(services[s].methods, Seen(s))]

\* An interface stays right if nothing it depends on changes.
LEMMA WrittenKept ==
    ASSUME NEW s, UNCHANGED services, messages' = messages,
           Seen(s)' = Seen(s), out'[s] = out[s], WrittenAt(s)
    PROVE  WrittenAt(s)'
BY Unmoved DEF WrittenAt

\* No step breaks WrittenInv: an ordinal is used once, a method goes to its own
\* interface, and a skipped one leaves ord alone.
LEMMA StepWritten ==
    ASSUME TypeOK, LoopsInv, WrittenInv, [Next]_vars
    PROVE  WrittenInv'
<1>1. CASE Parse
    <2>1. out' = <<>>
        BY <1>1 DEF Parse, LoopsInv
    <2>. QED
        BY <2>1 DEF WrittenInv
<1>2. \A s \in DOMAIN out : WrittenAt(s) /\ s \in DOMAIN services
    BY OutWithin DEF WrittenInv, WrittenAt
<1>3. CASE OpenInterface
    <2>. DEFINE e == [name |-> services[svc].name, methods |-> <<>>]
                n == Len(out)
    <2>1. /\ ~Parse /\ ~Handling /\ out' = Append(out, e) /\ svc = n + 1
          /\ svc \in DOMAIN services /\ n \in Nat /\ Seen(svc) = 0
        BY <1>3 DEF OpenInterface, MoreServices, Parse, Handling, SkipMethod,
                    EmitMethod, LoopsInv, TypeOK, Seen
    <2>2. /\ DOMAIN out' = 1..(n + 1) /\ out'[n + 1] = e
          /\ \A i \in 1..n : out'[i] = out[i] /\ i \in DOMAIN out
        BY <2>1 DEF TypeOK
    <2>. HIDE DEF n
    <2>3. ASSUME NEW s \in 1..n PROVE WrittenAt(s)'
        <3>1. s \in DOMAIN services /\ WrittenAt(s)
            BY <1>2, <2>2
        <3>2. Seen(s)' = Seen(s) /\ UNCHANGED <<services, messages>>
            BY <2>1, <3>1, SeenSteps
        <3>. QED
            BY <2>2, <3>1, <3>2, WrittenKept
    <2>4. WrittenAt(svc)'
        <3>1. Seen(svc) = 0 /\ UNCHANGED <<services, messages, svc>>
            BY <1>3, <2>1 DEF OpenInterface
        <3>2. Seen(svc)' = 0
            BY <1>3, <3>1 DEF OpenInterface, Seen
        <3>3. \A ms : WrittenOf(ms, 0)' = <<>>
            <4>1. ASSUME NEW ms PROVE WrittenOf(ms, 0) = <<>>
                <5>1. SubSeq(ms, 1, 0) = <<>>
                    OBVIOUS
                <5>2. Picked(<<>>, Kept(ms)) = <<>>
                    BY PickedEmpty
                <5>3. Written(<<>>) = <<>>
                    BY DEF Written
                <5>. QED
                    BY <5>1, <5>2, <5>3 DEF WrittenOf
            <4>. QED
                BY <3>1, <4>1, Unmoved
        <3>. QED
            BY <2>1, <2>2, <3>1, <3>2, <3>3 DEF WrittenAt
    <2>. QED
        <3>1. svc' = svc
            BY <1>3 DEF OpenInterface
        <3>2. \A s \in 1..(n + 1) : s \in 1..n \/ s = svc
            BY <2>1
        <3>. QED
            BY <2>2, <2>3, <2>4, <3>1, <3>2 DEF WrittenInv, WrittenAt
<1>4. CASE Handling
    <2>1. ~Parse /\ pc = "method" /\ svc' = svc
        BY <1>4 DEF Parse, Handling, SkipMethod, EmitMethod
    <2>2. svc \in DOMAIN out /\ svc \in DOMAIN services
        BY <2>1 DEF LoopsInv, TypeOK
    <2>3. UNCHANGED <<services, messages>>
        BY <2>1, <2>2, SeenSteps
    <2>4. ASSUME NEW s \in DOMAIN out, s # svc, out'[s] = out[s] PROVE WrittenAt(s)'
        <3>1. s \in DOMAIN services /\ WrittenAt(s)
            BY <1>2
        <3>2. Seen(s)' = Seen(s)
            BY <2>1, <2>4, <3>1, SeenSteps
        <3>. QED
            BY <2>3, <2>4, <3>1, <3>2, WrittenKept
    <2>. DEFINE ms == services[svc].methods
                n == Seen(svc)
                e == [name |-> LowerFirst[Method.name], ord |-> ord,
                      params |-> flatten(Method.req),
                      results |-> flatten(Method.resp)]
    <2>5. Seen(svc)' = n + 1
        BY <1>4, <2>1, <2>2, SeenSteps
    <2>6. /\ ms[n + 1] = Method /\ n \in 0..(Len(ms) - 1)
          /\ EmitMethod <=> n + 1 \in Kept(ms)
        BY <1>4, <2>2, AtHand
    <2>7. ms \in Seq(Rpc)
        BY <2>2, SeenWithin
    <2>8. WrittenAt(svc)
        BY <1>2, <2>2
    <2>9. Len(WrittenOf(ms, n)) = ord
        BY <2>1, <2>8 DEF WrittenAt, LoopsInv
    <2>10. WrittenOf(ms, n + 1) = IF EmitMethod THEN Append(WrittenOf(ms, n), e)
                                  ELSE WrittenOf(ms, n)
        BY <2>6, <2>7, <2>9, WrittenSteps
    <2>11. CASE EmitMethod
        <3>1. out' = [out EXCEPT ![svc].methods = Append(@, e)]
            BY <2>11 DEF EmitMethod, Method
        <3>2. out'[svc] = [out[svc] EXCEPT !.methods = Append(@, e)]
              /\ DOMAIN out' = DOMAIN out
              /\ \A s \in DOMAIN out : s # svc => out'[s] = out[s]
            BY <2>2, <3>1
        <3>. HIDE DEF e
        <3>3. out'[svc] = [name |-> services[svc].name,
                           methods |-> WrittenOf(ms, n + 1)]
            BY <2>8, <2>10, <2>11, <3>2 DEF WrittenAt
        <3>4. WrittenAt(svc)'
            BY <2>1, <2>3, <2>5, <3>3, Unmoved DEF WrittenAt
        <3>. QED
            BY <2>1, <2>4, <3>2, <3>4 DEF WrittenInv, WrittenAt
    <2>12. CASE ~EmitMethod
        <3>1. out' = out
            BY <1>4, <2>12 DEF Handling, SkipMethod
        <3>2. WrittenAt(svc)'
            BY <2>1, <2>3, <2>5, <2>8, <2>10, <2>12, <3>1, Unmoved DEF WrittenAt
        <3>. QED
            BY <2>1, <2>4, <3>1, <3>2 DEF WrittenInv, WrittenAt
    <2>. QED
        BY <2>11, <2>12
<1>5. CASE ~Parse /\ ~OpenInterface /\ ~Handling
    <2>1. out' = out
        BY <1>5 DEF Next, Check, CloseInterface, Return, vars, Handling
    <2>2. ASSUME NEW s \in DOMAIN out PROVE WrittenAt(s)'
        <3>1. s \in DOMAIN services /\ WrittenAt(s)
            BY <1>2
        <3>2. Seen(s)' = Seen(s) /\ UNCHANGED <<services, messages>>
            BY <1>5, <3>1, SeenSteps
        <3>. QED
            BY <2>1, <3>1, <3>2, WrittenKept
    <2>. QED
        BY <2>1, <2>2 DEF WrittenInv, WrittenAt
<1>. QED
    BY <1>1, <1>3, <1>4, <1>5

\* What the two halves of SkippedInv say of an entry, and of a method.
EntryRight(j) ==
    LET s == skipped[j].svc
    IN  s \in DOMAIN services /\
        \E k \in 1..Seen(s) : /\ skipped[j].name = services[s].methods[k].name
                              /\ k \notin Kept(services[s].methods)

\* Method k of service s is in the skipped list.
Listed(s, k) ==
    \E j \in DOMAIN skipped : /\ skipped[j].svc = s
                              /\ skipped[j].name = services[s].methods[k].name

\* An entry stays right as more methods are handled.
LEMMA EntryKept ==
    ASSUME NEW j, EntryRight(j), skipped'[j] = skipped[j],
           UNCHANGED <<services, messages>>,
           \A s \in DOMAIN services :
              Seen(s) \in Nat /\ Seen(s)' \in {Seen(s), Seen(s) + 1}
    PROVE  EntryRight(j)'
<1>1. PICK s \in DOMAIN services :
         /\ s = skipped[j].svc
         /\ \E k \in 1..Seen(s) : /\ skipped[j].name = services[s].methods[k].name
                                  /\ k \notin Kept(services[s].methods)
    BY DEF EntryRight
<1>2. PICK k \in 1..Seen(s) : /\ skipped[j].name = services[s].methods[k].name
                              /\ k \notin Kept(services[s].methods)
    BY <1>1
<1>3. k \in 1..Seen(s)'
    BY <1>2
<1>4. k \notin Kept(services[s].methods)'
    BY <1>2, Unmoved
<1>5. /\ s \in DOMAIN services' /\ s = skipped'[j].svc
      /\ skipped'[j].name = services'[s].methods[k].name
    BY <1>1, <1>2
<1>. QED
    BY <1>3, <1>4, <1>5, Zenon DEF EntryRight

\* No step breaks SkippedInv.
LEMMA StepSkipped ==
    ASSUME TypeOK, TypeOK', LoopsInv, SkippedInv, [Next]_vars
    PROVE  SkippedInv'
<1>1. CASE Parse
    <2>1. skipped' = <<>> /\ svc' = 1 /\ pc' \in {"check", "error"}
        BY <1>1 DEF Parse, LoopsInv
    <2>2. ASSUME NEW s \in DOMAIN services' PROVE Seen(s)' = 0
        <3>1. s >= 1 /\ s \in Nat
            BY DEF TypeOK
        <3>. QED
            BY <2>1, <3>1 DEF Seen
    <2>. QED
        BY <2>1, <2>2 DEF SkippedInv
<1>2. CASE ~Parse
    <2>1. UNCHANGED <<services, messages>>
        BY <1>2 DEF Next, Check, OpenInterface, SkipMethod, EmitMethod,
                    CloseInterface, Return, vars
    <2>2. \A s \in DOMAIN services :
             /\ Seen(s) \in Nat
             /\ Seen(s)' = IF Handling /\ s = svc THEN Seen(s) + 1 ELSE Seen(s)
        BY <1>2, SeenWithin, SeenSteps
    <2>3. \A j \in DOMAIN skipped : EntryRight(j)
        BY DEF SkippedInv, EntryRight
    <2>4. \A s \in DOMAIN services : \A k \in 1..Seen(s) :
             k \notin Kept(services[s].methods) => Listed(s, k)
        BY DEF SkippedInv, Listed
    <2>. DEFINE n == Len(skipped)
                e == [svc |-> svc, name |-> Method.name, why |-> WhySkipped(Method)]
    <2>5. n \in Nat /\ DOMAIN skipped = 1..n
        BY DEF TypeOK
    <2>6. IF SkipMethod THEN skipped' = Append(skipped, e) ELSE skipped' = skipped
        BY <1>2 DEF Next, Check, OpenInterface, SkipMethod, EmitMethod,
                    CloseInterface, Return, vars, Method
    <2>7. /\ \A j \in 1..n : j \in DOMAIN skipped' /\ skipped'[j] = skipped[j]
          /\ SkipMethod => skipped'[n + 1] = e /\ DOMAIN skipped' = 1..(n + 1)
          /\ ~SkipMethod => DOMAIN skipped' = 1..n
        <3>1. CASE SkipMethod
            <4>. HIDE DEF e
            <4>1. /\ Len(skipped') = n + 1 /\ skipped'[n + 1] = e
                  /\ DOMAIN skipped' = 1..(n + 1)
                  /\ \A j \in 1..n : skipped'[j] = skipped[j]
                BY <2>5, <2>6, <3>1 DEF TypeOK
            <4>. QED
                BY <2>5, <3>1, <4>1
        <3>2. CASE ~SkipMethod
            BY <2>5, <2>6, <3>2
        <3>. QED
            BY <3>1, <3>2
    <2>. HIDE DEF n
    <2>8. ASSUME Handling
          PROVE  /\ svc \in DOMAIN services
                 /\ services[svc].methods[Seen(svc) + 1] = Method
                 /\ SkipMethod <=> Seen(svc) + 1 \notin Kept(services[svc].methods)
        <3>1. svc \in DOMAIN services
            BY <2>8 DEF Handling, SkipMethod, EmitMethod, TypeOK
        <3>2. SkipMethod <=> ~EmitMethod
            BY <2>8 DEF Handling, SkipMethod, EmitMethod
        <3>. QED
            BY <2>8, <3>1, <3>2, AtHand
    <2>9. ASSUME NEW j \in DOMAIN skipped' PROVE EntryRight(j)'
        <3>1. CASE j \in 1..n
            <4>1. EntryRight(j) /\ skipped'[j] = skipped[j]
                BY <2>3, <2>5, <2>7, <3>1
            <4>2. \A s \in DOMAIN services :
                     Seen(s) \in Nat /\ Seen(s)' \in {Seen(s), Seen(s) + 1}
                BY <2>2
            <4>. QED
                BY <2>1, <4>1, <4>2, EntryKept
        <3>2. CASE j \notin 1..n
            <4>1. SkipMethod /\ j = n + 1
                BY <2>5, <2>7, <3>2
            <4>2. skipped'[j].svc = svc /\ skipped'[j].name = Method.name
                BY <2>7, <4>1
            <4>3. PICK s \in DOMAIN services : s = svc
                BY <2>8, <4>1 DEF Handling
            <4>. DEFINE k == Seen(s) + 1
            <4>4. k \in 1..Seen(s)'
                BY <2>2, <4>1, <4>3 DEF Handling
            <4>5. services[s].methods[k] = Method /\ k \notin Kept(services[s].methods)
                BY <2>8, <4>1, <4>3 DEF Handling
            <4>. HIDE DEF k
            <4>6. services'[s].methods[k] = Method
                  /\ k \notin Kept(services[s].methods)'
                  /\ s \in DOMAIN services'
                BY <2>1, <4>3, <4>5, Unmoved
            <4>. QED
                BY <4>2, <4>3, <4>4, <4>6, Zenon DEF EntryRight
        <3>. QED
            BY <3>1, <3>2
    <2>10. ASSUME NEW s \in DOMAIN services, NEW k \in 1..Seen(s)',
                  k \notin Kept(services[s].methods)
           PROVE  Listed(s, k)'
        <3>1. CASE k \in 1..Seen(s)
            <4>1. PICK j \in 1..n : /\ skipped[j].svc = s
                                    /\ skipped[j].name = services[s].methods[k].name
                BY <2>4, <2>5, <2>10, <3>1 DEF Listed
            <4>2. j \in DOMAIN skipped' /\ skipped'[j] = skipped[j]
                BY <2>7
            <4>. QED
                BY <2>1, <4>1, <4>2 DEF Listed
        <3>2. CASE k \notin 1..Seen(s)
            <4>1. Handling /\ s = svc /\ k = Seen(s) + 1
                BY <2>2, <3>2
            <4>2. SkipMethod
                BY <2>8, <2>10, <4>1
            <4>3. n + 1 \in DOMAIN skipped' /\ skipped'[n + 1] = e
                BY <2>5, <2>7, <4>2
            <4>. QED
                BY <2>1, <2>8, <4>1, <4>3 DEF Listed
        <3>. QED
            BY <3>1, <3>2
    <2>11. \A s \in DOMAIN services' : \A k \in 1..Seen(s)' :
              k \notin Kept(services[s].methods)' => Listed(s, k)'
        BY <2>1, <2>10, Unmoved
    <2>12. \A j \in DOMAIN skipped' : EntryRight(j)'
        BY <2>9
    <2>. QED
        BY <2>11, <2>12, Zenon DEF SkippedInv, EntryRight, Listed
<1>. QED
    BY <1>1, <1>2

\* ProtoInv holds initially ...
LEMMA InitInv == Init => ProtoInv
<1>. SUFFICES ASSUME Init PROVE ProtoInv
    OBVIOUS
<1>1. TypeOK /\ file \in Files
    BY InitTyped
<1>2. out = <<>> /\ skipped = <<>> /\ services = <<>> /\ pc = "parse" /\ svc = 1
    BY DEF Init
<1>. QED
    BY <1>1, <1>2 DEF ProtoInv, LoopsInv, ParsedInv, WrittenInv, SkippedInv

\* ... and every step keeps it.
LEMMA StepInv == ProtoInv /\ [Next]_vars => ProtoInv'
BY StepTyped, StepLoops, StepParsed, StepWritten, StepSkipped DEF ProtoInv

\* For files of any length, at every step of ToCapnp, each interface holds the
\* translations of exactly the methods handled so far that are not to be skipped,
\* in order, and the skipped list holds the others (protoconv.go:39-60).
THEOREM ProtoInvariant == Spec => []ProtoInv
BY InitInv, StepInv, PTL DEF Spec

-----------------------------------------------------------------------------

\* Handled, which the properties speak of, is the prefix the invariant does.
LEMMA HandledSeen ==
    ASSUME TypeOK, NEW s \in DOMAIN services
    PROVE  Handled(s) = SubSeq(services[s].methods, 1, Seen(s))
<1>. DEFINE ms == services[s].methods
<1>1. ms \in Seq(Rpc) /\ Len(ms) \in Nat
    BY SeenWithin
<1>. HIDE DEF ms
<1>2. CASE s < svc \/ pc = "done"
    <2>1. Handled(s) = ms /\ Seen(s) = Len(ms)
        BY <1>2 DEF Handled, Seen, ms
    <2>2. SubSeq(ms, 1, Len(ms)) = ms
        BY <1>1
    <2>. QED
        BY <2>1, <2>2 DEF ms
<1>3. CASE ~(s < svc \/ pc = "done") /\ s = svc /\ pc = "method"
    BY <1>3 DEF Handled, Seen
<1>4. CASE ~(s < svc \/ pc = "done") /\ ~(s = svc /\ pc = "method")
    <2>1. Handled(s) = <<>> /\ Seen(s) = 0
        BY <1>4 DEF Handled, Seen
    <2>2. SubSeq(ms, 1, 0) = <<>>
        BY <1>1
    <2>. QED
        BY <2>1, <2>2 DEF ms
<1>. QED
    BY <1>2, <1>3, <1>4

\* A service declares no rpc twice. protoc demands it and ToCapnp does not look;
\* the skipped list holds names, so that without it a skipped rpc and a translated
\* one could not be told apart there.
RpcNamesDistinct ==
    \A s \in DOMAIN services : \A j, k \in DOMAIN services[s].methods :
        services[s].methods[j].name = services[s].methods[k].name => j = k

\* A handled method is in the skipped list exactly if it was to be skipped.
LEMMA SkippedExactly ==
    ASSUME TypeOK, SkippedInv, RpcNamesDistinct,
           NEW s \in DOMAIN services, NEW k \in 1..Seen(s)
    PROVE  SkippedIn(s, services[s].methods[k]) <=> k \notin Kept(services[s].methods)
<1>. DEFINE ms == services[s].methods
<1>1. Seen(s) \in 0..Len(ms) /\ DOMAIN ms = 1..Len(ms) /\ Len(ms) \in Nat
    BY SeenWithin
<1>2. ASSUME k \notin Kept(ms) PROVE SkippedIn(s, ms[k])
    BY <1>2 DEF SkippedInv, SkippedIn
<1>3. ASSUME SkippedIn(s, ms[k]) PROVE k \notin Kept(ms)
    <2>1. PICK j \in DOMAIN skipped : skipped[j].svc = s /\ skipped[j].name = ms[k].name
        BY <1>3 DEF SkippedIn
    <2>2. PICK i \in 1..Seen(s) : skipped[j].name = ms[i].name /\ i \notin Kept(ms)
        BY <2>1 DEF SkippedInv
    <2>3. i \in DOMAIN ms /\ k \in DOMAIN ms
        BY <1>1
    <2>4. i = k
        BY <2>1, <2>2, <2>3 DEF RpcNamesDistinct
    <2>. QED
        BY <2>2, <2>4
<1>. QED
    BY <1>2, <1>3

\* What is handled and not in the skipped list is what was kept.
LEMMA EmittedPicked ==
    ASSUME TypeOK, SkippedInv, RpcNamesDistinct, NEW s \in DOMAIN services
    PROVE  SelectAt(Handled(s), LAMBDA k : ~SkippedIn(s, Handled(s)[k]))
             = Picked(SubSeq(services[s].methods, 1, Seen(s)),
                      Kept(services[s].methods))
<1>. DEFINE ms == services[s].methods
            h  == Handled(s)
            I  == {k \in DOMAIN h : ~SkippedIn(s, h[k])}
<1>1. h = SubSeq(ms, 1, Seen(s))
    BY HandledSeen
<1>2. SelectAt(Handled(s), LAMBDA k : ~SkippedIn(s, Handled(s)[k])) = Picked(h, I)
    BY DEF SelectAt, Picked, Pieces
<1>3. DOMAIN h = 1..Seen(s) /\ \A k \in 1..Seen(s) : h[k] = ms[k]
    BY <1>1, SeenWithin
<1>4. \A k \in DOMAIN h : k \in I <=> k \in Kept(ms)
    BY <1>3, SkippedExactly
<1>. HIDE DEF h, I
<1>5. Picked(h, I) = Picked(h, Kept(ms))
    BY <1>4, PickedSame
<1>. QED
    BY <1>1, <1>2, <1>5

\* MethodsNumbered follows from the invariant.
LEMMA InvNumbers == ProtoInv /\ RpcNamesDistinct => MethodsNumbered
<1>. SUFFICES ASSUME ProtoInv, RpcNamesDistinct, NEW s \in DOMAIN out
              PROVE  LET emitted == SelectAt(Handled(s),
                                      LAMBDA k : ~SkippedIn(s, Handled(s)[k]))
                     IN  /\ DOMAIN out[s].methods = DOMAIN emitted
                         /\ \A k \in DOMAIN emitted :
                               /\ out[s].methods[k].name
                                    = LowerFirst[emitted[k].name]
                               /\ out[s].methods[k].ord = k - 1
    BY DEF MethodsNumbered
<1>. DEFINE emitted == Picked(SubSeq(services[s].methods, 1, Seen(s)),
                              Kept(services[s].methods))
<1>1. s \in DOMAIN services
    BY OutWithin DEF ProtoInv
<1>2. SelectAt(Handled(s), LAMBDA k : ~SkippedIn(s, Handled(s)[k])) = emitted
    BY <1>1, EmittedPicked DEF ProtoInv
<1>3. out[s].methods = Written(emitted)
    BY DEF ProtoInv, WrittenInv, WrittenOf
<1>. HIDE DEF emitted
<1>4. /\ DOMAIN out[s].methods = DOMAIN emitted
      /\ \A k \in DOMAIN emitted :
            /\ out[s].methods[k].name = LowerFirst[emitted[k].name]
            /\ out[s].methods[k].ord = k - 1
    BY <1>3 DEF Written
<1>. QED
    BY <1>2, <1>4

\* For any file whose services declare no rpc twice, at every step: every method
\* handled is in the skipped list or in its interface, which keeps their order and
\* numbers them from 0 without a gap (ord of ToCapnp).
THEOREM Numbered == Spec => [](RpcNamesDistinct => MethodsNumbered)
    BY InvNumbers, ProtoInvariant, PTL

-----------------------------------------------------------------------------

\* A block is not closed by the brace that opens it.
LEMMA NotClosedAtOnce ==
    ASSUME NEW text \in Seq(Lexeme), NEW i \in DOMAIN text, text[i].d = "open"
    PROVE  i \notin Closings(text, i)
<1>. DEFINE opens  == {k \in i..i : text[k].d = "open"}
            closes == {k \in i..i : text[k].d = "close"}
<1>1. i \in Int /\ i..i = {i}
    OBVIOUS
<1>2. opens = {i} /\ closes = {}
    BY <1>1
<1>3. Cardinality(opens) = 1 /\ Cardinality(closes) = 0
    BY <1>2, FS_Singleton, FS_EmptySet
<1>. HIDE DEF opens, closes
<1>4. Depth(text, i, i) = Cardinality(opens) - Cardinality(closes)
    BY DEF Depth, opens, closes
<1>5. Depth(text, i, i) # 0
    BY <1>3, <1>4
<1>. QED
    BY <1>5 DEF Closings

\* If there are only fields between the braces of a message, those are its members.
LEMMA MembersBetween ==
    ASSUME NEW text \in Seq(Lexeme), text = Text,
           NEW i \in DOMAIN text, IsBlock(text, i, {"message"}),
           NEW c \in (i + 1)..Len(text), c = Min(Closings(text, i)),
           \A j \in (i + 1)..(c - 1) : text[j].d = "field"
    PROVE  Members(i) = SubSeq(text, i + 1, c - 1)
<1>. DEFINE Blocks(j) == {k \in DOMAIN text : Covers(text, k, j)
                            /\ ~IsBlock(text, k, {"oneof"})}
            J == {j \in DOMAIN text : /\ text[j].d \in {"field", "map"}
                                      /\ Covers(text, i, j)
                                      /\ i = Max(Blocks(j))}
<1>1. Members(i) = Picked(text, J)
    BY DEF Members, SelectAt, Picked, Pieces
<1>2. i \in Nat /\ Len(text) \in Nat /\ DOMAIN text = 1..Len(text)
    OBVIOUS
<1>3. ASSUME NEW j \in DOMAIN text, j \in (i + 1)..(c - 1) PROVE j \in J
    <2>1. Covers(text, i, j)
        BY <1>2, <1>3 DEF Covers, IsBlock
    <2>2. i \in Blocks(j)
        BY <2>1 DEF IsBlock
    <2>3. Blocks(j) \subseteq 1..Len(text)
        BY <1>2
    <2>4. PICK m \in Blocks(j) : m = Max(Blocks(j)) /\ i <= m
        <3>. HIDE DEF Blocks
        <3>. QED
            BY <1>2, <2>2, <2>3, MaxOfInterval
    <2>5. text[m].d = "open" /\ m < j /\ m \in DOMAIN text
        BY <2>4 DEF Covers
    <2>6. m \notin (i + 1)..(c - 1)
        BY <2>5
    <2>7. m = i
        BY <1>2, <1>3, <2>4, <2>5, <2>6
    <2>. QED
        BY <1>3, <2>1, <2>4, <2>7
<1>4. \A j \in DOMAIN text : j \in J <=> i + 1 <= j /\ j <= c - 1
    <2>1. ASSUME NEW j \in J PROVE i + 1 <= j /\ j <= c - 1
        BY <1>2 DEF Covers
    <2>. HIDE DEF J
    <2>. QED
        BY <1>2, <1>3, <2>1
<1>. HIDE DEF J
<1>5. Picked(text, J) = SubSeq(text, i + 1, c - 1)
    <2>. DEFINE a == i + 1
                b == c - 1
    <2>1. /\ a \in Nat /\ b \in Nat /\ 1 <= a /\ a <= b + 1 /\ b <= Len(text)
          /\ \A j \in DOMAIN text : j \in J <=> a <= j /\ j <= b
        BY <1>2, <1>4
    <2>. HIDE DEF a, b
    <2>2. Picked(text, J) = SubSeq(text, a, b)
        BY <2>1, PickedInterval
    <2>. QED
        BY <2>2 DEF a, b
<1>. QED
    BY <1>1, <1>5

\* parseFields reads such a body completely.
LEMMA PlainBody ==
    ASSUME NEW body \in Seq(Field),
           \A j \in DOMAIN body : /\ body[j].d = "field"
                                  /\ body[j].label # "optional"
                                  /\ ~SaysOneof(body[j])
    PROVE  parseFields(body) = body
<1>. DEFINE I == {i \in DOMAIN body : IsFieldLine(body, i)}
<1>1. ASSUME NEW j \in DOMAIN body PROVE IsFieldLine(body, j)
    <2>1. j > 1 => j - 1 \in DOMAIN body
        OBVIOUS
    <2>. QED
        BY <2>1 DEF IsFieldLine
<1>2. \A j \in DOMAIN body : j \in I <=> 1 <= j /\ j <= Len(body)
    BY <1>1
<1>. HIDE DEF I
<1>3. Picked(body, I) = SubSeq(body, 1, Len(body))
    BY <1>2, PickedInterval
<1>4. parseFields(body) = Picked(body, I)
    BY DEF parseFields, SelectAt, Picked, Pieces, I
<1>. QED
    BY <1>3, <1>4

\* A plain message is read as protobuf does: it is the only one of its path, it is
\* the one found under its last name, and its fields are its members.
LEMMA PlainRead ==
    ASSUME file \in Files, Text = stripComments(file),
           Balanced(stripComments(file)),
           messages = ParsedMessages(stripComments(file)),
           NEW path, PlainMessage(path)
    PROVE  \E ms : /\ ms \in Seq(Field) /\ Declared(path) = {ms}
                   /\ trimPkg(path) \in DOMAIN messages
                   /\ messages[trimPkg(path)] = ms
<1>. DEFINE text == Text
            n == Last(path)
            At(m) == {i \in DOMAIN text : IsBlock(text, i, {"message"})
                                            /\ text[i].name = m}
<1>1. text \in Seq(Lexeme)
    BY ProtoConvAssumption, ScanType DEF stripComments
<1>2. PICK i \in MessagesAt(path) :
         /\ \A j \in DOMAIN text : IsBlock(text, j, {"message"})
                                    /\ text[j].name = n => j = i
         /\ \A j \in (i + 1)..(Min(Closings(text, i)) - 1) :
               /\ text[j].d = "field"
               /\ text[j].label # "optional"
               /\ ~SaysOneof(text[j])
    BY DEF PlainMessage
<1>3. i \in DOMAIN text /\ IsBlock(text, i, {"message"}) /\ text[i].name = n
    BY <1>2 DEF MessagesAt
<1>4. Declared(path) = {Members(i)}
    <2>1. \A j \in MessagesAt(path) : j = i
        BY <1>2 DEF MessagesAt
    <2>. QED
        BY <2>1 DEF Declared
<1>5. At(n) = {i} /\ n \in Names
    BY <1>1, <1>2, <1>3, LexemeKinds DEF IsBlock, Open
<1>6. Max({i}) = i
    <2>1. {i} \subseteq 1..Len(text) /\ Len(text) \in Nat /\ {i} # {}
        BY <1>1, <1>3
    <2>2. Max({i}) \in {i}
        BY <2>1, MaxOfInterval
    <2>. QED
        BY <2>2
<1>7. n \in DOMAIN messages /\ messages[n] = parseFields(balancedBody(text, i))
    <2>1. messages = [m \in {m \in Names : At(m) # {}} |->
                        parseFields(balancedBody(text, Max(At(m))))]
        BY DEF ParsedMessages
    <2>. HIDE DEF At
    <2>. QED
        BY <1>5, <1>6, <2>1
<1>. DEFINE c == Min(Closings(text, i))
            body == SubSeq(text, i + 1, c - 1)
<1>8. c \in (i + 1)..Len(text)
    <2>1. Closings(text, i) # {}
        BY <1>3 DEF Balanced, IsBlock
    <2>2. c \in i..Len(text)
        BY <1>1, <1>3, <2>1, ClosingFound
    <2>3. c \in Closings(text, i)
        <3>1. Closings(text, i) \subseteq Nat
            BY <1>1, <1>3 DEF Closings
        <3>. QED
            BY <2>1, <3>1, MinOfNats
    <2>4. c # i
        BY <1>1, <1>3, <2>3, NotClosedAtOnce DEF IsBlock
    <2>. HIDE DEF c
    <2>. QED
        BY <1>1, <1>3, <2>2, <2>4
<1>9. Members(i) = body
    <2>1. \A j \in (i + 1)..(c - 1) : text[j].d = "field"
        BY <1>2
    <2>. QED
        BY <1>1, <1>3, <1>8, <2>1, MembersBetween
<1>. HIDE DEF c, text
<1>10. /\ body \in Seq(Field)
       /\ \A j \in DOMAIN body : /\ body[j].d = "field"
                                 /\ body[j].label # "optional"
                                 /\ ~SaysOneof(body[j])
    <2>1. \A j \in (i + 1)..(c - 1) : text[j] \in Field
        <3>1. \A j \in (i + 1)..(c - 1) : text[j] \in Lexeme /\ text[j].d = "field"
            BY <1>1, <1>2, <1>3, <1>8 DEF c, text
        <3>. QED
            BY <3>1, LexemeKinds
    <2>2. i \in Nat /\ i + 1 <= c /\ c \in Nat
        BY <1>1, <1>3, <1>8
    <2>3. Len(body) = c - 1 - i /\ \A j \in 1..(c - 1 - i) : body[j] = text[i + j]
        BY <1>1, <1>3, <1>8, <2>2
    <2>4. body \in Seq(Field)
        BY <2>1, <2>2, SubSeqProperties
    <2>5. DOMAIN body = 1..(c - 1 - i)
        BY <2>3, <2>4
    <2>6. \A j \in 1..(c - 1 - i) : i + j \in (i + 1)..(c - 1)
        BY <2>2
    <2>. QED
        BY <1>2, <2>3, <2>4, <2>5, <2>6 DEF c, text
<1>11. parseFields(body) = body
    BY <1>10, PlainBody
<1>. QED
    BY <1>4, <1>7, <1>9, <1>10, <1>11 DEF balancedBody, c, trimPkg

\* So it is flattened exactly if it can be translated, into what it declares.
LEMMA PlainFlattens ==
    ASSUME TypeOK, file \in Files, ParsedInv, pc = "done",
           Text = stripComments(file), NEW path, PlainMessage(path)
    PROVE  /\ Flattens(path) <=> Translatable(path)
           /\ Flattens(path) => Says(flatten(path), path)
<1>1. PICK ms \in Seq(Field) : /\ Declared(path) = {ms}
                               /\ trimPkg(path) \in DOMAIN messages
                               /\ messages[trimPkg(path)] = ms
    BY PlainRead DEF ParsedInv
<1>2. \A k \in DOMAIN ms : ms[k].d = "field"
    <2>1. \A k \in DOMAIN ms : ms[k] \in Field
        OBVIOUS
    <2>. QED
        BY <2>1 DEF Field
<1>3. Flattens(path) <=> \A k \in DOMAIN ms : Supported(ms[k])
    BY <1>1 DEF Flattens
<1>4. Translatable(path) <=> \A k \in DOMAIN ms : Supported(ms[k])
    BY <1>1, <1>2 DEF Translatable
<1>5. flatten(path) = [k \in DOMAIN ms |-> AsParam(ms[k])]
    BY <1>1 DEF flatten
<1>6. ASSUME Flattens(path) PROVE Says(flatten(path), path)
    BY <1>1, <1>2, <1>3, <1>5, <1>6 DEF Says
<1>. QED
    BY <1>3, <1>4, <1>6

\* PlainMethodsExact follows from the invariant.
LEMMA InvExact == ProtoInv /\ RpcNamesDistinct => PlainMethodsExact
<1>. SUFFICES ASSUME ProtoInv, RpcNamesDistinct,
                     pc = "done", Text = stripComments(file),
                     NEW s \in DOMAIN out,
                     NEW k \in DOMAIN services[s].methods,
                     PlainMessage(services[s].methods[k].req),
                     PlainMessage(services[s].methods[k].resp)
              PROVE  LET m == services[s].methods[k]
                     IN  /\ SkippedIn(s, m) <=> \/ m.stream # {}
                                                \/ ~Translatable(m.req)
                                                \/ ~Translatable(m.resp)
                         /\ ~SkippedIn(s, m) =>
                              \E e \in Range(out[s].methods) :
                                 /\ e.name = LowerFirst[m.name]
                                 /\ Says(e.params, m.req)
                                 /\ Says(e.results, m.resp)
    BY DEF PlainMethodsExact
<1>. DEFINE ms == services[s].methods
            m  == ms[k]
<1>1. s \in DOMAIN services
    BY OutWithin DEF ProtoInv
<1>2. Seen(s) = Len(ms) /\ ms \in Seq(Rpc) /\ k \in 1..Seen(s)
    BY <1>1, SeenWithin DEF ProtoInv, Seen
<1>3. SkippedIn(s, m) <=> k \notin Kept(ms)
    BY <1>1, <1>2, SkippedExactly DEF ProtoInv
<1>4. k \in Kept(ms) <=> m.stream = {} /\ Flattens(m.req) /\ Flattens(m.resp)
    BY DEF Kept, WhySkipped
<1>5. /\ Flattens(m.req) <=> Translatable(m.req)
      /\ Flattens(m.resp) <=> Translatable(m.resp)
      /\ Flattens(m.req) => Says(flatten(m.req), m.req)
      /\ Flattens(m.resp) => Says(flatten(m.resp), m.resp)
    BY PlainFlattens DEF ProtoInv
<1>6. ASSUME k \in Kept(ms)
      PROVE  \E e \in Range(out[s].methods) : /\ e.name = LowerFirst[m.name]
                                              /\ Says(e.params, m.req)
                                              /\ Says(e.results, m.resp)
    <2>. DEFINE es == Picked(ms, Kept(ms))
    <2>1. PICK j \in DOMAIN es : es[j] = m
        BY <1>2, <1>6, PickedHas
    <2>2. SubSeq(ms, 1, Seen(s)) = ms
        BY <1>2
    <2>3. out[s].methods = Written(es)
        <3>1. out[s].methods = WrittenOf(ms, Seen(s))
            BY DEF ProtoInv, WrittenInv
        <3>2. WrittenOf(ms, Seen(s)) = Written(es)
            BY <2>2 DEF WrittenOf
        <3>. QED
            BY <3>1, <3>2
    <2>. HIDE DEF es, m
    <2>4. /\ j \in DOMAIN out[s].methods
          /\ out[s].methods[j].name = LowerFirst[m.name]
          /\ out[s].methods[j].params = flatten(m.req)
          /\ out[s].methods[j].results = flatten(m.resp)
        BY <2>1, <2>3 DEF Written
    <2>5. out[s].methods[j] \in Range(out[s].methods)
        BY <2>4, Zenon DEF Range
    <2>. QED
        BY <1>4, <1>5, <1>6, <2>4, <2>5 DEF m
<1>. QED
    BY <1>3, <1>4, <1>5, <1>6

\* For any file whose services declare no rpc twice, when ToCapnp returns: a method
\* between two plain messages has exactly the fields they declare, and is skipped
\* exactly if it streams or a field of theirs cannot be translated, whatever else
\* the file holds (flatten, parseFields, stripComments).
THEOREM PlainExact == Spec => [](RpcNamesDistinct => PlainMethodsExact)
    BY InvExact, ProtoInvariant, PTL

-----------------------------------------------------------------------------

\* ToCapnp as a function: what it returns for the text f.
FlattensBy(msgs, path) ==
    /\ trimPkg(path) \in DOMAIN msgs
    /\ \A k \in DOMAIN msgs[trimPkg(path)] : Supported(msgs[trimPkg(path)][k])

\* What it is flattened to.
FlattenedBy(msgs, path) ==
    [k \in DOMAIN msgs[trimPkg(path)] |-> AsParam(msgs[trimPkg(path)][k])]

\* The methods of an interface, as a function of the messages and the rpcs.
TranslatedBy(msgs, rpcs) ==
    LET kept == Picked(rpcs, {k \in DOMAIN rpcs : /\ rpcs[k].stream = {}
                                                  /\ FlattensBy(msgs, rpcs[k].req)
                                                  /\ FlattensBy(msgs, rpcs[k].resp)})
    IN  [k \in DOMAIN kept |-> [name    |-> LowerFirst[kept[k].name],
                                ord     |-> k - 1,
                                params  |-> FlattenedBy(msgs, kept[k].req),
                                results |-> FlattenedBy(msgs, kept[k].resp)]]

\* What ToCapnp returns for the text f, said without its loops.
Translation(f) ==
    LET text == stripComments(f)
        ss   == ParsedServices(text)
    IN  [s \in DOMAIN ss |->
            [name    |-> ss[s].name,
             methods |-> TranslatedBy(ParsedMessages(text), ss[s].methods)]]

\* The invariant says that at the end.
LEMMA DoneTranslated == ProtoInv /\ pc = "done" => out = Translation(file)
<1>. SUFFICES ASSUME ProtoInv, pc = "done" PROVE out = Translation(file)
    OBVIOUS
<1>1. /\ messages = ParsedMessages(stripComments(file))
      /\ services = ParsedServices(stripComments(file))
    BY DEF ProtoInv, ParsedInv
<1>2. DOMAIN out = DOMAIN services /\ out = [s \in DOMAIN out |-> out[s]]
    BY DEF ProtoInv, TypeOK, LoopsInv
<1>3. ASSUME NEW s \in DOMAIN out
      PROVE  out[s] = [name    |-> services[s].name,
                       methods |-> TranslatedBy(messages, services[s].methods)]
    <2>. DEFINE ms == services[s].methods
    <2>1. ms \in Seq(Rpc) /\ Seen(s) = Len(ms)
        BY <1>2, <1>3, SeenWithin DEF ProtoInv, Seen
    <2>2. SubSeq(ms, 1, Seen(s)) = ms
        BY <2>1
    <2>3. Kept(ms) = {k \in DOMAIN ms : /\ ms[k].stream = {}
                                        /\ FlattensBy(messages, ms[k].req)
                                        /\ FlattensBy(messages, ms[k].resp)}
        <3>1. \A m : WhySkipped(m) = "" <=> /\ m.stream = {}
                                            /\ FlattensBy(messages, m.req)
                                            /\ FlattensBy(messages, m.resp)
            BY DEF WhySkipped, Flattens, FlattensBy
        <3>. QED
            BY <3>1 DEF Kept
    <2>4. \A path : flatten(path) = FlattenedBy(messages, path)
        BY DEF flatten, FlattenedBy
    <2>5. WrittenOf(ms, Seen(s)) = Written(Picked(ms, Kept(ms)))
        BY <2>2 DEF WrittenOf
    <2>6. Written(Picked(ms, Kept(ms))) = TranslatedBy(messages, ms)
        BY <2>3, <2>4 DEF Written, TranslatedBy
    <2>7. out[s] = [name |-> services[s].name, methods |-> WrittenOf(ms, Seen(s))]
        BY DEF ProtoInv, WrittenInv
    <2>. QED
        BY <2>5, <2>6, <2>7
<1>. QED
    BY <1>1, <1>2, <1>3 DEF Translation

\* When ToCapnp returns, what it has written is a function of the text alone, and
\* this one: the same .proto gives the same ordinals and places on every run
\* (protoconv.go:20-62).
THEOREM IsFunction == Spec => [](pc = "done" => out = Translation(file))
<1>. QED
    BY DoneTranslated, ProtoInvariant, PTL

==============================================================================
