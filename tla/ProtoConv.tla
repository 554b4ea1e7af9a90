------------------------------- MODULE ProtoConv -------------------------------
(***************************************************************************)
(* The proto translator (internal/protoconv/protoconv.go): ToCapnp turns   *)
(* the text of a .proto file into an interface per service, with a method  *)
(* for every rpc it can translate, and a list of the rpcs it skipped.      *)
(*                                                                         *)
(* A text is a sequence of lexemes, one per declaration, opening or        *)
(* closing brace, or comment. The parser knows no grammar: it cuts texts   *)
(* at braces and semicolons and matches patterns, so what it reads depends *)
(* on what stands before a declaration. That is kept here; the characters  *)
(* of names and the layout of the output are not.                          *)
(***************************************************************************)
EXTENDS Integers, Sequences, FiniteSets, SequencesExt

CONSTANTS
    Files,          \* the texts that may be translated
    Names,          \* names of services, rpcs, messages, fields
    Camel,          \* of each name, its lowerCamelCase form
    LowerFirst,     \* of each name, the name with a small first letter
    MentionsOneof   \* the names and types with "oneof" inside

scalarToCapnp ==
    [double |-> "Float64", float |-> "Float32", bool |-> "Bool",
     int32 |-> "Int32", sint32 |-> "Int32", sfixed32 |-> "Int32",
     int64 |-> "Int64", sint64 |-> "Int64", sfixed64 |-> "Int64",
     uint32 |-> "UInt32", fixed32 |-> "UInt32",
     uint64 |-> "UInt64", fixed64 |-> "UInt64",
     string |-> "Text", bytes |-> "Data"]

\* What a file is made of. A field has a label ("" for none); a path is a name
\* with the packages or messages that qualify it; a go_package option may
\* leave the package or the import path empty.
Path     == Seq(Names) \ {<<>>}
Field    == [d: {"field"}, label: {"", "repeated", "optional"},
             type: STRING, name: Names]
MapField == [d: {"map"}, name: Names]
Value    == [d: {"value"}]
Rpc      == [d: {"rpc"}, name: Names, req: Path, resp: Path,
             stream: SUBSET {"request", "response"}]
Open     == [d: {"open"}, kind: {"service", "message", "enum", "oneof"},
             name: Names]
Close    == [d: {"close"}]
GoOption == [d: {"go_package"}, complete: BOOLEAN]

\* A comment, or part of one: one to the end of the line, one such with the
\* opener of a block inside, a block; an opener, a closer, the end of a line.
Remark   == [d: {"remark"}, kind: {"line", "lineWithOpener", "block",
                                   "begin", "end", "newline"}]
Lexeme   == Field \cup MapField \cup Value \cup Rpc \cup Open \cup Close
              \cup GoOption \cup Remark

ASSUME ProtoConvAssumption ==
    /\ Files \subseteq Seq(Lexeme)
    /\ Names \subseteq STRING /\ MentionsOneof \subseteq STRING
    /\ Camel \in [Names -> STRING] /\ LowerFirst \in [Names -> STRING]

VARIABLES
    file,      \* the text given to ToCapnp
    pc,        \* where ToCapnp is
    messages,  \* p.Messages: of each message name, its fields
    services,  \* p.Services: each service and its methods, in file order
    svc,       \* the service of the outer loop
    meth,      \* the method of the inner loop
    ord,       \* the ordinal the next emitted method gets
    out,       \* the interfaces written so far, with their methods
    skipped    \* the methods that could not be translated

vars == <<file, pc, messages, services, svc, meth, ord, out, skipped>>

Param     == [name: Range(Camel), type: Range(scalarToCapnp)]
OutMethod == [name: Range(LowerFirst), ord: Nat,
              params: Seq(Param), results: Seq(Param)]
ProtoService == [name: Names, methods: Seq(Rpc)]
OutInterface == [name: Names, methods: Seq(OutMethod)]
Skip      == [svc: Nat, name: Names, why: {"streaming", "params", "results"}]

TypeOK ==
    /\ pc \in {"parse", "check", "interface", "method", "done", "error"}
    /\ \A n \in DOMAIN messages : n \in Names /\ messages[n] \in Seq(Field)
    /\ services \in Seq(ProtoService)
    /\ svc \in 1..(Len(services) + 1)
    /\ pc = "method" => svc \in DOMAIN services
                          /\ meth \in 1..(Len(services[svc].methods) + 1)
    /\ meth \in Nat /\ ord \in Nat
    /\ out \in Seq(OutInterface)
    /\ skipped \in Seq(Skip)

Init ==
    /\ file \in Files
    /\ pc = "parse"
    /\ messages = <<>>
    /\ services = <<>>
    /\ svc = 1
    /\ meth = 1
    /\ ord = 0
    /\ out = <<>>
    /\ skipped = <<>>

-----------------------------------------------------------------------------
(* Cutting a text.                                                           *)

\* The elements of s at the indices that pass Test, in order.
SelectAt(s, Test(_)) ==
    FlattenSeq([i \in DOMAIN s |-> IF Test(i) THEN <<s[i]>> ELSE <<>>])

\* Where a scan for comments is after a remark: in the text, in a block, in one
\* that began in a line comment, or in the tail of that line comment, behind
\* the block.
After(at, kind, openers) ==
    CASE at \in {"text", "tail"} /\ kind \in openers ->
            IF at = "tail" \/ kind = "lineWithOpener" THEN "lineBlock" ELSE "block"
      [] at = "block" /\ kind \in {"block", "end"} -> "text"
      [] at = "lineBlock" /\ kind \in {"block", "end"} -> "tail"
      [] at = "tail" /\ kind \in {"line", "newline"} -> "text"
      [] OTHER -> at

\* The scan takes the lexeme x; a closer outside of a block is no comment.
Eat(acc, x, openers) ==
    LET kind == IF x.d = "remark" THEN x.kind ELSE ""
    IN  [at   |-> After(acc.at, kind, openers),
         left |-> IF acc.at = "text" /\ kind \in {"", "end"}
                  THEN Append(acc.left, x) ELSE acc.left]

\* What is left of a text when the blocks go, and then the line comments go.
WithoutComments(text, openers) ==
    FoldLeft(LAMBDA acc, x : Eat(acc, x, openers),
             [at |-> "text", left |-> <<>>], text).left

\* Block comments are cut out first: an opener inside a line comment is one.
stripComments(text) == WithoutComments(text, {"begin", "lineWithOpener"})

\* Opening less closing braces from i to j.
Depth(text, i, j) ==
    Cardinality({k \in i..j : text[k].d = "open"})
      - Cardinality({k \in i..j : text[k].d = "close"})

\* Where the depth that the brace at i begins comes back to 0.
Closings(text, i) == {j \in i..Len(text) : Depth(text, i, j) = 0}

balancedBody(text, i) == SubSeq(text, i + 1, Min(Closings(text, i)) - 1)

IsBlock(text, i, kinds) == text[i].d = "open" /\ text[i].kind \in kinds

\* Every block that is read has an end.
Balanced(text) ==
    \A i \in DOMAIN text :
        IsBlock(text, i, {"message", "service"}) => Closings(text, i) # {}

\* Does the line of this field contain "oneof"?
SaysOneof(f) == f.name \in MentionsOneof \/ f.type \in MentionsOneof

\* Is the declaration at i of a message body read as a field? The body is cut
\* at semicolons, a piece must begin with the field, and neither a brace nor
\* the closer of a comment is cut off.
IsFieldLine(body, i) ==
    /\ body[i].d = "field"
    /\ body[i].label # "optional"
    /\ ~SaysOneof(body[i])
    /\ i > 1 => body[i - 1].d \notin {"open", "close", "remark"}

\* Fault: a map field is taken for a field.
MapsToo(body) ==
    SelectAt(body, LAMBDA i : body[i].d = "map" \/ IsFieldLine(body, i))

parseFields(body) == SelectAt(body, LAMBDA i : IsFieldLine(body, i))

parseMethods(body) == SelectAt(body, LAMBDA i : body[i].d = "rpc")

\* Every block is read, nested ones too; the last one of a name is kept.
ParsedMessages(text) ==
    LET At(n) == {i \in DOMAIN text : IsBlock(text, i, {"message"})
                                        /\ text[i].name = n}
    IN  [n \in {m \in Names : At(m) # {}} |->
            parseFields(balancedBody(text, Max(At(n))))]

ParsedServices(text) ==
    FlattenSeq([i \in DOMAIN text |->
        IF IsBlock(text, i, {"service"})
        THEN <<[name |-> text[i].name,
                methods |-> parseMethods(balancedBody(text, i))]>>
        ELSE <<>>])

-----------------------------------------------------------------------------
(* Flattening a message into the parameters or the results of a method.      *)

trimPkg(path) == Last(path)

Supported(f) == f.label # "repeated" /\ f.type \in DOMAIN scalarToCapnp

\* Fault: the check of Repeated is forgotten.
FlattensRepeated(path) ==
    /\ trimPkg(path) \in DOMAIN messages
    /\ \A k \in DOMAIN messages[trimPkg(path)] :
          messages[trimPkg(path)][k].type \in DOMAIN scalarToCapnp

\* Does flatten return without an error?
Flattens(path) ==
    /\ trimPkg(path) \in DOMAIN messages
    /\ \A k \in DOMAIN messages[trimPkg(path)] :
          Supported(messages[trimPkg(path)][k])

AsParam(f) == [name |-> Camel[f.name], type |-> scalarToCapnp[f.type]]

flatten(path) ==
    LET fields == messages[trimPkg(path)]
    IN  [k \in DOMAIN fields |-> AsParam(fields[k])]

\* Why the switch of ToCapnp skips m; "" if it does not.
WhySkipped(m) ==
    IF m.stream # {} THEN "streaming"
    ELSE IF ~Flattens(m.req) THEN "params"
    ELSE IF ~Flattens(m.resp) THEN "results"
    ELSE ""

-----------------------------------------------------------------------------
(* ToCapnp.                                                                  *)

Parse ==
    LET text == stripComments(file)
    IN  /\ pc = "parse"
        /\ IF Balanced(text)
           THEN /\ messages' = ParsedMessages(text)
                /\ services' = ParsedServices(text)
                /\ pc' = "check"
           ELSE pc' = "error" /\ UNCHANGED <<messages, services>>
        /\ UNCHANGED <<file, svc, meth, ord, out, skipped>>

\* The first go_package option counts; a service is required after it.
GoPackageSet ==
    LET opts == SelectSeq(stripComments(file), LAMBDA x : x.d = "go_package")
    IN  opts # <<>> /\ opts[1].complete

Check ==
    /\ pc = "check"
    /\ pc' = IF GoPackageSet /\ services # <<>> THEN "interface" ELSE "error"
    /\ UNCHANGED <<file, messages, services, svc, meth, ord, out, skipped>>

MoreServices == svc <= Len(services)

\* Fault: ord is declared outside the loop over the services.
KeptOrd == ord

FirstOrd == 0

OpenInterface ==
    /\ pc = "interface" /\ MoreServices
    /\ pc' = "method" /\ meth' = 1 /\ ord' = FirstOrd
    /\ out' = Append(out, [name |-> services[svc].name, methods |-> <<>>])
    /\ UNCHANGED <<file, messages, services, svc, skipped>>

SkipMethod ==
    /\ pc = "method" /\ meth <= Len(services[svc].methods)
    /\ LET m == services[svc].methods[meth]
       IN  /\ WhySkipped(m) # ""
           /\ skipped' = Append(skipped, [svc |-> svc, name |-> m.name,
                                          why |-> WhySkipped(m)])
    /\ meth' = meth + 1
    /\ UNCHANGED <<file, pc, messages, services, svc, ord, out>>

EmitMethod ==
    /\ pc = "method" /\ meth <= Len(services[svc].methods)
    /\ LET m == services[svc].methods[meth]
       IN  /\ WhySkipped(m) = ""
           /\ out' = [out EXCEPT ![svc].methods = Append(@,
                 [name |-> LowerFirst[m.name], ord |-> ord,
                  params |-> flatten(m.req), results |-> flatten(m.resp)])]
    /\ ord' = ord + 1
    /\ meth' = meth + 1
    /\ UNCHANGED <<file, pc, messages, services, svc, skipped>>

CloseInterface ==
    /\ pc = "method" /\ meth > Len(services[svc].methods)
    /\ pc' = "interface" /\ svc' = svc + 1
    /\ UNCHANGED <<file, messages, services, meth, ord, out, skipped>>

Return ==
    /\ pc = "interface" /\ ~MoreServices
    /\ pc' = "done"
    /\ UNCHANGED <<file, messages, services, svc, meth, ord, out, skipped>>

Next == \/ Parse \/ Check
        \/ OpenInterface \/ SkipMethod \/ EmitMethod \/ CloseInterface
        \/ Return

Spec == Init /\ [][Next]_vars

-----------------------------------------------------------------------------
(* What a file means to protobuf.                                            *)

Text == WithoutComments(file, {"begin"})

\* Does the block that opens at i contain j?
Covers(text, i, j) ==
    text[i].d = "open" /\ i < j /\ j < Min(Closings(text, i))

\* The name of a message, qualified by the messages it is nested in.
FullName(text, i) ==
    LET Encloses(k) == IsBlock(text, k, {"message"})
                         /\ (k = i \/ Covers(text, k, i))
        names == SelectAt(text, Encloses)
    IN  [k \in DOMAIN names |-> names[k].name]

MessagesAt(path) ==
    LET text == Text
    IN  {i \in DOMAIN text : /\ IsBlock(text, i, {"message"})
                             /\ text[i].name = Last(path)
                             /\ FullName(text, i) = path}

\* The members of the message at i: its fields and those of its oneofs.
Members(i) ==
    LET text == Text
        Blocks(j) == {k \in DOMAIN text : Covers(text, k, j)
                        /\ ~IsBlock(text, k, {"oneof"})}
    IN  SelectAt(text, LAMBDA j : /\ text[j].d \in {"field", "map"}
                                  /\ Covers(text, i, j)
                                  /\ i = Max(Blocks(j)))

\* May the message of a path be flattened, and is the result this?
Declared(path) == {Members(i) : i \in MessagesAt(path)}
Translatable(path) ==
    \E ms \in Declared(path) :
       \A k \in DOMAIN ms : ms[k].d = "field" /\ Supported(ms[k])
Says(params, path) ==
    \E ms \in Declared(path) :
       /\ DOMAIN params = DOMAIN ms
       /\ \A k \in DOMAIN ms : ms[k].d = "field" /\ Supported(ms[k])
                                 /\ params[k] = AsParam(ms[k])

-----------------------------------------------------------------------------
(* Properties.                                                               *)

\* The methods of service s that the loops are done with.
Handled(s) ==
    IF s < svc \/ pc = "done" THEN services[s].methods
    ELSE IF s = svc /\ pc = "method" THEN SubSeq(services[s].methods, 1, meth - 1)
    ELSE <<>>

SkippedIn(s, m) ==
    \E k \in DOMAIN skipped : skipped[k].svc = s /\ skipped[k].name = m.name

\* However skipped methods and services alternate, every method handled so
\* far is either in the skipped list or in the interface of its service, the
\* interface keeps their order, and it numbers its methods 0, 1, 2, ...
\* without a gap, as Cap'n Proto requires (ord of ToCapnp).
MethodsNumbered ==
    \A s \in DOMAIN out :
       LET emitted == SelectAt(Handled(s), LAMBDA k : ~SkippedIn(s, Handled(s)[k]))
       IN  /\ DOMAIN out[s].methods = DOMAIN emitted
           /\ \A k \in DOMAIN emitted :
                 /\ out[s].methods[k].name = LowerFirst[emitted[k].name]
                 /\ out[s].methods[k].ord = k - 1

\* Is the message of this path one the parser reads as protobuf does: found
\* under its path, the only one of its last name, and with nothing but
\* singular and repeated fields in its body?
PlainMessage(path) ==
    LET text == Text
    IN  \E i \in MessagesAt(path) :
           /\ \A j \in DOMAIN text : IsBlock(text, j, {"message"})
                                      /\ text[j].name = Last(path) => j = i
           /\ \A j \in (i + 1)..(Min(Closings(text, i)) - 1) :
                 /\ text[j].d = "field"
                 /\ text[j].label # "optional"
                 /\ ~SaysOneof(text[j])

\* Whatever else the file holds, when ToCapnp returns, a method between two
\* plain messages has, in the interface, exactly the fields they declare; and
\* it is skipped exactly when it streams or one of the messages has a field
\* that cannot be translated.
PlainMethodsExact ==
    pc = "done" /\ Text = stripComments(file) =>
    \A s \in DOMAIN out : \A k \in DOMAIN services[s].methods :
       LET m == services[s].methods[k]
       IN  PlainMessage(m.req) /\ PlainMessage(m.resp) =>
             /\ SkippedIn(s, m) <=> \/ m.stream # {}
                                    \/ ~Translatable(m.req)
                                    \/ ~Translatable(m.resp)
             /\ ~SkippedIn(s, m) =>
                  \E e \in Range(out[s].methods) : /\ e.name = LowerFirst[m.name]
                                           /\ Says(e.params, m.req)
                                           /\ Says(e.results, m.resp)

\* The emitted methods of service s whose messages are as Test requires.
EmittedPass(Test(_, _)) ==
    \A s \in DOMAIN out : \A k \in DOMAIN Handled(s) :
       LET m == Handled(s)[k]
       IN  \A e \in Range(out[s].methods) :
              e.name = LowerFirst[m.name] /\ ~SkippedIn(s, m) =>
                Test(e.params, m.req) /\ Test(e.results, m.resp)

\* The package comment, lines 7 and 8: repeated, map, oneof, enum and nested
\* message fields "cause the affected method to be skipped". The code drops
\* map fields and members of a oneof, and emits the method.
UnsupportedSkipped ==
    EmittedPass(LAMBDA params, path : Translatable(path))


===============================================================================
