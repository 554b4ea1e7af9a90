------------------------------- MODULE Generator -------------------------------
(***************************************************************************)
(* The generator (internal/generator): Generate parses the text of a       *)
(* .capnp schema and executes a template that writes the Go wrapper.       *)
(*                                                                         *)
(* A text is a sequence of words and punctuation; "nl" ends a line. What   *)
(* is read of it follows parser.go, which cuts at separators outside       *)
(* parentheses. Of the Go code written, the declarations and the use of    *)
(* local variables are kept: what decides whether it compiles.             *)
(***************************************************************************)
EXTENDS Integers, Sequences, FiniteSets, SequencesExt

CONSTANTS
    Schemas,   \* the schemas that may be given to Generate
    Words,     \* names of interfaces, methods, fields and structs
    Pascal,    \* of each word, its exported Go form
    Ordinals   \* "@0", "@1" and so on, as far as the schemas go

\* Fault: the list lacks the unsigned types.
SignedTypes == {"Text", "Data", "Bool", "Int8", "Int16", "Int32", "Int64",
                "Float32", "Float64"}

scalarTypes == {"Text", "Data", "Bool", "Int8", "Int16", "Int32", "Int64",
                "UInt8", "UInt16", "UInt32", "UInt64", "Float32", "Float64"}

\* GetterErr and SetterErr: those whose accessors may fail.
Fallible == {"Text", "Data"}

reservedAccessors == {"Message", "Segment", "String", "ToPtr", "IsValid",
                      "EncodeAsPtr", "DecodeFromPtr"}

-----------------------------------------------------------------------------
(* Schemas, and how they are written.                                        *)
(*                                                                           *)
(* A schema has a Go package ("" if the annotation is missing) and a         *)
(* sequence of interfaces. An interface says what it extends, if anything,   *)
(* and has methods. The style of a method is "plain"; "trailing", with a     *)
(* comma after the last field; "noted", with an annotation at the end;       *)
(* "commented", below a comment full of punctuation; "noResults", "struct",  *)
(* with a struct as parameters; or "nested", below a struct declaration.     *)

Separated(seqs, trailing) ==
    FlattenSeq([k \in DOMAIN seqs |->
        seqs[k] \o (IF k < Len(seqs) \/ trailing THEN <<",">> ELSE <<>>)])

Group(fields, m) ==
    <<"(">> \o Separated([k \in DOMAIN fields |->
                             <<fields[k].name, ":">> \o fields[k].type],
                         m.style = "trailing" /\ fields # <<>>)
      \o <<")">>

Written(m, k) ==
    (CASE m.style = "commented" -> <<"#", "(", ";", "interface", "a", "{", "nl">>
       [] m.style = "nested" ->
            <<"struct", "P", "{", "a", "@0", ":", "Text", ";", "}">>
       [] OTHER -> <<>>)
      \o <<m.name, Ordinals[k]>>
      \o (IF m.style = "struct" THEN <<"P">> ELSE Group(m.params, m))
      \o (IF m.style = "noResults" THEN <<>>
          ELSE <<"->">> \o Group(m.results, m))
      \o (IF m.style = "noted" THEN <<"$", "(", "x", ")">> ELSE <<>>)
      \o <<";">>

Source(s) ==
    (IF s.package = "" THEN <<>> ELSE <<"$Go.package", s.package, ";", "nl">>)
      \o FlattenSeq([i \in DOMAIN s.interfaces |->
            LET in == s.interfaces[i]
            IN  <<"interface", in.name>>
                  \o (IF in.extends = "" THEN <<>>
                      ELSE <<"extends", "(", in.extends, ")">>)
                  \o <<"{", "nl">>
                  \o FlattenSeq([k \in DOMAIN in.methods |->
                                    Written(in.methods[k], k)])
                  \o <<"}", "nl">>])

FieldDecl     == [name: Words, type: Seq(STRING)]
MethodDecl    == [name: Words, params: Seq(FieldDecl),
                  results: Seq(FieldDecl), style: STRING]
InterfaceDecl == [name: Words, extends: Words \cup {""},
                  methods: Seq(MethodDecl)]

ASSUME GeneratorAssumption ==
    /\ Words \subseteq STRING
    /\ Pascal \in [Words -> STRING]
    /\ Ordinals \in Seq(STRING)
    /\ Schemas \subseteq [package: STRING, interfaces: Seq(InterfaceDecl)]
    /\ \A s \in Schemas : \A i \in DOMAIN s.interfaces :
          Len(s.interfaces[i].methods) <= Len(Ordinals)

VARIABLES
    schema,   \* what the text given to Generate says
    pc,       \* where Generate is
    ifaces,   \* s.Interfaces: what parse has read
    model,    \* model.Interfaces: what the template is given
    skipped   \* the methods reported as skipped

vars == <<schema, pc, ifaces, model, skipped>>

-----------------------------------------------------------------------------
(* Parsing.                                                                  *)

\* The step that takes the word w: inside a comment or not, left is not cut.
Eat(acc, w) ==
    CASE w = "nl" -> [acc EXCEPT !.inside = FALSE]
      [] w = "#" -> [acc EXCEPT !.inside = TRUE]
      [] OTHER -> IF acc.inside THEN acc
                  ELSE [acc EXCEPT !.left = Append(@, w)]

stripComments(src) ==
    FoldLeft(Eat, [inside |-> FALSE, left |-> <<>>], src).left

Depth(s, i, j, open, close) ==
    Cardinality({k \in i..j : s[k] = open})
      - Cardinality({k \in i..j : s[k] = close})

\* What the texts of a schema are cut at.
Punctuation == {"(", ")", "{", "}", ",", ":", ";", "#", "->", "nl"}

\* Names, ordinals and packages are words, not punctuation.
PlainNames ==
    /\ Words \cap Punctuation = {} /\ Range(Ordinals) \cap Punctuation = {}
    /\ \A s \in Schemas : s.package \notin Punctuation

\* A type, with the value after it if there is one, closes the parentheses it
\* opens and none before; it has commas inside them only, and neither braces nor
\* a comment.
WellTyped(t) ==
    /\ \A k \in DOMAIN t : /\ t[k] \notin {"{", "}", "#", "nl"}
                           /\ Depth(t, 1, k, "(", ")") >= 0
                           /\ t[k] = "," => Depth(t, 1, k, "(", ")") > 0
    /\ Depth(t, 1, Len(t), "(", ")") = 0

\* So are the types of a schema.
WellWritten(s) ==
    \A in \in Range(s.interfaces) : \A m \in Range(in.methods) :
        \A f \in Range(m.params) \cup Range(m.results) : WellTyped(f.type)

\* What the texts of the schemas may hold. The schema language allows more: a list
\* or a text as the default of a parameter, [1, 2], "a, b", ")" or "#", which the
\* parser cuts at the comma, misreads or rejects. Such schemas are left out.
ASSUME WritingAssumption == PlainNames /\ \A s \in Schemas : WellWritten(s)

Closings(s, i, open, close) ==
    {j \in i..Len(s) : Depth(s, i, j, open, close) = 0}

balancedBody(s, i) == SubSeq(s, i + 1, Min(Closings(s, i, "{", "}")) - 1)

\* What a group begins with, up to its closing parenthesis, and what follows.
IsGroup(s) == s # <<>> /\ s[1] = "(" /\ Closings(s, 1, "(", ")") # {}
GroupInner(s) == SubSeq(s, 2, Min(Closings(s, 1, "(", ")")) - 1)
GroupRest(s) == SubSeq(s, Min(Closings(s, 1, "(", ")")) + 1, Len(s))

\* The step of a cut at sep that takes the word w: parts are complete, part is
\* not yet, depth counts open parentheses.
\* Fault: separators inside parentheses cut too.
CutAnywhere(acc, w, sep) ==
    IF w = sep
    THEN [acc EXCEPT !.parts = Append(@, acc.part), !.part = <<>>]
    ELSE [acc EXCEPT !.part = Append(@, w)]

CutAtTopLevel(acc, w, sep) ==
    IF w = sep /\ acc.depth = 0
    THEN [acc EXCEPT !.parts = Append(@, acc.part), !.part = <<>>]
    ELSE [acc EXCEPT !.part = Append(@, w),
                     !.depth = @ + (CASE w = "(" -> 1 [] w = ")" -> -1
                                      [] OTHER -> 0)]

splitTopLevel(s, sep) ==
    LET end == FoldLeft(LAMBDA acc, w : CutAtTopLevel(acc, w, sep),
                        [depth |-> 0, parts |-> <<>>, part |-> <<>>], s)
    IN  Append(end.parts, end.part)

\* The elements of s at the indices that pass Test, in order.
SelectAt(s, Test(_)) ==
    FlattenSeq([i \in DOMAIN s |-> IF Test(i) THEN <<s[i]>> ELSE <<>>])

NonEmpty(parts) == SelectAt(parts, LAMBDA k : parts[k] # <<>>)

FieldsOK(group) ==
    \A p \in Range(NonEmpty(splitTopLevel(group, ","))) : Contains(p, ":")

\* Where w stands first in s, or 0.
First(s, w) == SelectInSeq(s, LAMBDA x : x = w)

Colon(p) == First(p, ":")

\* Fault: the colon is taken into the name.
NameAndColon(p) == SubSeq(p, 1, Colon(p))

FieldName(p) == SubSeq(p, 1, Colon(p) - 1)

parseFields(group) ==
    LET parts == NonEmpty(splitTopLevel(group, ","))
    IN  [k \in DOMAIN parts |->
            [name |-> FieldName(parts[k]),
             type |-> SubSeq(parts[k], Colon(parts[k]) + 1, Len(parts[k]))]]

supported(type) == Len(type) = 1 /\ type[1] \in scalarTypes

unsupportedReason(params, results) ==
    \E f \in Range(params \o results) : ~supported(f.type)

\* A statement up to its first parenthesis, the rest of it, and what follows
\* its parameters and its arrow.
Header(stmt)   == SubSeq(stmt, 1, First(stmt, "(") - 1)
Params(stmt) == SubSeq(stmt, Len(Header(stmt)) + 1, Len(stmt))
Results(stmt) ==
    LET rest == GroupRest(Params(stmt))
    IN  SubSeq(rest, First(rest, "->") + 1, Len(rest))

IsMethod(stmt) ==
    /\ Contains(stmt, "(")
    /\ Len(Header(stmt)) = 2
    /\ Header(stmt)[1] \in Words /\ Header(stmt)[2] \in Range(Ordinals)
    /\ IsGroup(Params(stmt)) /\ Contains(GroupRest(Params(stmt)), "->")
    /\ IsGroup(Results(stmt))
    /\ FieldsOK(GroupInner(Params(stmt))) /\ FieldsOK(GroupInner(Results(stmt)))

AsMethod(stmt) ==
    LET params  == parseFields(GroupInner(Params(stmt)))
        results == parseFields(GroupInner(Results(stmt)))
    IN  [name |-> stmt[1], params |-> params, results |-> results,
         unsupported |-> unsupportedReason(params, results)]

\* Where ifaceRe matches: nothing stands between the name and the brace.
InterfacesOf(src) ==
    SelectAt([i \in DOMAIN src |-> i],
             LAMBDA i : /\ i + 2 <= Len(src)
                        /\ src[i] = "interface" /\ src[i + 1] \in Words
                        /\ src[i + 2] = "{")

Statements(src, i) == NonEmpty(splitTopLevel(balancedBody(src, i + 2), ";"))

\* parse returns an error at the first thing it does not know in any interface,
\* or when there is no interface at all.
Parse ==
    LET src == stripComments(Source(schema))
        at  == InterfacesOf(src)
        Known(i) == /\ Closings(src, i + 2, "{", "}") # {}
                    /\ \A stmt \in Range(Statements(src, i)) : IsMethod(stmt)
        Read(i) == LET stmts == Statements(src, i)
                   IN  [name |-> src[i + 1],
                        methods |-> [k \in DOMAIN stmts |-> AsMethod(stmts[k])]]
    IN  /\ pc = "parse"
        /\ IF at # <<>> /\ \A i \in Range(at) : Known(i)
           THEN /\ ifaces' = [k \in DOMAIN at |-> Read(at[k])]
                /\ pc' = "build"
           ELSE pc' = "error" /\ UNCHANGED ifaces
        /\ UNCHANGED <<schema, model, skipped>>

-----------------------------------------------------------------------------
(* Building the template's model.                                            *)

\* The interface of the outer loop, how many of its methods have been handled,
\* and are they all?
Current == Len(model)
Handled == Len(model[Current].methods)
             + Cardinality({k \in DOMAIN skipped : skipped[k][1] = Current})
Finished == Current > 0 => Handled = Len(ifaces[Current].methods)

BuildInterface ==
    /\ pc = "build" /\ Finished /\ Current < Len(ifaces)
    /\ model' = Append(model, [name |-> ifaces[Current + 1].name,
                               all |-> <<>>, methods |-> <<>>])
    /\ UNCHANGED <<schema, pc, ifaces, skipped>>

\* Fault: the adapter gets the supported methods only.
AppendSupported(all, m) == IF m.unsupported THEN all ELSE Append(all, m)

AppendToAll(all, m) == Append(all, m)

BuildMethod ==
    /\ pc = "build" /\ ~Finished
    /\ LET m == ifaces[Current].methods[Handled + 1]
       IN  /\ model' = [model EXCEPT
                 ![Current].all = AppendToAll(@, m),
                 ![Current].methods = IF m.unsupported THEN @ ELSE Append(@, m)]
           /\ skipped' = IF m.unsupported
                         THEN Append(skipped, <<Current, m.name>>)
                         ELSE skipped
    /\ UNCHANGED <<schema, pc, ifaces>>

\* The template is executed and formatted; a file without a package is no Go.
Execute ==
    /\ pc = "build" /\ Finished /\ Current = Len(ifaces)
    /\ pc' = IF schema.package # "" THEN "done" ELSE "error"
    /\ UNCHANGED <<schema, ifaces, model, skipped>>

Init ==
    /\ schema \in Schemas
    /\ pc = "parse"
    /\ ifaces = <<>>
    /\ model = <<>>
    /\ skipped = <<>>

Next == Parse \/ BuildInterface \/ BuildMethod \/ Execute

Spec == Init /\ [][Next]_vars

-----------------------------------------------------------------------------
(* The Go code: of each function the template writes, what its statements    *)
(* declare and use; and the names the file declares.                         *)

Stmt(declares, uses) == [declares |-> declares, uses |-> uses, calls |-> {}]
Arg(f) == <<"arg", f.name>>
Ret(f) == <<"ret", f.name>>

\* Fault: a field gets the accessor of its name, whatever it is.
PlainAccessor(f) == <<Pascal[f.name[1]]>>

accessor(f) ==
    LET name == Pascal[f.name[1]]
    IN  IF name \in reservedAccessors THEN <<name, "_">> ELSE <<name>>

\* A call of the getter or the setter of a field, as one that may fail or not.
Calling(kind, f, stmt) ==
    [stmt EXCEPT !.calls = {<<kind, accessor(f), f.type[1] \in Fallible>>}]

Args == <<Stmt({<<"args">>}, {})>>
Handle(m) ==
    [k \in DOMAIN m.params |->
        Calling("get", m.params[k], Stmt({Arg(m.params[k])}, {<<"args">>}))]
      \o <<Stmt({<<"resp">>}, {Arg(f) : f \in Range(m.params)}),
           Stmt({<<"results">>}, {})>>
      \o [k \in DOMAIN m.results |->
            Calling("set", m.results[k], Stmt({}, {<<"results">>, <<"resp">>}))]

\* Fault: call.Args() stands above the test of Unsupported.
HoistedAdapterBody(m) == Args \o IF m.unsupported THEN <<>> ELSE Handle(m)

AdapterBody(m) == IF m.unsupported THEN <<>> ELSE Args \o Handle(m)

ClientBody(m) ==
    [k \in DOMAIN m.params |-> Calling("set", m.params[k], Stmt({}, {}))]
      \o <<Stmt({<<"res">>}, {})>>
      \o [k \in DOMAIN m.results |->
            Calling("get", m.results[k], Stmt({Ret(m.results[k])}, {<<"res">>}))]
      \o <<Stmt({}, {Ret(f) : f \in Range(m.results)})>>

\* The methods of every struct of the bindings; a field that would hide one has
\* an accessor with an underscore. Those of pointers return an error, too.
StructMethods == {"String", "EncodeAsPtr", "DecodeFromPtr", "ToPtr", "IsValid",
                  "Message", "Segment"}

BindingOf(kind, f) ==
    LET name == Pascal[f.name[1]]
    IN  <<kind, IF name \in StructMethods THEN <<name, "_">> ELSE <<name>>,
          f.type \in {<<"Text">>, <<"Data">>}>>

BindingsOf(m) ==
    {BindingOf(kind, f) : kind \in {"get", "set"}, f \in Range(m.params \o m.results)}

AllBound(body, m) ==
    UNION {st.calls : st \in Range(body)} \subseteq BindingsOf(m)

\* Go rejects a function with a variable that is declared and not used.
AllUsed(body) ==
    UNION {st.declares : st \in Range(body)}
      \subseteq UNION {st.uses : st \in Range(body)}

ClientMethods(in) ==
    [k \in DOMAIN in.methods |-> Pascal[in.methods[k].name]] \o <<"Close">>

TopLevel(in) ==
    <<<<in.name, "Server">>, <<in.name, "Client">>>>
      \o FlattenSeq([k \in DOMAIN in.methods |->
            LET name == Pascal[in.methods[k].name]
            IN  <<<<name, "Request">>, <<name, "Response">>>>])

Compiles ==
    /\ IsInjective(FlattenSeq([i \in DOMAIN model |-> TopLevel(model[i])]))
    /\ \A in \in Range(model) :
          /\ IsInjective(ClientMethods(in))
          /\ \A m \in Range(in.all) : AllUsed(AdapterBody(m))
                                        /\ AllBound(AdapterBody(m), m)
          /\ \A m \in Range(in.methods) : AllUsed(ClientBody(m))
                                            /\ AllBound(ClientBody(m), m)

-----------------------------------------------------------------------------
(* Properties.                                                               *)

ParsedField  == [name: Seq(Words), type: Seq(STRING)]
ParsedMethod == [name: Words, params: Seq(ParsedField),
                 results: Seq(ParsedField), unsupported: BOOLEAN]

\* Types; names are words without the punctuation around them.
TypeOK ==
    /\ pc \in {"parse", "build", "done", "error"}
    /\ ifaces \in Seq([name: Words, methods: Seq(ParsedMethod)])
    /\ model \in Seq([name: Words, all: Seq(ParsedMethod),
                      methods: Seq(ParsedMethod)])
    /\ skipped \in Seq(Nat \X Words)

\* The interfaces of the schema that the generator finds: those that extend
\* nothing.
Found == SelectAt(schema.interfaces,
                  LAMBDA i : schema.interfaces[i].extends = "")

FieldsAre(parsed, fields) ==
    /\ DOMAIN parsed = DOMAIN fields
    /\ \A k \in DOMAIN fields : /\ parsed[k].name = <<fields[k].name>>
                                 /\ parsed[k].type = fields[k].type

\* Commas and semicolons inside parentheses, braces, comments and annotations
\* never make the parser read another schema than the one written: it reads
\* the interfaces it finds with all their methods and fields, or, when one has
\* something it does not know, fails and leaves nothing (parse, parseMethods).
ParsedAsWritten ==
    /\ pc \in {"build", "done"} => Len(ifaces) = Len(Found)
    /\ \A i \in DOMAIN ifaces :
          /\ ifaces[i].name = Found[i].name
          /\ DOMAIN ifaces[i].methods = DOMAIN Found[i].methods
          /\ \A k \in DOMAIN ifaces[i].methods :
                LET m == ifaces[i].methods[k] w == Found[i].methods[k]
                IN  /\ m.name = w.name
                    /\ FieldsAre(m.params, w.params)
                    /\ FieldsAre(m.results, w.results)
    /\ pc = "error" => \/ Found = <<>> \/ schema.package = ""
                       \/ \E in \in Range(Found) : \E m \in Range(in.methods) :
                             m.style \in {"noResults", "struct", "nested"}

\* parser.go, lines 24 to 26: an unsupported method still gets a stub, so that
\* the adapter satisfies the interface of the bindings. The adapter has every
\* method of the schema in order; the client has those that are not skipped,
\* and a method is skipped exactly for a type outside scalarTypes.
AdapterCoversInterface ==
    pc = "done" => \A i \in DOMAIN Found :
       LET methods == Found[i].methods
           Scalar(m) == \A f \in Range(m.params \o m.results) :
                           \E t \in scalarTypes : f.type = <<t>>
           NamesIn(ms) == [k \in DOMAIN ms |-> ms[k].name]
       IN  /\ NamesIn(model[i].all) = NamesIn(methods)
           /\ NamesIn(model[i].methods)
                = NamesIn(SelectAt(methods, LAMBDA k : Scalar(methods[k])))
           /\ \A k \in DOMAIN methods :
                 <<i, methods[k].name>> \in Range(skipped)
                   <=> ~Scalar(methods[k])

\* Has the client a method for every rpc, and is none of them Close?
Wrappable == \A m \in UNION {Range(in.methods) : in \in Range(model)} :
                Pascal[m.name] # "Close"

\* README.md, lines 137 to 140, for one interface: methods the wrapper does not
\* support are left to stubs "so the rest of a service still works". When no
\* method is called close and every method the client has takes and returns
\* something, the Go code declares nothing twice, uses all it declares, and calls
\* accessors that the bindings have, with the results they have.
CompilesIfNonEmpty ==
    pc = "done" /\ Len(model) = 1 /\ Wrappable
      /\ (\A m \in Range(model[1].methods) : m.params # <<>> /\ m.results # <<>>)
      => Compiles

\* The same promise for methods that take or return nothing. The template
\* writes variables for them that Go finds unused.
RestStillWorks == pc = "done" /\ Len(model) = 1 /\ Wrappable => Compiles

===============================================================================
