------------------------------ MODULE MCProtoConv ------------------------------
(* Small .proto files for TLC. A file is an optional go_package option and     *)
(* blocks in some order: services over the messages Req and Resp, the message  *)
(* Req with an enumerated body, and a fixed Resp.                              *)
EXTENDS ProtoConv

MCNames == {"Svc", "Svc2", "Add", "Sub", "Req", "Resp", "Missing", "Outer", "Kind",
            "other", "a", "foo_bar", "oneof_a"}
MCMentionsOneof == {"oneof_a", "OneofKind"}

\* camel: what each name becomes; only snake case changes.
MCCamel == [n \in MCNames |-> CASE n = "foo_bar" -> "fooBar"
                                [] n = "oneof_a" -> "oneofA"
                                [] OTHER -> n]

\* lowerFirst, likewise; it is applied to the names of rpcs.
MCLowerFirst == [n \in MCNames |-> CASE n = "Add" -> "add"
                                     [] n = "Sub" -> "sub"
                                     [] OTHER -> n]

-----------------------------------------------------------------------------
Fld(label, type, name) ==
    [d |-> "field", label |-> label, type |-> type, name |-> name]
Opens(kind, name) == [d |-> "open", kind |-> kind, name |-> name]
Closes  == [d |-> "close"]
Val     == [d |-> "value"]
A       == Fld("", "int64", "a")
FooBar  == Fld("", "string", "foo_bar")
AMap    == [d |-> "map", name |-> "a"]
Note(k) == [d |-> "remark", kind |-> k]
Call(name, req, resp, stream) ==
    [d |-> "rpc", name |-> name, req |-> req, resp |-> resp, stream |-> stream]
Option(ok) == <<[d |-> "go_package", complete |-> ok]>>

Block(kind, name, body) == <<Opens(kind, name)>> \o body \o <<Closes>>
AOneof  == Block("oneof", "Kind", <<A, FooBar>>)
AnEnum  == Block("enum", "Kind", <<Val, Val>>)
Nested(name) == Block("message", name, <<A>>)

-----------------------------------------------------------------------------
(* Declarations of a body, and bodies of up to two of them.            *)

PlainDecls == {<<A>>, <<FooBar>>, <<Fld("repeated", "int64", "a")>>,
               <<Fld("", "Kind", "a")>>}
OtherDecls == {<<Fld("optional", "int64", "a")>>, <<AMap>>, AOneof, AnEnum,
               <<Fld("", "int64", "oneof_a")>>, Nested("Kind"), Nested("Resp"),
               <<Note("line"), A, Note("lineWithOpener")>>,
               <<Note("begin"), A, Note("end")>>,
               <<Note("lineWithOpener"), A, Note("block"), FooBar, Note("newline")>>,
               <<Note("end"), A>>, <<Fld("", "OneofKind", "a")>>}

PlainBodies == {FlattenSeq(b) : b \in BoundedSeq(PlainDecls, 2)}
OtherBodies == OtherDecls \cup {p \o o : p \in PlainDecls, o \in OtherDecls}
                 \cup {o \o p : p \in PlainDecls, o \in OtherDecls}

Add == Call("Add", <<"Req">>, <<"Resp">>, {})
Subs == {Call("Sub", <<"Resp">>, <<"Req">>, {}),
         Call("Sub", <<"Resp">>, <<"Resp">>, {"response"}),
         Call("Sub", <<"Outer", "Missing">>, <<"Resp">>, {}),
         Call("Sub", <<"other", "Req">>, <<"Resp">>, {})}
Methods == {<<Add>>} \cup {<<s, Add>> : s \in Subs} \cup {<<Add, s>> : s \in Subs}

Service(name, rpcs) == Block("service", name, rpcs)
Message(name, body) == Block("message", name, body)

\* Two services, one before and one after the messages.
TwoServices(bodies) ==
    {Option(TRUE) \o Service("Svc", m) \o Message("Req", b) \o Message("Resp", <<A>>)
       \o Service("Svc2", <<Add>>) : m \in Methods, b \in bodies}

\* Files without a service, a usable option, or a last brace.
Wrong == {Option(FALSE) \o Service("Svc", <<Add>>), Service("Svc", <<Add>>), Option(TRUE),
          Option(TRUE) \o <<Opens("service", "Svc"), Add>>}

\* A message nested in Outer has the name of one at package level.
Shadowed == Option(TRUE) \o Service("Svc", <<Add>>) \o Message("Req", <<A>>)
              \o Message("Resp", <<>>)
              \o Message("Outer", Message("Req", <<FooBar>>))

AllFiles == Wrong \cup TwoServices(PlainBodies \cup OtherBodies) \cup {Shadowed}

DocFiles == TwoServices({<<A>>, AnEnum \o <<A>>, <<AMap>>, AOneof,
                         <<Fld("repeated", "int64", "a")>>})

===============================================================================
