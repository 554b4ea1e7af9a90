----------------------------- MODULE MCProtoBuilds -----------------------------
(* The files of MCProtoConv, one with a field of every scalar type, and a few  *)
(* that one edit turns into one another: a field or an rpc is inserted before, *)
(* moved or renamed, or becomes something that is skipped, or a comment is     *)
(* written.                                                                    *)
EXTENDS ProtoBuilds, MCProtoConv

EveryScalar ==
    LET body == FoldSet(LAMBDA t, decls : Append(decls, Fld("", t, "a")), <<>>,
                        DOMAIN scalarToCapnp)
    IN  Option(TRUE) \o Service("Svc", <<Add>>) \o Message("Req", body)
          \o Message("Resp", <<FooBar>>)

Sub == Call("Sub", <<"Resp">>, <<"Req">>, {})

OneService(rpcs, body) ==
    Option(TRUE) \o Service("Svc", rpcs) \o Message("Req", body)
      \o Message("Resp", <<A>>)

MCEdits ==
    {OneService(rpcs, body) :
        rpcs \in {<<Add>>, <<Add, Sub>>, <<Sub, Add>>},
        body \in {<<A>>, <<A, FooBar>>, <<FooBar, A>>, <<Note("line"), A>>,
                  <<Fld("repeated", "int64", "a")>>}}

BuildFiles == AllFiles \cup {EveryScalar} \cup MCEdits

MCOrdinals == <<"@0", "@1", "@2", "@3">>

MCExported ==
    [w \in OutWords |-> CASE w = "add" -> "Add" [] w = "sub" -> "Sub"
                          [] w = "a" -> "A" [] w = "fooBar" -> "FooBar"
                          [] OTHER -> w]

=============================================================================
