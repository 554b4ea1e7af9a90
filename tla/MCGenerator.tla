------------------------------ MODULE MCGenerator ------------------------------
(* Small schemas for TLC: one or two interfaces with up to two methods, in     *)
(* every style the parser knows or does not know, over fields of a scalar      *)
(* type, of a type with parentheses and a comma, and with a default value.     *)
EXTENDS Generator

MCWords == {"Calc", "Base", "add", "sub", "close", "message",
            "a", "b"}

\* pascal: the first letter is raised.
MCPascal == [w \in MCWords |-> CASE w = "add" -> "Add" [] w = "sub" -> "Sub"
                                 [] w = "close" -> "Close" [] w = "a" -> "A"
                                 [] w = "b" -> "B" [] w = "message" -> "Message"
                                 [] OTHER -> w]

MCOrdinals == <<"@0", "@1">>

Fld(name, type) == [name |-> name, type |-> type]
Word     == Fld("a", <<"Text">>)
Number   == Fld("b", <<"Int64">>)
Generic  == Fld("b", <<"Map", "(", "Text", ",", "Text", ")">>)
Default  == Fld("a", <<"Int64", "=", "5">>)
Message  == Fld("message", <<"Data">>)
Groups == {<<>>, <<Word>>, <<Message>>, <<Word, Number>>, <<Generic, Word>>,
           <<Default>>}

Styles == {"plain", "trailing", "noted", "commented", "noResults", "struct",
           "nested"}

Method(name, params, results, style) ==
    [name |-> name, params |-> params, results |-> results, style |-> style]

Firsts  == {Method("add", p, r, s) : p \in Groups, r \in Groups, s \in Styles}
Seconds == {Method("sub", p, <<Number>>, s) : p \in {<<Word>>, <<Generic>>},
                                           s \in {"plain", "noResults", "noted"}}
             \cup {Method("close", <<Word>>, <<Number>>, "plain")}

Interface(name, extends, methods) ==
    [name |-> name, extends |-> extends, methods |-> methods]
Schema(package, interfaces) == [package |-> package, interfaces |-> interfaces]

Add == Method("add", <<Word>>, <<Number>>, "plain")

AllSchemas ==
    {Schema("calc", <<Interface("Calc", "", <<m>>)>>) : m \in Firsts}
      \cup {Schema("calc", <<Interface("Calc", "", <<m, n>>)>>) :
               m \in Firsts, n \in Seconds}
      \cup {Schema("calc", <<Interface("Base", "", <<Add>>),
                             Interface("Calc", e, <<m>>)>>) :
               e \in {"", "Base"}, m \in Firsts \cup Seconds}
      \cup {Schema("calc", <<>>), Schema("", <<Interface("Calc", "", <<Add>>)>>),
            Schema("calc", <<Interface("Calc", "", <<>>)>>)}

===============================================================================
