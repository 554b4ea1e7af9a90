----------------------------- MODULE ProtoBuilds -----------------------------
(***************************************************************************)
(* From a .proto to its wrapper, again and again: capwrap-gen translates   *)
(* the file (ProtoConv), generates the wrapper from the translation        *)
(* (Generator), the result is deployed, and the developer edits the file   *)
(* and builds again while clients of the earlier builds are still around.  *)
(***************************************************************************)
EXTENDS ProtoConv

CONSTANTS
    Edits,     \* the texts a developer turns into one another
    MaxBuilds, \* bound: how many builds are deployed
    Exported,  \* of each word of a .capnp, its exported Go form
    Ordinals   \* the ordinals of methods, as far as the services go

VARIABLES
    schema, gpc, ifaces, model, gskipped,  \* Generator; gpc may be "idle"
    builds                                 \* what has been deployed

genVars == <<schema, gpc, ifaces, model, gskipped>>
buildVars == <<vars, genVars, builds>>

\* The words of a .capnp that ToCapnp writes.
OutWords == Names \cup Range(Camel) \cup Range(LowerFirst)

\* What it writes, as schemas of Generator: interfaces that extend nothing, with
\* plain methods, whose fields are scalars, and no more than there are ordinals.
CapnpField     == [name: OutWords, type: {<<t>> : t \in Range(scalarToCapnp)}]
CapnpMethod    == [name: OutWords, params: Seq(CapnpField),
                   results: Seq(CapnpField), style: {"plain"}]
CapnpInterface == {in \in [name: OutWords, extends: {""},
                            methods: Seq(CapnpMethod)] :
                      Len(in.methods) <= Len(Ordinals)}
CapnpSchema    == [package: {"pkg"}, interfaces: Seq(CapnpInterface)]

\* Generate, with what is proved of it.
Gen == INSTANCE GeneratorProofs WITH
    Schemas <- CapnpSchema, Words <- OutWords, Pascal <- Exported,
    pc <- gpc, skipped <- gskipped

ASSUME BuildsAssumption ==
    /\ Edits \subseteq Files /\ MaxBuilds \in Nat
    /\ Exported \in [OutWords -> STRING]
    /\ Ordinals \in Seq(STRING)
    \* true of all that is written in quotes, which the provers do not know
    /\ Range(scalarToCapnp) \cup {"pkg", "plain"} \subseteq STRING
    /\ (OutWords \cup Range(Ordinals)) \cap Gen!Punctuation = {}
    /\ \A f \in Files :
          LET text == stripComments(f)
          IN  Balanced(text) => \A service \in Range(ParsedServices(text)) :
                 Len(service.methods) <= Len(Ordinals)

BuildsTypeOK ==
    /\ TypeOK
    /\ IF gpc = "idle" THEN ifaces = <<>> ELSE Gen!TypeOK
    /\ Cardinality(builds) <= MaxBuilds

BuildsInit ==
    /\ Init
    /\ schema = <<>>
    /\ gpc = "idle"
    /\ ifaces = <<>>
    /\ model = <<>>
    /\ gskipped = <<>>
    /\ builds = {}

-----------------------------------------------------------------------------
(* The text ToCapnp returns, as a schema of Generator; and its ID.           *)

\* A parameter list is written as "name :Type", separated by commas.
Typed(params) ==
    [k \in DOMAIN params |-> [name |-> params[k].name,
                              type |-> <<params[k].type>>]]

\* A line for each method, and a package, which a service is refused without.
Capnp ==
    [package |-> "pkg",
     interfaces |-> [s \in DOMAIN out |->
        [name |-> out[s].name, extends |-> "",
         methods |-> [k \in DOMAIN out[s].methods |->
            LET m == out[s].methods[k]
            IN  [name |-> m.name, params |-> Typed(m.params),
                 results |-> Typed(m.results), style |-> "plain"]]]]]

\* Fault: the ID is derived from what the services are called.
NameID(text) ==
    {text[i].name : i \in {j \in DOMAIN text : IsBlock(text, j, {"service"})}}

\* A hash of the whole text, comments included; taken to have no collisions.
fileID(text) == text

-----------------------------------------------------------------------------
(* The command, and the developer.                                           *)

Translate == Next /\ UNCHANGED <<genVars, builds>>

\* run reads the .capnp translateProto has written and calls Generate.
HandOver ==
    /\ pc = "done" /\ gpc = "idle"
    /\ schema' = Capnp
    /\ gpc' = "parse"
    /\ UNCHANGED <<vars, ifaces, model, gskipped, builds>>

Generate == gpc # "idle" /\ Gen!Next /\ UNCHANGED <<vars, builds>>

\* A client or server built now knows its interfaces by the ID of the file and
\* their names, and their methods by their ordinals.
Build ==
    {[id |-> <<fileID(file), in.name>>, methods |-> in.methods] :
        in \in Range(out)}

\* The build is deployed, the file is edited, and the command starts again.
DeployAndEdit(text) ==
    /\ gpc = "done" /\ file \in Edits
    /\ Cardinality(builds) < MaxBuilds
    /\ builds' = builds \cup {Build}
    /\ file' = text /\ pc' = "parse"
    /\ messages' = <<>> /\ services' = <<>> /\ out' = <<>> /\ skipped' = <<>>
    /\ svc' = 1 /\ meth' = 1 /\ ord' = 0
    /\ schema' = <<>> /\ gpc' = "idle"
    /\ ifaces' = <<>> /\ model' = <<>> /\ gskipped' = <<>>

BuildsNext ==
    \/ Translate \/ HandOver \/ Generate
    \/ \E text \in Edits : DeployAndEdit(text)

BuildsSpec == BuildsInit /\ [][BuildsNext]_buildVars

-----------------------------------------------------------------------------
(* Properties.                                                               *)

\* What a method of the wrapper takes or returns, as ProtoConv writes it.
Untyped(fields) ==
    [k \in DOMAIN fields |-> [name |-> fields[k].name[1],
                              type |-> fields[k].type[1]]]

\* The two parsers fit: Generate accepts all that ToCapnp writes and supports
\* each method and type of it, so that an rpc is either named in the skipped
\* list or a method of the typed client; and, between plain messages, one with
\* exactly the fields the .proto declares (main.go:42-62).
RpcsReachClient ==
    /\ gpc # "error"
    /\ gpc = "done" =>
          /\ gskipped = <<>>
          /\ DOMAIN model = DOMAIN services
          /\ \A s \in DOMAIN services :
                LET all == services[s].methods
                    rpcs == SelectAt(all, LAMBDA k : ~SkippedIn(s, all[k]))
                    methods == model[s].methods
                IN  /\ DOMAIN methods = DOMAIN rpcs
                    /\ \A k \in DOMAIN rpcs :
                          LET Exact(fields, path) ==
                                 Text = stripComments(file) /\ PlainMessage(path)
                                   => Says(Untyped(fields), path)
                          IN  /\ methods[k].name = LowerFirst[rpcs[k].name]
                              /\ Exact(methods[k].params, rpcs[k].req)
                              /\ Exact(methods[k].results, rpcs[k].resp)

\* A client of one build that meets a server of another never has a call taken
\* for a call of another method, or its fields for other fields: ordinals and
\* places come from the order in the file, so that every edit moves them, but
\* then the ID of the interface is another and the call is rejected
\* (protoconv.go:56, 272-276).
NeverMisdispatched ==
    gpc = "done" =>
        \A build \in builds : \A client \in build, server \in Build :
            client.id = server.id =>
                \A m \in Range(client.methods), n \in Range(server.methods) :
                    m.ord = n.ord => m = n

=============================================================================
