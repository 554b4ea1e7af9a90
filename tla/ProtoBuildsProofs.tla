-------------------------- MODULE ProtoBuildsProofs --------------------------
(***************************************************************************)
(* Theorems about ProtoBuilds: what holds of a translation holds of every  *)
(* build, and builds with one interface ID have one translation, so that   *)
(* no call is taken for another method's. What ToCapnp writes is among the *)
(* schemas that GeneratorProofs speaks of, so that its theorems hold of    *)
(* every build, too, and every rpc reaches the client.                     *)
(***************************************************************************)
EXTENDS ProtoBuilds, ProtoConvProofs

\* What a build of the text f knows of its interfaces.
BuildOf(f) ==
    {[id |-> <<fileID(f), in.name>>, methods |-> in.methods] :
        in \in Range(Translation(f))}

\* The inductive invariant: what is deployed are builds of texts, by ToCapnp.
BuildsInv ==
    /\ ProtoInv
    /\ gpc # "idle" => pc = "done"
    /\ \A build \in builds : \E f \in Files : build = BuildOf(f)

\* Every step keeps it: translating, generating, and starting again.
LEMMA StepBuilds == BuildsInv /\ [BuildsNext]_buildVars => BuildsInv'
<1>. SUFFICES ASSUME BuildsInv, [BuildsNext]_buildVars PROVE BuildsInv'
    OBVIOUS
<1>1. ASSUME UNCHANGED <<vars, builds>>, gpc # "idle" \/ pc = "done" \/ UNCHANGED gpc
      PROVE  BuildsInv'
    <2>1. ProtoInv'
        BY <1>1, StepInv DEF BuildsInv
    <2>2. pc' = pc
        BY <1>1 DEF vars
    <2>. QED
        BY <1>1, <2>1, <2>2 DEF BuildsInv
<1>2. CASE Translate
    <2>1. ProtoInv'
        BY <1>2, StepInv DEF Translate, BuildsInv
    <2>2. pc # "done"
        BY <1>2 DEF Translate, Next, Parse, Check, OpenInterface, SkipMethod,
                    EmitMethod, CloseInterface, Return
    <2>. QED
        BY <1>2, <2>1, <2>2 DEF Translate, BuildsInv, genVars
<1>3. CASE HandOver
    BY <1>1, <1>3 DEF HandOver
<1>4. CASE Generate
    BY <1>1, <1>4 DEF Generate
<1>5. ASSUME NEW text \in Edits, DeployAndEdit(text) PROVE BuildsInv'
    <2>1. ProtoInv'
        <3>1. /\ file' \in Files /\ pc' = "parse" /\ messages' = <<>>
              /\ services' = <<>> /\ out' = <<>> /\ skipped' = <<>>
              /\ svc' = 1 /\ meth' = 1 /\ ord' = 0
            BY <1>5, BuildsAssumption DEF DeployAndEdit
        <3>2. Init'
            BY <3>1 DEF Init
        <3>. QED
            BY <3>2, InitInv, PTL
    <2>2. Build = BuildOf(file) /\ file \in Files
        <3>1. pc = "done"
            BY <1>5 DEF DeployAndEdit, BuildsInv
        <3>2. out = Translation(file)
            BY <3>1, DoneTranslated DEF BuildsInv
        <3>. QED
            BY <3>2 DEF Build, BuildOf, BuildsInv, ProtoInv
    <2>. QED
        BY <1>5, <2>1, <2>2 DEF DeployAndEdit, BuildsInv
<1>6. CASE UNCHANGED buildVars
    BY <1>1, <1>6 DEF buildVars, genVars
<1>. QED
    BY <1>2, <1>3, <1>4, <1>5, <1>6 DEF BuildsNext

\* For any texts and any number of builds, what is deployed is what Translation
\* says of some text, and ProtoInv holds of every translation anew.
THEOREM BuildsInvariant == BuildsSpec => []BuildsInv
<1>1. BuildsInit => BuildsInv
    BY InitInv DEF BuildsInit, BuildsInv
<1>. QED
    BY <1>1, StepBuilds, PTL DEF BuildsSpec

\* A file that can be read declares no service twice. protoc demands it and ToCapnp
\* does not look; with two services of one name, two interfaces would have one ID.
ServiceNamesDistinct(f) ==
    LET ss == ParsedServices(stripComments(f))
    IN  Balanced(stripComments(f)) =>
            \A s, t \in DOMAIN ss : ss[s].name = ss[t].name => s = t

\* For any texts that declare no service twice and any number of builds: a client of
\* one build that meets a server of another never has a call taken for a call of
\* another method, for IDs agree only if the texts do (fileID has no collisions),
\* and then the ordinals do (protoconv.go:56, 272-276).
THEOREM NoMisdispatch ==
    ASSUME \A f \in Files : ServiceNamesDistinct(f)
    PROVE  BuildsSpec => []NeverMisdispatched
<1>1. BuildsInv => NeverMisdispatched
    <2>. SUFFICES ASSUME BuildsInv, gpc = "done", NEW build \in builds,
                         NEW client \in build, NEW server \in Build,
                         client.id = server.id,
                         NEW m \in Range(client.methods),
                         NEW n \in Range(server.methods), m.ord = n.ord
                  PROVE  m = n
        BY DEF NeverMisdispatched
    <2>1. PICK f \in Files : build = BuildOf(f)
        BY DEF BuildsInv
    <2>2. PICK in \in Range(Translation(f)) :
             client = [id |-> <<fileID(f), in.name>>, methods |-> in.methods]
        BY <2>1 DEF BuildOf
    <2>3. PICK jn \in Range(out) :
             server = [id |-> <<fileID(file), jn.name>>, methods |-> jn.methods]
        BY DEF Build
    <2>4. out = Translation(file) /\ file \in Files
        BY DoneTranslated DEF BuildsInv, ProtoInv
    <2>5. f = file /\ in.name = jn.name
        BY <2>2, <2>3 DEF fileID
    <2>. DEFINE ss == ParsedServices(stripComments(file))
                ms == ParsedMessages(stripComments(file))
    <2>6. PICK s \in DOMAIN ss : in = [name |-> ss[s].name,
                                       methods |-> TranslatedBy(ms, ss[s].methods)]
        BY <2>2, <2>5, Zenon DEF Translation, Range
    <2>7. PICK t \in DOMAIN ss : jn = [name |-> ss[t].name,
                                       methods |-> TranslatedBy(ms, ss[t].methods)]
        BY <2>3, <2>4, Zenon DEF Translation, Range
    <2>8. s = t
        <3>1. Balanced(stripComments(file))
            BY DoneTranslated, <2>3 DEF BuildsInv, ProtoInv, ParsedInv
        <3>. QED
            BY <2>4, <2>5, <2>6, <2>7, <3>1 DEF ServiceNamesDistinct
    <2>9. client.methods = TranslatedBy(ms, ss[s].methods)
          /\ server.methods = TranslatedBy(ms, ss[s].methods)
        BY <2>2, <2>3, <2>6, <2>7, <2>8
    <2>. DEFINE es == TranslatedBy(ms, ss[s].methods)
    <2>10. \A k \in DOMAIN es : es[k].ord = k - 1
        BY DEF TranslatedBy
    <2>11. DOMAIN es \subseteq Int
        <3>1. jn \in OutInterface
            <4>1. PICK i \in DOMAIN out : jn = out[i]
                BY Zenon DEF Range
            <4>2. out \in Seq(OutInterface)
                BY DEF BuildsInv, ProtoInv, TypeOK
            <4>. QED
                BY <4>1, <4>2
        <3>2. es = jn.methods /\ es \in Seq(OutMethod)
            BY <2>7, <2>8, <3>1 DEF OutInterface
        <3>. QED
            BY <3>2
    <2>12. PICK j \in DOMAIN es : m = es[j]
        BY <2>9, Zenon DEF Range
    <2>13. PICK k \in DOMAIN es : n = es[k]
        BY <2>9, Zenon DEF Range
    <2>. HIDE DEF es
    <2>. QED
        BY <2>10, <2>11, <2>12, <2>13
<1>. QED
    BY <1>1, BuildsInvariant, PTL

\* Numbered and PlainExact hold of every build.
THEOREM BuildsExact ==
    BuildsSpec => [](RpcNamesDistinct => MethodsNumbered /\ PlainMethodsExact)
    BY BuildsInvariant, InvNumbers, InvExact, PTL DEF BuildsInv

-----------------------------------------------------------------------------
(* What ToCapnp writes is what Generate reads.                               *)

\* The types of Cap'n Proto that types of protobuf become.
LEMMA ScalarNames ==
    /\ Range(scalarToCapnp) \subseteq {"Text", "Data", "Bool", "Int32", "Int64", "UInt32",
                                       "UInt64", "Float32", "Float64"}
    /\ \A t \in Range(scalarToCapnp) :
          t \in STRING /\ t \notin {"{", "}", "#", "nl", "(", ")", ","}
<1>1. \A x \in DOMAIN scalarToCapnp : scalarToCapnp[x] \in
        {"Text", "Data", "Bool", "Int32", "Int64", "UInt32", "UInt64", "Float32", "Float64"}
    BY DEF scalarToCapnp
<1>2. Range(scalarToCapnp) \subseteq {"Text", "Data", "Bool", "Int32", "Int64", "UInt32",
                                      "UInt64", "Float32", "Float64"}
    BY <1>1 DEF Range
<1>3. \A t \in {"Text", "Data", "Bool", "Int32", "Int64", "UInt32", "UInt64", "Float32",
               "Float64"} : t \notin {"{", "}", "#", "nl", "(", ")", ","}
    OBVIOUS
<1>. QED
    BY <1>2, <1>3, BuildsAssumption

\* The constants are what Generator assumes of its own.
LEMMA Fits == Gen!GeneratorAssumption /\ Gen!WritingAssumption
<1>1. OutWords \subseteq STRING
    <2>1. \A x \in Range(Camel) \cup Range(LowerFirst) : x \in STRING
        BY ProtoConvAssumption DEF Range
    <2>. QED
        BY <2>1, ProtoConvAssumption DEF OutWords
<1>2. \A t \in Range(scalarToCapnp) : t \in STRING
    BY ScalarNames
<1>. DEFINE Field0 == [name: OutWords, type: Seq(STRING)]
            Method0 == [name: OutWords, params: Seq(Field0), results: Seq(Field0),
                        style: STRING]
            Interface0 == [name: OutWords, extends: OutWords \cup {""}, methods: Seq(Method0)]
<1>3. CapnpField \subseteq Field0
    <2>1. \A t \in Range(scalarToCapnp) : <<t>> \in Seq(STRING)
        BY <1>2
    <2>. QED
        BY <2>1 DEF CapnpField
<1>. HIDE DEF Field0
<1>4. Seq(CapnpField) \subseteq Seq(Field0)
    BY <1>3, SeqWithin
<1>5. CapnpMethod \subseteq Method0
    <2>1. "plain" \in STRING
        BY BuildsAssumption
    <2>2. \A m \in CapnpMethod :
             /\ m = [name |-> m.name, params |-> m.params, results |-> m.results,
                     style |-> m.style]
             /\ m.name \in OutWords /\ m.style = "plain"
             /\ m.params \in Seq(CapnpField) /\ m.results \in Seq(CapnpField)
        BY DEF CapnpMethod
    <2>. QED
        BY <1>4, <2>1, <2>2
<1>. HIDE DEF Method0
<1>6. Seq(CapnpMethod) \subseteq Seq(Method0)
    BY <1>5, SeqWithin
<1>7. CapnpInterface \subseteq Interface0
    BY <1>6 DEF CapnpInterface
<1>. HIDE DEF Interface0
<1>8. Seq(CapnpInterface) \subseteq Seq(Interface0)
    BY <1>7, SeqWithin
<1>9. CapnpSchema \subseteq [package: STRING, interfaces: Seq(Interface0)]
    <2>1. "pkg" \in STRING
        BY BuildsAssumption
    <2>2. \A s \in CapnpSchema :
             /\ s = [package |-> s.package, interfaces |-> s.interfaces]
             /\ s.package = "pkg" /\ s.interfaces \in Seq(CapnpInterface)
        BY DEF CapnpSchema
    <2>. QED
        BY <1>8, <2>1, <2>2
<1>10. \A s \in CapnpSchema : \A i \in DOMAIN s.interfaces :
          Len(s.interfaces[i].methods) <= Len(Ordinals)
    <2>1. \A s \in CapnpSchema : \A i \in DOMAIN s.interfaces : s.interfaces[i] \in CapnpInterface
        BY DEF CapnpSchema
    <2>. QED
        BY <2>1 DEF CapnpInterface
<1>11. Gen!GeneratorAssumption
    <2>1. /\ Gen!FieldDecl = Field0 /\ Gen!MethodDecl = Method0
          /\ Gen!InterfaceDecl = Interface0
        BY DEF Gen!FieldDecl, Gen!MethodDecl, Gen!InterfaceDecl, Field0, Method0, Interface0
    <2>. QED
        BY <1>1, <1>9, <1>10, <2>1, BuildsAssumption DEF Gen!GeneratorAssumption
<1>12. Gen!PlainNames
    <2>1. OutWords \cap Gen!Punctuation = {} /\ Gen!Range(Ordinals) \cap Gen!Punctuation = {}
        BY BuildsAssumption DEF Gen!Range, Range
    <2>2. \A s \in CapnpSchema : s.package \notin Gen!Punctuation
        BY DEF CapnpSchema, Gen!Punctuation
    <2>. QED
        BY <2>1, <2>2 DEF Gen!PlainNames
<1>13. ASSUME NEW t \in Range(scalarToCapnp) PROVE Gen!WellTyped(<<t>>)
    <2>1. t \notin {"{", "}", "#", "nl", "(", ")", ","}
        BY ScalarNames
    <2>. DEFINE w == <<t>>
    <2>2. DOMAIN w = 1..1 /\ Len(w) = 1 /\ 1..1 = {1} /\ w[1] = t
        OBVIOUS
    <2>3. {k \in 1..1 : w[k] = "("} = {} /\ {k \in 1..1 : w[k] = ")"} = {}
        BY <2>1, <2>2
    <2>. HIDE DEF w
    <2>9. Gen!Cardinality({}) = 0
        BY <1>11, Gen!FS_EmptySet
    <2>4. Gen!Depth(w, 1, 1, "(", ")") = 0
        BY <2>3, <2>9 DEF Gen!Depth
    <2>5. \A k \in DOMAIN w : /\ w[k] \notin {"{", "}", "#", "nl"} /\ w[k] # ","
                             /\ Gen!Depth(w, 1, k, "(", ")") = 0
        BY <2>1, <2>2, <2>4
    <2>6. Gen!Depth(w, 1, Len(w), "(", ")") = 0
        BY <2>2, <2>4
    <2>7. 0 >= 0
        OBVIOUS
    <2>8. Gen!WellTyped(w)
        BY <2>5, <2>6, <2>7 DEF Gen!WellTyped
    <2>. QED
        BY <2>8 DEF w
<1>14. \A s \in CapnpSchema : Gen!WellWritten(s)
    <2>. SUFFICES ASSUME NEW s \in CapnpSchema, NEW in \in Gen!Range(s.interfaces),
                         NEW m \in Gen!Range(in.methods),
                         NEW f \in Gen!Range(m.params) \cup Gen!Range(m.results)
                  PROVE  Gen!WellTyped(f.type)
        BY DEF Gen!WellWritten
    <2>1. in \in CapnpInterface
        BY DEF CapnpSchema, Gen!Range
    <2>2. in.methods \in Seq(CapnpMethod)
        BY <2>1 DEF CapnpInterface
    <2>3. m \in CapnpMethod
        BY <2>2 DEF Gen!Range
    <2>4. m.params \in Seq(CapnpField) /\ m.results \in Seq(CapnpField)
        BY <2>3 DEF CapnpMethod
    <2>5. f \in CapnpField
        BY <2>4 DEF Gen!Range
    <2>6. PICK t \in Range(scalarToCapnp) : f.type = <<t>>
        BY <2>5 DEF CapnpField
    <2>. QED
        BY <1>13, <2>6
<1>. QED
    BY <1>11, <1>12, <1>14 DEF Gen!WritingAssumption

\* What ToCapnp returns is one of the schemas.
LEMMA CapnpWritten ==
    ASSUME ProtoInv, pc = "done"
    PROVE  Capnp \in CapnpSchema /\ \A i \in DOMAIN out : Capnp.interfaces[i].extends = ""
<1>1. out \in Seq(OutInterface) /\ services \in Seq(ProtoService) /\ file \in Files
    BY DEF ProtoInv, TypeOK
<1>2. ASSUME NEW ps \in Seq(Param) PROVE Typed(ps) \in Seq(CapnpField)
    <2>1. Len(ps) \in Nat /\ DOMAIN ps = 1..Len(ps) /\ \A k \in DOMAIN ps : ps[k] \in Param
        OBVIOUS
    <2>2. Typed(ps) = [k \in 1..Len(ps) |-> [name |-> ps[k].name, type |-> <<ps[k].type>>]]
        BY <2>1 DEF Typed
    <2>3. \A k \in 1..Len(ps) : [name |-> ps[k].name, type |-> <<ps[k].type>>] \in CapnpField
        BY <2>1 DEF Param, CapnpField, OutWords
    <2>. QED
        BY <2>1, <2>2, <2>3
<1>3. ASSUME NEW s \in DOMAIN out PROVE Capnp.interfaces[s] \in CapnpInterface
    <2>. DEFINE es == out[s].methods
                w(k) == [name |-> es[k].name, params |-> Typed(es[k].params),
                         results |-> Typed(es[k].results), style |-> "plain"]
                ws == [k \in DOMAIN es |-> w(k)]
    <2>1. out[s] \in OutInterface
        BY <1>1
    <2>2. out[s].name \in OutWords /\ es \in Seq(OutMethod)
        BY <2>1 DEF OutInterface, OutWords
    <2>3. Capnp.interfaces[s] = [name |-> out[s].name, extends |-> "", methods |-> ws]
        BY DEF Capnp
    <2>. HIDE DEF es
    <2>4. Len(es) \in Nat /\ DOMAIN es = 1..Len(es) /\ \A k \in DOMAIN es : es[k] \in OutMethod
        BY <2>2
    <2>5. ASSUME NEW k \in 1..Len(es) PROVE w(k) \in CapnpMethod
        <3>1. /\ es[k].params \in Seq(Param) /\ es[k].results \in Seq(Param)
              /\ es[k].name \in Range(LowerFirst)
            BY <2>4 DEF OutMethod
        <3>2. Typed(es[k].params) \in Seq(CapnpField) /\ Typed(es[k].results) \in Seq(CapnpField)
            BY <1>2, <3>1
        <3>. QED
            BY <3>1, <3>2 DEF CapnpMethod, OutWords
    <2>6. ws \in Seq(CapnpMethod) /\ Len(ws) = Len(es)
        <3>. HIDE DEF w
        <3>. QED
            BY <2>4, <2>5
    <2>7. Len(es) <= Len(Ordinals)
        <3>1. s \in DOMAIN services
            BY OutWithin DEF ProtoInv
        <3>. DEFINE ms == services[s].methods
        <3>2. ms \in Seq(Rpc) /\ Len(ms) \in Nat /\ Seen(s) = Len(ms)
            BY <3>1, SeenWithin DEF ProtoInv, Seen
        <3>3. es = Written(Picked(SubSeq(ms, 1, Len(ms)), Kept(ms)))
            BY <3>2 DEF ProtoInv, WrittenInv, WrittenOf, es
        <3>4. Len(ms) <= Len(Ordinals)
            <4>1. Balanced(stripComments(file)) /\ services = ParsedServices(stripComments(file))
                BY DEF ProtoInv, ParsedInv
            <4>2. services[s] \in Range(services)
                BY <3>1 DEF Range
            <4>. QED
                BY <1>1, <4>1, <4>2, BuildsAssumption
        <3>. HIDE DEF ms
        <3>5. SubSeq(ms, 1, Len(ms)) = ms
            BY <3>2
        <3>. DEFINE ps == Picked(ms, Kept(ms))
        <3>6. ps \in Seq(Rpc) /\ Len(ps) <= Len(ms)
            BY <3>2, PickedShorter, PickedType
        <3>7. es = Written(ps)
            BY <3>3, <3>5
        <3>. HIDE DEF ps
        <3>8. DOMAIN es = DOMAIN ps
            BY <3>7 DEF Written
        <3>9. Len(es) = Len(ps) /\ Len(ps) \in Nat
            <4>1. Len(ps) \in Nat /\ DOMAIN ps = 1..Len(ps)
                BY <3>6
            <4>2. 1..Len(es) = 1..Len(ps) /\ Len(es) \in Nat
                BY <2>4, <3>8, <4>1
            <4>. QED
                BY <4>1, <4>2
        <3>10. Len(Ordinals) \in Nat
            BY BuildsAssumption
        <3>. QED
            BY <3>2, <3>4, <3>6, <3>9, <3>10
    <2>8. Len(ws) <= Len(Ordinals)
        BY <2>6, <2>7
    <2>. HIDE DEF ws
    <2>. DEFINE in == [name |-> out[s].name, extends |-> "", methods |-> ws]
    <2>9. in \in CapnpInterface
        BY <2>2, <2>6, <2>8 DEF CapnpInterface
    <2>. QED
        BY <2>3, <2>9
<1>4. Capnp.interfaces \in Seq(CapnpInterface)
    <2>. DEFINE ins == Capnp.interfaces
    <2>1. Len(out) \in Nat /\ DOMAIN out = 1..Len(out)
        BY <1>1
    <2>2. ins = [s \in 1..Len(out) |-> ins[s]]
        BY <2>1 DEF Capnp
    <2>3. \A s \in 1..Len(out) : ins[s] \in CapnpInterface
        BY <1>3, <2>1
    <2>. HIDE DEF ins
    <2>4. ins \in Seq(CapnpInterface)
        BY <2>1, <2>2, <2>3, ListWithin
    <2>. QED
        BY <2>4 DEF ins
<1>5. Capnp.package = "pkg" /\ Capnp = [package |-> Capnp.package, interfaces |-> Capnp.interfaces]
    BY DEF Capnp
<1>6. Capnp \in CapnpSchema
    BY <1>4, <1>5 DEF CapnpSchema
<1>. QED
    BY <1>6 DEF Capnp

-----------------------------------------------------------------------------
(* Generate, carried through the builds.                                     *)

\* What the composition carries over: there is a service once that has been checked;
\* Generate, if it runs, was given what ToCapnp has written, and its invariants hold
\* of that; and as many builds are deployed as may be.
CarriedInv ==
    /\ pc \in {"interface", "method", "done"} => services # <<>>
    /\ IF gpc = "idle" THEN ifaces = <<>> /\ model = <<>> /\ gskipped = <<>>
       ELSE schema = Capnp /\ Gen!DivideInv /\ Gen!WrittenInv
    /\ IsFiniteSet(builds) /\ Cardinality(builds) <= MaxBuilds

\* Generate starts with its invariants, ...
LEMMA GenerateStarts == Gen!Init => Gen!DivideInv /\ Gen!WrittenInv
BY Fits, Gen!InitDivide, Gen!InitWritten

\* ... and each of its steps keeps them.
LEMMA GenerateSteps ==
    ASSUME Gen!DivideInv, Gen!WrittenInv, Gen!Next
    PROVE  Gen!DivideInv' /\ Gen!WrittenInv' /\ schema' = schema /\ gpc' # "idle"
<1>1. Gen!DivideInv' /\ Gen!WrittenInv'
    BY Fits, Gen!StepDivide, Gen!StepWritten
<1>2. schema' = schema
    BY DEF Gen!Next, Gen!Parse, Gen!BuildInterface, Gen!BuildMethod, Gen!Execute
<1>3. gpc' # "idle"
    BY <1>1 DEF Gen!DivideInv
<1>. QED
    BY <1>1, <1>2, <1>3

\* What is not touched keeps the invariants of Generate.
LEMMA GenerateWaits ==
    ASSUME UNCHANGED <<schema, gpc, ifaces, model, gskipped>>, Gen!DivideInv, Gen!WrittenInv
    PROVE  Gen!DivideInv' /\ Gen!WrittenInv'
<1>1. UNCHANGED Gen!vars
    BY DEF Gen!vars
<1>. QED
    BY <1>1, Fits, Gen!StepDivide, Gen!StepWritten

\* Every step keeps it.
LEMMA StepCarried ==
    ASSUME BuildsInv, CarriedInv, [BuildsNext]_buildVars
    PROVE  CarriedInv'
<1>1. CASE Translate
    <2>1. gpc = "idle" /\ pc # "done"
        BY <1>1 DEF Translate, Next, Parse, Check, OpenInterface, SkipMethod,
                    EmitMethod, CloseInterface, Return, BuildsInv
    <2>2. UNCHANGED <<schema, gpc, ifaces, model, gskipped, builds>>
        BY <1>1 DEF Translate, genVars
    <2>3. pc' \in {"interface", "method", "done"} => services' # <<>>
        BY <1>1 DEF Translate, Next, Parse, Check, OpenInterface, SkipMethod,
                    EmitMethod, CloseInterface, Return, CarriedInv
    <2>. QED
        BY <2>1, <2>2, <2>3 DEF CarriedInv
<1>2. CASE HandOver
    <2>1. /\ pc = "done" /\ schema' = Capnp /\ gpc' = "parse" /\ UNCHANGED vars
          /\ ifaces' = <<>> /\ model' = <<>> /\ gskipped' = <<>> /\ builds' = builds
        BY <1>2 DEF HandOver, CarriedInv
    <2>2. Capnp \in CapnpSchema
        BY <2>1, CapnpWritten DEF BuildsInv
    <2>3. Gen!Init'
        BY <2>1, <2>2 DEF Gen!Init
    <2>4. Gen!DivideInv' /\ Gen!WrittenInv'
        BY <2>3, GenerateStarts, PTL
    <2>5. out' = out /\ pc' = pc /\ services' = services
        BY <2>1 DEF vars
    <2>6. Capnp' = Capnp
        BY <2>5 DEF Capnp, Typed
    <2>. QED
        BY <2>1, <2>4, <2>5, <2>6 DEF CarriedInv
<1>3. CASE Generate
    <2>1. gpc # "idle" /\ Gen!Next /\ UNCHANGED <<vars, builds>>
        BY <1>3 DEF Generate
    <2>2. schema = Capnp /\ Gen!DivideInv /\ Gen!WrittenInv
        BY <2>1 DEF CarriedInv
    <2>3. Gen!DivideInv' /\ Gen!WrittenInv' /\ schema' = schema /\ gpc' # "idle"
        BY <2>1, <2>2, GenerateSteps
    <2>4. out' = out /\ pc' = pc /\ services' = services /\ builds' = builds
        BY <2>1 DEF vars
    <2>5. Capnp' = Capnp
        BY <2>4 DEF Capnp, Typed
    <2>. QED
        BY <2>2, <2>3, <2>4, <2>5 DEF CarriedInv
<1>4. ASSUME NEW text \in Edits, DeployAndEdit(text) PROVE CarriedInv'
    <2>1. IsFiniteSet(builds) /\ Cardinality(builds) < MaxBuilds
          /\ builds' = builds \cup {Build}
        BY <1>4 DEF DeployAndEdit, CarriedInv
    <2>2. /\ IsFiniteSet(builds \cup {Build})
          /\ Cardinality(builds \cup {Build}) = IF Build \in builds THEN Cardinality(builds)
                                                ELSE Cardinality(builds) + 1
        BY <2>1, FS_AddElement
    <2>3. Cardinality(builds) \in Nat /\ MaxBuilds \in Nat
        BY <2>1, FS_CardinalityType, BuildsAssumption
    <2>4. IsFiniteSet(builds') /\ Cardinality(builds') <= MaxBuilds
        <3>. DEFINE c == Cardinality(builds)
        <3>. HIDE DEF c
        <3>1. c + 1 <= MaxBuilds /\ c <= MaxBuilds
            BY <2>1, <2>3 DEF c
        <3>. QED
            BY <2>1, <2>2, <3>1 DEF c
    <2>5. gpc' = "idle" /\ pc' = "parse" /\ ifaces' = <<>> /\ model' = <<>>
          /\ gskipped' = <<>>
        BY <1>4 DEF DeployAndEdit
    <2>. QED
        BY <2>4, <2>5 DEF CarriedInv
<1>5. CASE UNCHANGED buildVars
    <2>1. /\ UNCHANGED <<schema, gpc, ifaces, model, gskipped>>
          /\ out' = out /\ pc' = pc /\ services' = services /\ builds' = builds
        BY <1>5 DEF buildVars, genVars, vars
    <2>2. Capnp' = Capnp
        BY <2>1 DEF Capnp, Typed
    <2>3. gpc # "idle" => Gen!DivideInv' /\ Gen!WrittenInv'
        BY <2>1, GenerateWaits DEF CarriedInv
    <2>. QED
        BY <2>1, <2>2, <2>3 DEF CarriedInv
<1>. QED
    BY <1>1, <1>2, <1>3, <1>4, <1>5 DEF BuildsNext

\* So the invariants of the translator and of the generator hold of every build.
THEOREM CarriedOver == BuildsSpec => [](BuildsInv /\ CarriedInv)
<1>1. BuildsInit => BuildsInv /\ CarriedInv
    <2>1. BuildsInit => CarriedInv
        BY FS_EmptySet, BuildsAssumption DEF BuildsInit, Init, CarriedInv
    <2>. QED
        BY <2>1, InitInv DEF BuildsInit, BuildsInv
<1>2. BuildsInv /\ CarriedInv /\ [BuildsNext]_buildVars => (BuildsInv /\ CarriedInv)'
    BY StepBuilds, StepCarried
<1>. QED
    BY <1>1, <1>2, PTL DEF BuildsSpec

\* For any texts and any number of builds, the variables of both keep their types,
\* and no more builds are deployed than may be.
THEOREM BuildsTypeCorrect == BuildsSpec => []BuildsTypeOK
<1>1. BuildsInv /\ CarriedInv => BuildsTypeOK
    BY Fits, Gen!InvTyped DEF BuildsInv, ProtoInv, CarriedInv, BuildsTypeOK
<1>. QED
    BY <1>1, CarriedOver, PTL

-----------------------------------------------------------------------------
(* Every rpc reaches the client.                                             *)

\* Generate finds every interface that ToCapnp writes.
LEMMA AllInterfacesFound ==
    ASSUME BuildsInv, CarriedInv, gpc # "idle"
    PROVE  /\ Gen!Found = schema.interfaces /\ schema = Capnp /\ pc = "done"
           /\ DOMAIN Gen!Found = DOMAIN services /\ DOMAIN out = DOMAIN services
           /\ Len(Gen!Found) = Len(services) /\ services # <<>>
<1>1. pc = "done" /\ schema = Capnp /\ ProtoInv /\ services # <<>>
    BY DEF BuildsInv, CarriedInv
<1>2. Capnp \in CapnpSchema
    BY <1>1, CapnpWritten
<1>. DEFINE ins == Capnp.interfaces
<1>3. ins \in Seq(CapnpInterface) /\ \A i \in DOMAIN ins : ins[i].extends = ""
    <2>1. ins \in Seq(CapnpInterface)
        BY <1>2 DEF CapnpSchema
    <2>. HIDE DEF ins
    <2>2. \A i \in DOMAIN ins : ins[i] \in CapnpInterface
        BY <2>1
    <2>. QED
        BY <2>1, <2>2 DEF CapnpInterface
<1>4. DOMAIN ins = DOMAIN out
    BY DEF Capnp
<1>5. /\ out \in Seq(OutInterface) /\ services \in Seq(ProtoService)
      /\ Len(out) = Len(services) /\ DOMAIN out = DOMAIN services
    <2>1. /\ out \in Seq(OutInterface) /\ services \in Seq(ProtoService)
          /\ Len(out) = svc - 1 /\ svc = Len(services) + 1
        BY <1>1 DEF ProtoInv, TypeOK, LoopsInv
    <2>. QED
        BY <2>1
<1>. HIDE DEF ins
<1>6. Gen!Found = ins
    <2>1. Gen!Found = Gen!Picked(ins, Gen!Bases(ins))
        BY <1>1, Fits, Gen!FoundKept DEF ins
    <2>2. DOMAIN ins \subseteq Gen!Bases(ins)
        BY <1>3 DEF Gen!Bases
    <2>. QED
        BY <1>3, <2>1, <2>2, Fits, Gen!PickedAll
<1>7. Len(ins) = Len(services)
    <2>1. Len(ins) \in Nat /\ DOMAIN ins = 1..Len(ins)
        <3>1. ins \in Seq(CapnpInterface)
            BY <1>3
        <3>. QED
            BY <3>1
    <2>2. Len(services) \in Nat /\ DOMAIN services = 1..Len(services)
        <3>1. services \in Seq(ProtoService)
            BY <1>5
        <3>. QED
            BY <3>1
    <2>. DEFINE m == Len(ins)
                n == Len(services)
    <2>3. 1..m = 1..n /\ m \in Nat /\ n \in Nat
        BY <1>4, <1>5, <2>1, <2>2
    <2>. HIDE DEF m, n
    <2>4. m = n
        BY <2>3
    <2>. QED
        BY <2>4 DEF m, n
<1>. QED
    BY <1>1, <1>4, <1>5, <1>6, <1>7 DEF ins

\* Generate does not fail: there are interfaces and a package, and it knows their style.
LEMMA NeverFails ==
    ASSUME BuildsInv, CarriedInv
    PROVE  gpc # "error"
<1>. SUFFICES ASSUME gpc = "error" PROVE FALSE
    OBVIOUS
<1>1. /\ Gen!Found = schema.interfaces /\ schema = Capnp /\ pc = "done"
      /\ Len(Gen!Found) = Len(services) /\ services # <<>>
    BY AllInterfacesFound
<1>2. Capnp \in CapnpSchema /\ services \in Seq(ProtoService)
    BY <1>1, CapnpWritten DEF BuildsInv, ProtoInv, TypeOK
<1>3. Gen!Unreadable \/ schema.package = ""
    BY DEF CarriedInv, Gen!WrittenInv
<1>4. schema.package # ""
    BY <1>1, <1>2 DEF CapnpSchema
<1>5. Gen!Found # <<>>
    <2>1. Len(services) # 0 /\ Len(<<>>) = 0
        BY <1>1, <1>2
    <2>. QED
        BY <1>1, <2>1
<1>6. ASSUME NEW in \in Gen!Range(Gen!Found), NEW m \in Gen!Range(in.methods)
      PROVE  m.style \notin Gen!UnknownStyles
    <2>1. Gen!Found \in Seq(CapnpInterface)
        BY <1>1, <1>2 DEF CapnpSchema
    <2>2. in \in CapnpInterface
        BY <2>1 DEF Gen!Range
    <2>3. in.methods \in Seq(CapnpMethod)
        BY <2>2 DEF CapnpInterface
    <2>4. m \in CapnpMethod
        BY <2>3 DEF Gen!Range
    <2>. QED
        BY <2>4 DEF CapnpMethod, Gen!UnknownStyles
<1>. QED
    BY <1>3, <1>4, <1>5, <1>6 DEF Gen!Unreadable

\* When it is done, the client has every method of the translation, as it was written.
LEMMA ClientHasAll ==
    ASSUME BuildsInv, CarriedInv, gpc = "done"
    PROVE  /\ gskipped = <<>> /\ DOMAIN model = DOMAIN services
           /\ \A s \in DOMAIN services :
                 /\ DOMAIN model[s].methods = DOMAIN out[s].methods
                 /\ \A k \in DOMAIN out[s].methods :
                       /\ model[s].methods[k].name = out[s].methods[k].name
                       /\ Untyped(model[s].methods[k].params) = out[s].methods[k].params
                       /\ Untyped(model[s].methods[k].results) = out[s].methods[k].results
<1>1. /\ Gen!Found = schema.interfaces /\ schema = Capnp /\ pc = "done"
      /\ DOMAIN Gen!Found = DOMAIN services /\ DOMAIN out = DOMAIN services
      /\ Len(Gen!Found) = Len(services)
    BY AllInterfacesFound
<1>2. out \in Seq(OutInterface) /\ services \in Seq(ProtoService)
    BY DEF BuildsInv, ProtoInv, TypeOK
<1>3. Gen!DivideInv /\ Gen!WrittenInv
    BY DEF CarriedInv
<1>4. /\ ifaces \in Seq(Gen!ReadInterface) /\ model \in Seq(Gen!ModelInterface)
      /\ gskipped \in Seq(Nat \X OutWords)
      /\ \A k \in DOMAIN gskipped : gskipped[k][1] \in DOMAIN model
      /\ Len(model) = Len(ifaces)
      /\ \A i \in DOMAIN model : Gen!DividedAt(i) /\ Gen!SkippedAt(i) /\ Gen!WholeAt(i)
    BY <1>3 DEF Gen!DivideInv, Gen!ReadOK, Gen!ModelOK, Gen!Current
<1>5. /\ Len(ifaces) = Len(Gen!Found)
      /\ \A i \in DOMAIN ifaces : Gen!ReadAs(ifaces[i].methods, Gen!Found[i].methods)
    BY <1>3 DEF Gen!WrittenInv, Gen!ReadWritten
<1>6. DOMAIN model = DOMAIN services /\ DOMAIN ifaces = DOMAIN services
    BY <1>1, <1>2, <1>4, <1>5
<1>7. ASSUME NEW s \in DOMAIN services
      PROVE  LET ms == ifaces[s].methods
                 es == out[s].methods
             IN  /\ ms \in Seq(Gen!ReadMethod) /\ es \in Seq(OutMethod)
                 /\ DOMAIN ms = DOMAIN es
                 /\ \A k \in DOMAIN es :
                       /\ ms[k].name = es[k].name /\ ~ms[k].unsupported
                       /\ Untyped(ms[k].params) = es[k].params
                       /\ Untyped(ms[k].results) = es[k].results
    <2>. DEFINE ms == ifaces[s].methods
                es == out[s].methods
                ws == Gen!Found[s].methods
    <2>1. ifaces[s] \in Gen!ReadInterface /\ out[s] \in OutInterface
        BY <1>1, <1>2, <1>4, <1>6
    <2>2. ms \in Seq(Gen!ReadMethod) /\ es \in Seq(OutMethod)
        BY <2>1 DEF Gen!ReadInterface, OutInterface
    <2>3. ws = [k \in DOMAIN es |-> [name |-> es[k].name, params |-> Typed(es[k].params),
                                     results |-> Typed(es[k].results), style |-> "plain"]]
        BY <1>1 DEF Capnp
    <2>4. Gen!ReadAs(ms, ws)
        BY <1>5, <1>6
    <2>5. DOMAIN ms = DOMAIN es
        BY <2>3, <2>4 DEF Gen!ReadAs
    <2>6. ASSUME NEW k \in DOMAIN es
          PROVE  /\ ms[k].name = es[k].name
                 /\ Gen!FieldsAre(ms[k].params, Typed(es[k].params))
                 /\ Gen!FieldsAre(ms[k].results, Typed(es[k].results))
        <3>. HIDE DEF ms, es
        <3>1. /\ ws[k].name = es[k].name /\ ws[k].params = Typed(es[k].params)
              /\ ws[k].results = Typed(es[k].results)
            BY <2>3
        <3>. HIDE DEF ws
        <3>2. k \in DOMAIN ms
            BY <2>5
        <3>3. /\ ms[k].name = ws[k].name
              /\ Gen!FieldsAre(ms[k].params, ws[k].params)
              /\ Gen!FieldsAre(ms[k].results, ws[k].results)
            BY <2>4, <3>2 DEF Gen!ReadAs
        <3>. QED
            BY <3>1, <3>3, Zenon
    <2>. HIDE DEF ms, es
    <2>7. ASSUME NEW ps, NEW fs \in Seq(Param), Gen!FieldsAre(ps, Typed(fs)),
                 ps \in Seq(Gen!ReadField)
          PROVE  /\ Untyped(ps) = fs
                 /\ \A f \in Gen!Range(ps) : Gen!supported(f.type)
        <3>1. \A k \in DOMAIN fs : fs[k] \in Param
            OBVIOUS
        <3>2. /\ DOMAIN ps = DOMAIN fs
              /\ \A k \in DOMAIN fs : /\ ps[k].name = <<fs[k].name>>
                                      /\ ps[k].type = <<fs[k].type>>
            BY <2>7 DEF Gen!FieldsAre, Typed
        <3>3. \A k \in DOMAIN fs :
                 [name |-> ps[k].name[1], type |-> ps[k].type[1]] = fs[k]
            BY <3>1, <3>2 DEF Param
        <3>4. Untyped(ps) = fs
            <4>1. fs = [k \in DOMAIN fs |-> fs[k]]
                OBVIOUS
            <4>. QED
                BY <3>2, <3>3, <4>1 DEF Untyped
        <3>5. \A t \in Range(scalarToCapnp) : Gen!supported(<<t>>)
            <4>1. \A t \in Range(scalarToCapnp) : t \in Gen!scalarTypes
                BY ScalarNames DEF Gen!scalarTypes
            <4>2. \A t : Len(<<t>>) = 1 /\ <<t>>[1] = t
                OBVIOUS
            <4>. QED
                BY <4>1, <4>2 DEF Gen!supported
        <3>6. \A k \in DOMAIN ps : Gen!supported(ps[k].type)
            BY <3>1, <3>2, <3>5 DEF Param
        <3>. QED
            BY <3>4, <3>6 DEF Gen!Range
    <2>8. ASSUME NEW k \in DOMAIN es
          PROVE  /\ ~ms[k].unsupported
                 /\ Untyped(ms[k].params) = es[k].params
                 /\ Untyped(ms[k].results) = es[k].results
        <3>1. es[k] \in OutMethod /\ ms[k] \in Gen!ReadMethod
            BY <2>2, <2>5
        <3>2. /\ es[k].params \in Seq(Param) /\ es[k].results \in Seq(Param)
              /\ ms[k].params \in Seq(Gen!ReadField) /\ ms[k].results \in Seq(Gen!ReadField)
              /\ ms[k].unsupported \in BOOLEAN
            BY <3>1 DEF OutMethod, Gen!ReadMethod
        <3>3. /\ Untyped(ms[k].params) = es[k].params /\ Untyped(ms[k].results) = es[k].results
              /\ \A f \in Gen!Range(ms[k].params) \cup Gen!Range(ms[k].results) :
                    Gen!supported(f.type)
            BY <2>6, <2>7, <3>2
        <3>4. Gen!Range(ms[k].params \o ms[k].results)
                = Gen!Range(ms[k].params) \cup Gen!Range(ms[k].results)
            BY <3>2, Fits, Gen!RangeConcat
        <3>5. ~Gen!unsupportedReason(ms[k].params, ms[k].results)
            BY <3>3, <3>4 DEF Gen!unsupportedReason
        <3>6. ms[k].unsupported = Gen!unsupportedReason(ms[k].params, ms[k].results)
            BY <1>3, <1>6, <2>5 DEF Gen!DivideInv, Gen!ReadOK, ms
        <3>. QED
            BY <3>2, <3>3, <3>5, <3>6
    <2>. QED
        BY <2>2, <2>5, <2>6, <2>8 DEF ms, es
<1>8. ASSUME NEW s \in DOMAIN services PROVE model[s].methods = ifaces[s].methods
    <2>. DEFINE ms == ifaces[s].methods
    <2>1. ms \in Seq(Gen!ReadMethod) /\ DOMAIN ms \subseteq Gen!Kept(s)
        BY <1>7 DEF Gen!Kept
    <2>2. Gen!DividedAt(s) /\ Gen!WholeAt(s)
        BY <1>4, <1>6
    <2>3. model[s].methods = Gen!Picked(SubSeq(ms, 1, Len(ms)), Gen!Kept(s))
        BY <2>2 DEF Gen!DividedAt, Gen!WholeAt
    <2>. HIDE DEF ms
    <2>4. SubSeq(ms, 1, Len(ms)) = ms
        BY <2>1
    <2>5. Gen!Picked(ms, Gen!Kept(s)) = ms
        BY <2>1, Fits, Gen!PickedAll
    <2>. QED
        BY <2>3, <2>4, <2>5 DEF ms
<1>9. gskipped = <<>>
    <2>. SUFFICES ASSUME NEW j \in DOMAIN gskipped PROVE FALSE
        <3>1. gskipped # <<>> => \E j : j \in DOMAIN gskipped
            BY <1>4
        <3>. QED
            BY <3>1
    <2>. DEFINE i == gskipped[j][1]
                name == gskipped[j][2]
    <2>1. gskipped[j] = <<i, name>> /\ name \in OutWords /\ i \in DOMAIN model
        BY <1>4
    <2>2. <<i, name>> \in Gen!Range(gskipped)
        BY <2>1 DEF Gen!Range
    <2>3. Gen!SkippedAt(i) /\ Gen!WholeAt(i)
        BY <1>4, <2>1
    <2>. HIDE DEF i, name
    <2>4. PICK k \in 1..Len(model[i].all) : ifaces[i].methods[k].unsupported
        BY <2>1, <2>2, <2>3 DEF Gen!SkippedAt
    <2>5. /\ ifaces[i].methods \in Seq(Gen!ReadMethod)
          /\ DOMAIN ifaces[i].methods = DOMAIN out[i].methods
          /\ \A l \in DOMAIN out[i].methods : ~ifaces[i].methods[l].unsupported
        BY <1>6, <1>7, <2>1
    <2>6. k \in DOMAIN ifaces[i].methods
        BY <2>3, <2>4, <2>5 DEF Gen!WholeAt
    <2>. QED
        BY <2>4, <2>5, <2>6
<1>. QED
    BY <1>6, <1>7, <1>8, <1>9

\* With that the property the run checks.
LEMMA InvReach == BuildsInv /\ CarriedInv /\ RpcNamesDistinct => RpcsReachClient
<1>. SUFFICES ASSUME BuildsInv, CarriedInv, RpcNamesDistinct, gpc = "done",
                     NEW s \in DOMAIN services
              PROVE  LET all == services[s].methods
                         rpcs == SelectAt(all, LAMBDA k : ~SkippedIn(s, all[k]))
                         methods == model[s].methods
                     IN  /\ DOMAIN methods = DOMAIN rpcs
                         /\ \A k \in DOMAIN rpcs :
                               LET Exact(fields, path) ==
                                      Text = stripComments(file) /\ PlainMessage(path)
                                        => Says(Untyped(fields), path)
                               IN  /\ methods[k].name = LowerFirst[rpcs[k].name]
                                   /\ Exact(methods[k].params, rpcs[k].req)
                                   /\ Exact(methods[k].results, rpcs[k].resp)
    BY NeverFails, ClientHasAll DEF RpcsReachClient
<1>. DEFINE all == services[s].methods
            rpcs == Picked(all, Kept(all))
<1>1. pc = "done" /\ ProtoInv
    BY DEF BuildsInv
<1>2. all \in Seq(Rpc) /\ Seen(s) = Len(all)
    BY <1>1, SeenWithin DEF ProtoInv, Seen
<1>3. SelectAt(all, LAMBDA k : ~SkippedIn(s, all[k])) = rpcs
    <2>. DEFINE I == {k \in DOMAIN all : ~SkippedIn(s, all[k])}
    <2>1. SelectAt(all, LAMBDA k : ~SkippedIn(s, all[k])) = Picked(all, I)
        BY DEF SelectAt, Picked, Pieces
    <2>2. ASSUME NEW k \in DOMAIN all PROVE k \in I <=> k \in Kept(all)
        <3>1. k \in 1..Seen(s)
            BY <1>2
        <3>. QED
            BY <1>1, <3>1, SkippedExactly DEF ProtoInv
    <2>. HIDE DEF all, I
    <2>3. Picked(all, I) = Picked(all, Kept(all))
        BY <2>2, PickedSame
    <2>. QED
        BY <2>1, <2>3 DEF all
<1>4. out[s].methods = Written(rpcs)
    <2>1. s \in DOMAIN out
        BY AllInterfacesFound
    <2>2. out[s].methods = Written(Picked(SubSeq(all, 1, Seen(s)), Kept(all)))
        BY <1>1, <2>1 DEF ProtoInv, WrittenInv, WrittenOf
    <2>. HIDE DEF all
    <2>3. SubSeq(all, 1, Seen(s)) = all
        BY <1>2
    <2>. QED
        BY <2>2, <2>3
<1>5. \A k \in DOMAIN rpcs : Flattens(rpcs[k].req) /\ Flattens(rpcs[k].resp)
    <2>. DEFINE Kind == {m \in Rpc : WhySkipped(m) = ""}
    <2>. HIDE DEF all
    <2>1. \A k \in DOMAIN all : k \in Kept(all) => all[k] \in Kind
        <3>1. \A k \in DOMAIN all : all[k] \in Rpc
            BY <1>2
        <3>2. \A k \in Kept(all) : WhySkipped(all[k]) = ""
            BY DEF Kept
        <3>. QED
            BY <3>1, <3>2
    <2>. HIDE DEF Kind
    <2>2. rpcs \in Seq(Kind)
        BY <1>2, <2>1, PickedWithin
    <2>3. \A k \in DOMAIN rpcs : WhySkipped(rpcs[k]) = ""
        <3>. HIDE DEF rpcs
        <3>1. \A k \in DOMAIN rpcs : rpcs[k] \in Kind
            BY <2>2
        <3>. QED
            BY <3>1 DEF Kind
    <2>. QED
        BY <2>3 DEF WhySkipped
<1>6. ASSUME Text = stripComments(file), NEW path, PlainMessage(path), Flattens(path)
      PROVE  Says(flatten(path), path)
    BY <1>1, <1>6, PlainFlattens DEF ProtoInv
<1>. HIDE DEF rpcs
<1>7. \A k \in DOMAIN rpcs : /\ k \in DOMAIN out[s].methods
                             /\ out[s].methods[k].name = LowerFirst[rpcs[k].name]
                             /\ out[s].methods[k].params = flatten(rpcs[k].req)
                             /\ out[s].methods[k].results = flatten(rpcs[k].resp)
    BY <1>4 DEF Written
<1>8. /\ DOMAIN model[s].methods = DOMAIN out[s].methods
      /\ DOMAIN out[s].methods = DOMAIN rpcs
    BY <1>4, ClientHasAll DEF Written
<1>9. ASSUME NEW k \in DOMAIN rpcs
      PROVE  /\ model[s].methods[k].name = LowerFirst[rpcs[k].name]
             /\ Untyped(model[s].methods[k].params) = flatten(rpcs[k].req)
             /\ Untyped(model[s].methods[k].results) = flatten(rpcs[k].resp)
    BY <1>7, ClientHasAll
<1>. QED
    BY <1>3, <1>5, <1>6, <1>8, <1>9 DEF all

\* For any texts whose services declare no rpc twice and any number of builds:
\* Generate accepts all that ToCapnp writes and supports each method of it, so that
\* an rpc is either named in the skipped list or a method of the typed client, with
\* exactly the fields of its messages if they are plain (main.go:42-62).
THEOREM RpcsReach == BuildsSpec => [](RpcNamesDistinct => RpcsReachClient)
    BY CarriedOver, InvReach, PTL

==============================================================================
