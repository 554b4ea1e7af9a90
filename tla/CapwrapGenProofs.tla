--------------------------- MODULE CapwrapGenProofs ---------------------------
(* Theorems about CapwrapGen: what runs of the command leave behind, however   *)
(* many processes overlap, wherever they read and write each other's halves,   *)
(* and whatever the files said before.                                         *)
EXTENDS CapwrapGen, TLAPS

Done == {"ok", "noted"}

\* The runs that have taken up the source, and may have changed the .capnp; those
\* that have accepted a text; and those that have opened the wrapper.
Accepted == {"openWrapper", "writeWrapper", "restWrapper", "check"} \cup Done
Rewrote  == {"writeCapnp", "restCapnp", "read", "generate"} \cup Accepted
Opened   == {"writeWrapper", "restWrapper", "check"} \cup Done

In(states) == \E p \in Procs : pc[p] \in states

\* A file of which each half is missing or that of v.
Parts(v) == {Nothing, v} \X {Nothing, v}

\* Only runs on a .proto write a .capnp, and they write what the .proto says.
CapnpComesFromProto ==
    \A p \in Procs :
        /\ pc[p] \in {"translate", "openCapnp", "writeCapnp", "restCapnp"}
             => arg = "proto"
        /\ pc[p] \in {"openCapnp", "writeCapnp", "restCapnp"}
             => held[p] = proto /\ proto \in Versions

\* From the first truncation on, what there is of the .capnp says what the .proto
\* says; and while a half is missing a run that will fill it is under way.
CapnpInWork ==
    arg = "proto" /\ In(Rewrote) =>
        /\ proto \in Versions
        /\ capnp \in Parts(proto)
        /\ capnp[1] = Nothing => In({"writeCapnp"})
        /\ capnp[2] = Nothing => In({"writeCapnp", "restCapnp"})

\* The half that has been read is the source's; or it was missing, which only an
\* overlapping run can have caused.
HalfOfSource ==
    \A p \in Procs :
        pc[p] = "generate" =>
            /\ arg = "proto" => \/ held[p] = proto
                                \/ held[p] = Nothing /\ Overlapped
            /\ arg = "capnp" => held[p] = capnp[1]

\* A text that was accepted is the source's, or it was torn.
AcceptedSource ==
    \A p \in Procs :
        pc[p] \in Accepted =>
            \/ held[p] = Source /\ Source \in Generates
            \/ held[p] = Torn /\ "torn" \in trouble

\* And then the source was torn itself, or runs overlapped.
TornByOverlap ==
    "torn" \in trouble => \/ arg = "proto" /\ Overlapped
                          \/ arg = "capnp" /\ Source = Torn

\* The same as CapnpInWork for the wrapper, which is as it was before the first
\* run opened it.
WrapperInWork ==
    /\ "torn" \notin trouble /\ In(Opened) =>
          /\ wrapper \in Parts(Source)
          /\ wrapper[1] = Nothing => In({"writeWrapper"})
          /\ wrapper[2] = Nothing => In({"writeWrapper", "restWrapper"})
    /\ wrapper = before \/ In(Opened)

\* A run that is under way and has read nothing but the source, or has succeeded.
GoesOn(p) ==
    /\ pc[p] \in Running \cup Done
    /\ pc[p] = "generate" => held[p] = Source

\* Of runs on a good source, one goes on: they can only fail on a .capnp that
\* another is about to fill.
OneGoesOn ==
    trouble \subseteq {"torn"} /\ Source \in Generates
      /\ (arg = "proto" => Source \in Translates) /\ In(Running \cup Ended)
      => \E p \in Procs : GoesOn(p)

InWork ==
    /\ CapnpComesFromProto
    /\ CapnpInWork
    /\ HalfOfSource
    /\ AcceptedSource
    /\ TornByOverlap
    /\ WrapperInWork
    /\ OneGoesOn

Undisturbed == trouble \subseteq {"denied", "torn"}

\* The inductive invariant: all of this, unless something disturbed the runs.
GenInv ==
    /\ TypeOK
    /\ Undisturbed => InWork

-----------------------------------------------------------------------------
(* Every step preserves the invariant.                                       *)

\* What a file with two halves says.
LEMMA SaysHalves ==
    ASSUME NEW a \in Halves, NEW b \in Halves
    PROVE  Says(<<a, b>>) = IF a = b THEN a ELSE Torn
BY CapwrapGenAssumption DEF Says

\* What a content says is half a text, or that there is no file.
LEMMA SaysTyped ==
    ASSUME NEW content \in Contents
    PROVE  Says(content) \in Halves \cup {NoFile}
BY DEF Says, Contents, Halves

\* Steps keep the types, and no file goes away.
LEMMA TypeKept ==
    ASSUME TypeOK, [Next]_vars
    PROVE  TypeOK'
<1>. USE CapwrapGenAssumption
     DEF TypeOK, Contents, Empty, Ended, Running, Goto, files, batchVars
<1>1. ASSUME NEW p \in Procs, NEW a \in {"proto", "capnp"},
             BeginBatch(p, a) \/ JoinBatch(p, a)
      PROVE  TypeOK'
    <2>1. FirstStep(a) \in {"translate", "read"}
        BY DEF FirstStep
    <2>2. CASE BeginBatch(p, a)
        BY <2>1, <2>2 DEF BeginBatch
    <2>3. CASE JoinBatch(p, a)
        BY <2>1, <2>3 DEF JoinBatch
    <2>. QED
        BY <1>1, <2>2, <2>3
<1>2. ASSUME NEW v \in Versions, EditProto(v) \/ EditCapnp(v) PROVE TypeOK'
    <2>1. Whole(v) \in Halves \X Halves
        BY DEF Whole, Halves
    <2>. QED
        BY <1>2, <2>1 DEF EditProto, EditCapnp
<1>3. CASE Compile
    BY <1>3 DEF Compile
<1>4. ASSUME NEW p \in Procs, Translate(p) \/ Read(p) \/ CheckArtifacts(p)
      PROVE  TypeOK'
    <2>1. CASE Translate(p)
        BY <2>1 DEF Translate, Halves
    <2>2. CASE Read(p)
        BY <2>2 DEF Read
    <2>3. CASE CheckArtifacts(p)
        BY <2>3 DEF CheckArtifacts
    <2>. QED
        BY <1>4, <2>1, <2>2, <2>3
<1>5. ASSUME NEW p \in Procs, Generate(p) PROVE TypeOK'
    <2> DEFINE text == Says(<<held[p], capnp[2]>>)
    <2>1. text \in Generates \cup {Torn} => text \in Halves
        BY DEF Halves
    <2>2. pc' \in [Procs -> {"idle"} \cup Running \cup Ended]
          /\ held' \in [Procs -> Halves \cup {NoFile}]
        BY <1>5, <2>1 DEF Generate
    <2>3. trouble' \subseteq {"denied", "torn", "broken", "edited", "mixed"}
        BY <1>5 DEF Generate
    <2>4. \A q \in Procs : pc'[q] = pc[q] \/ pc'[q] \in {"openWrapper", "failed"}
        BY <1>5 DEF Generate
    <2>5. \A q \in Procs : q = p \/ held'[q] = held[q]
        BY <1>5 DEF Generate
    <2>6. pc'[p] = "openWrapper" => held'[p] # NoFile
        BY <1>5, <2>1 DEF Generate, Halves
    <2>7. pc'[p] \in {"openWrapper", "failed"}
        BY <1>5 DEF Generate
    <2>. QED
        BY <1>5, <2>2, <2>3, <2>4, <2>5, <2>6, <2>7 DEF Generate, LeaveWrapper
<1>6. ASSUME NEW p \in Procs, OpenCapnp(p) \/ OpenWrapper(p) PROVE TypeOK'
    <2>1. <<Nothing, Nothing>> \in Halves \X Halves
        BY DEF Halves
    <2>2. CASE OpenCapnp(p)
        BY <2>1, <2>2 DEF OpenCapnp, TruncateCapnp
    <2>3. CASE OpenWrapper(p)
        BY <2>1, <2>3 DEF OpenWrapper
    <2>. QED
        BY <1>6, <2>2, <2>3
<1>7. ASSUME NEW p \in Procs, WriteCapnp(p) \/ WriteWrapper(p) PROVE TypeOK'
    <2>1. held[p] \in Halves
        BY <1>7 DEF WriteCapnp, WriteWrapper
    <2>2. ASSUME NEW content \in Halves \X Halves
          PROVE  /\ FirstHalf(content, held[p]) \in Halves \X Halves
                 /\ SecondHalf(content, held[p]) \subseteq Halves \X Halves
        BY <2>1 DEF FirstHalf, SecondHalf
    <2>3. CASE WriteCapnp(p)
        <3>1. capnp' \in Halves \X Halves
            BY <2>2, <2>3 DEF WriteCapnp
        <3>. QED
            BY <2>1, <2>3, <3>1 DEF WriteCapnp
    <2>4. CASE WriteWrapper(p)
        <3>1. wrapper' \in Halves \X Halves
            BY <2>2, <2>4 DEF WriteWrapper
        <3>. QED
            BY <2>1, <2>4, <3>1 DEF WriteWrapper
    <2>. QED
        BY <1>7, <2>3, <2>4
<1>8. ASSUME NEW p \in Procs, Denied(p) PROVE TypeOK'
    BY <1>8 DEF Denied
<1>9. ASSUME NEW p \in Procs, NEW to \in {"failed", "crashed"}, Break(p, to)
      PROVE  TypeOK'
    BY <1>9 DEF Break
<1>10. CASE UNCHANGED vars
    BY <1>10 DEF vars
<1>. QED
    BY <1>1, <1>2, <1>3, <1>4, <1>5, <1>6, <1>7, <1>8, <1>9, <1>10
       DEF Next, Developer, Run, Fault, WriteFails, Crash

\* A run that fails to translate the source shows that it is not a good one.
LEMMA TranslateKeeps ==
    ASSUME TypeOK, InWork, NEW p \in Procs, Translate(p)
    PROVE  InWork'
<1>. USE DEF TypeOK, InWork, Source, In, Goto, files, batchVars,
        Translate
<1>1. CapnpComesFromProto'
    BY CapwrapGenAssumption DEF CapnpComesFromProto
<1>2. CapnpInWork'
    BY DEF CapnpInWork, Rewrote, Accepted, Done, Parts
<1>3. HalfOfSource'
    BY DEF HalfOfSource, Overlapped
<1>4. AcceptedSource'
    BY DEF AcceptedSource, Accepted, Done
<1>5. TornByOverlap'
    BY DEF TornByOverlap, Overlapped
<1>6. WrapperInWork'
    BY DEF WrapperInWork, Opened, Done, Parts
<1>7. OneGoesOn'
    BY DEF OneGoesOn, GoesOn, Running, Ended, Done, CapnpComesFromProto
<1>. QED
    BY <1>1, <1>2, <1>3, <1>4, <1>5, <1>6, <1>7

\* A run that empties the .capnp is the one that will fill it.
LEMMA OpenCapnpKeeps ==
    ASSUME TypeOK, InWork, NEW p \in Procs, OpenCapnp(p)
    PROVE  InWork'
<1>. USE DEF TypeOK, InWork, Source, In, Goto, files, batchVars,
        OpenCapnp, TruncateCapnp, Empty
<1>1. CapnpComesFromProto'
    BY DEF CapnpComesFromProto
<1>2. CapnpInWork'
    BY DEF CapnpInWork, Rewrote, Accepted, Done, Parts,
        CapnpComesFromProto
<1>3. HalfOfSource'
    BY DEF HalfOfSource, Overlapped, CapnpComesFromProto
<1>4. AcceptedSource'
    BY DEF AcceptedSource, Accepted, Done, CapnpComesFromProto
<1>5. TornByOverlap'
    BY DEF TornByOverlap, Overlapped, CapnpComesFromProto
<1>6. WrapperInWork'
    BY DEF WrapperInWork, Opened, Done, Parts, CapnpComesFromProto
<1>7. OneGoesOn'
    BY DEF OneGoesOn, GoesOn, Running, Ended, Done, CapnpComesFromProto
<1>. QED
    BY <1>1, <1>2, <1>3, <1>4, <1>5, <1>6, <1>7

\* Over nothing, or over the same text, a write leaves what the .proto says.
LEMMA WriteCapnpKeeps ==
    ASSUME TypeOK, InWork, NEW p \in Procs, WriteCapnp(p)
    PROVE  InWork'
<1>. USE DEF TypeOK, InWork, Source, In, Goto, files, batchVars,
        WriteCapnp, FirstHalf, SecondHalf
<1>1. CapnpComesFromProto'
    BY DEF CapnpComesFromProto
<1>2. CapnpInWork'
    BY CapwrapGenAssumption DEF CapnpInWork, Rewrote, Accepted, Done, Parts,
        CapnpComesFromProto
<1>3. HalfOfSource'
    BY DEF HalfOfSource, Overlapped, CapnpComesFromProto
<1>4. AcceptedSource'
    BY DEF AcceptedSource, Accepted, Done, CapnpComesFromProto
<1>5. TornByOverlap'
    BY DEF TornByOverlap, Overlapped, CapnpComesFromProto
<1>6. WrapperInWork'
    BY DEF WrapperInWork, Opened, Done, Parts, CapnpComesFromProto
<1>7. OneGoesOn'
    BY DEF OneGoesOn, GoesOn, Running, Ended, Done, CapnpComesFromProto
<1>. QED
    BY <1>1, <1>2, <1>3, <1>4, <1>5, <1>6, <1>7

\* A run finds half of the source, or that another run has yet to write it.
LEMMA ReadKeeps ==
    ASSUME TypeOK, InWork, NEW p \in Procs, Read(p)
    PROVE  InWork'
<1>. USE DEF TypeOK, InWork, Source, In, Goto, files, batchVars,
        Read, Empty, Contents
<1>1. CapnpComesFromProto'
    BY DEF CapnpComesFromProto
<1>2. CapnpInWork'
    BY DEF CapnpInWork, Rewrote, Accepted, Done, Parts
<1>3. HalfOfSource'
    BY DEF HalfOfSource, Overlapped, CapnpInWork, Rewrote, Parts
<1>4. AcceptedSource'
    BY DEF AcceptedSource, Accepted, Done
<1>5. TornByOverlap'
    BY DEF TornByOverlap, Overlapped
<1>6. WrapperInWork'
    BY DEF WrapperInWork, Opened, Done, Parts
<1>7. OneGoesOn'
    <2>. USE DEF Running, Ended, Done
    <2>1. CASE arg = "proto" /\ capnp[1] = Nothing
        <3>1. PICK q \in Procs : pc[q] = "writeCapnp"
            BY <2>1 DEF CapnpInWork, Rewrote
        <3>2. GoesOn(q)'
            BY <3>1 DEF GoesOn
        <3>. QED
            BY <3>2 DEF OneGoesOn
    <2>2. CASE arg = "proto" /\ capnp[1] # Nothing
        <3>1. capnp \notin {NoFile, Empty} /\ capnp[1] = proto
            BY <2>2, CapwrapGenAssumption DEF CapnpInWork, Rewrote, Parts, Halves
        <3>2. GoesOn(p)'
            BY <2>2, <3>1 DEF GoesOn
        <3>. QED
            BY <3>2 DEF OneGoesOn
    <2>3. CASE arg = "capnp"
        <3>1. ASSUME Source \in Generates PROVE GoesOn(p)'
            <4>1. capnp \notin {NoFile, Empty} /\ capnp[1] = Source
                BY <2>3, <3>1, CapwrapGenAssumption DEF Says, Halves
            <4>. QED
                BY <2>3, <4>1 DEF GoesOn
        <3>. QED
            BY <2>3, <3>1 DEF OneGoesOn
    <2>. QED
        BY <2>1, <2>2, <2>3
<1>. QED
    BY <1>1, <1>2, <1>3, <1>4, <1>5, <1>6, <1>7

\* Of a good source a run can reject only a text in which another run has yet to
\* write something.
LEMMA GenerateKeeps ==
    ASSUME TypeOK, InWork, NEW p \in Procs, Generate(p)
    PROVE  InWork'
<1>. USE DEF TypeOK, InWork, Source, In, Goto, files, batchVars, LeaveWrapper
<1>. DEFINE text == Says(<<held[p], capnp[2]>>)
<1>1. CapnpComesFromProto'
    BY DEF CapnpComesFromProto, Generate
<1>2. CapnpInWork'
    BY DEF CapnpInWork, Rewrote, Accepted, Done, Generate
<1>3. HalfOfSource'
    BY DEF HalfOfSource, Overlapped, Generate
<1>4. /\ pc[p] = "generate"
      /\ held[p] \in Halves /\ capnp \in Halves \X Halves
      /\ text = IF held[p] = capnp[2] THEN held[p] ELSE Torn
    <2>1. pc[p] = "generate" /\ held[p] \in Halves /\ capnp \in Halves \X Halves
        BY DEF Generate, Running, Contents
    <2>. QED
        BY <2>1, SaysHalves
<1>5. ASSUME arg = "capnp" PROVE AcceptedSource' /\ TornByOverlap' /\ OneGoesOn'
    <2>1. text = Source /\ Source' = Source
        BY <1>4, <1>5 DEF HalfOfSource, Generate, Says
    <2>2. AcceptedSource'
        BY <1>5, <2>1, <1>4 DEF AcceptedSource, Accepted, Done, Generate
    <2>3. TornByOverlap'
        BY <1>5, <2>1 DEF TornByOverlap, Generate
    <2>4. OneGoesOn'
        BY <1>5, <2>1 DEF OneGoesOn, GoesOn, Running, Ended, Done, Generate
    <2>. QED
        BY <2>2, <2>3, <2>4
<1>6. ASSUME arg = "proto" PROVE AcceptedSource' /\ TornByOverlap' /\ OneGoesOn'
    <2>1. Source' = Source /\ capnp \in Parts(proto) /\ proto \in Versions
          /\ UNCHANGED <<arg, proto, capnp>>
        BY <1>4, <1>6 DEF Generate, CapnpInWork, Rewrote
    <2>2. text \in Generates => text = proto
        BY <1>4, <1>6, <2>1, CapwrapGenAssumption DEF Parts, HalfOfSource
    <2>3. AcceptedSource'
        BY <1>4, <1>6, <2>1, <2>2 DEF AcceptedSource, Accepted, Done, Generate
    <2>4. capnp[2] = Nothing =>
              \E q \in Procs : q # p /\ pc[q] \in {"writeCapnp", "restCapnp"}
        BY <1>4, <1>6 DEF CapnpInWork, Rewrote
    <2>5. text = Torn => Overlapped
        BY <1>4, <1>6, <2>1, <2>4, CapwrapGenAssumption
           DEF Parts, HalfOfSource, Overlapped
    <2>6. Overlapped => Overlapped'
        BY DEF Overlapped, Generate
    <2>7. TornByOverlap'
        BY <1>6, <2>1, <2>5, <2>6 DEF TornByOverlap, Generate
    <2>8. OneGoesOn'
        <3>1. SUFFICES ASSUME Source \in Generates, \E q \in Procs : GoesOn(q)
                       PROVE  \E q \in Procs : GoesOn(q)'
            BY <1>4, <1>6, <2>1 DEF OneGoesOn, Running, Ended, Generate
        <3>2. PICK q \in Procs : GoesOn(q)
            BY <3>1
        <3>3. CASE q # p
            BY <3>2, <3>3, <2>1 DEF GoesOn, Generate
        <3>4. CASE q = p /\ capnp[2] = Nothing
            <4>1. PICK r \in Procs : r # p /\ pc[r] \in {"writeCapnp", "restCapnp"}
                BY <2>4, <3>4
            <4>2. GoesOn(r)'
                BY <4>1 DEF GoesOn, Generate, Running
            <4>. QED
                BY <4>2
        <3>5. CASE q = p /\ capnp[2] # Nothing
            <4>1. text = Source
                BY <1>4, <1>6, <2>1, <3>2, <3>5 DEF GoesOn, Parts
            <4>2. pc'[p] = "openWrapper"
                BY <3>1, <4>1 DEF Generate
            <4>. QED
                BY <3>5, <4>2 DEF GoesOn, Running
        <3>. QED
            BY <3>3, <3>4, <3>5
    <2>. QED
        BY <2>3, <2>7, <2>8
<1>7. AcceptedSource' /\ TornByOverlap' /\ OneGoesOn'
    BY <1>5, <1>6
<1>8. WrapperInWork'
    BY <1>4 DEF WrapperInWork, Opened, Done, Generate
<1>. QED
    BY <1>1, <1>2, <1>3, <1>7, <1>8

\* A run that empties the wrapper holds the source, and will write it.
LEMMA OpenWrapperKeeps ==
    ASSUME TypeOK, InWork, NEW p \in Procs, OpenWrapper(p)
    PROVE  InWork'
<1>. USE DEF TypeOK, InWork, Source, In, Goto, files, batchVars,
        OpenWrapper, Empty
<1>1. CapnpComesFromProto'
    BY DEF CapnpComesFromProto
<1>2. CapnpInWork'
    BY DEF CapnpInWork, Rewrote, Accepted, Done, Parts
<1>3. HalfOfSource'
    BY DEF HalfOfSource, Overlapped
<1>4. AcceptedSource'
    BY DEF AcceptedSource, Accepted, Done
<1>5. TornByOverlap'
    BY DEF TornByOverlap, Overlapped
<1>6. WrapperInWork'
    BY DEF WrapperInWork, Opened, Done, Parts, AcceptedSource, Accepted
<1>7. OneGoesOn'
    BY DEF OneGoesOn, GoesOn, Running, Ended, Done
<1>. QED
    BY <1>1, <1>2, <1>3, <1>4, <1>5, <1>6, <1>7

\* Over nothing, or over the same text, a write leaves what was accepted.
LEMMA WriteWrapperKeeps ==
    ASSUME TypeOK, InWork, NEW p \in Procs, WriteWrapper(p)
    PROVE  InWork'
<1>. USE DEF TypeOK, InWork, Source, In, Goto, files, batchVars,
        WriteWrapper, FirstHalf, SecondHalf
<1>1. CapnpComesFromProto'
    BY DEF CapnpComesFromProto
<1>2. CapnpInWork'
    BY DEF CapnpInWork, Rewrote, Accepted, Done, Parts
<1>3. HalfOfSource'
    BY DEF HalfOfSource, Overlapped
<1>4. AcceptedSource'
    BY DEF AcceptedSource, Accepted, Done
<1>5. TornByOverlap'
    BY DEF TornByOverlap, Overlapped
<1>6. WrapperInWork'
    BY CapwrapGenAssumption DEF WrapperInWork, Opened, Done, Parts,
        AcceptedSource, Accepted, Halves
<1>7. OneGoesOn'
    BY DEF OneGoesOn, GoesOn, Running, Ended, Done
<1>. QED
    BY <1>1, <1>2, <1>3, <1>4, <1>5, <1>6, <1>7

\* The note about missing bindings changes no file.
LEMMA CheckArtifactsKeeps ==
    ASSUME TypeOK, InWork, NEW p \in Procs, CheckArtifacts(p)
    PROVE  InWork'
<1>. USE DEF TypeOK, InWork, Source, In, Goto, files, batchVars,
        CheckArtifacts
<1>1. CapnpComesFromProto'
    BY DEF CapnpComesFromProto
<1>2. CapnpInWork'
    BY DEF CapnpInWork, Rewrote, Accepted, Done, Parts
<1>3. HalfOfSource'
    BY DEF HalfOfSource, Overlapped
<1>4. AcceptedSource'
    BY DEF AcceptedSource, Accepted, Done
<1>5. TornByOverlap'
    BY DEF TornByOverlap, Overlapped
<1>6. WrapperInWork'
    BY DEF WrapperInWork, Opened, Done, Parts
<1>7. OneGoesOn'
    BY DEF OneGoesOn, GoesOn, Running, Ended, Done
<1>. QED
    BY <1>1, <1>2, <1>3, <1>4, <1>5, <1>6, <1>7

\* A run that is denied a file neither was to fill one nor counts as untroubled.
LEMMA DeniedKeeps ==
    ASSUME TypeOK, InWork, NEW p \in Procs, Denied(p)
    PROVE  InWork'
<1>. USE DEF TypeOK, InWork, Source, In, Goto, files, batchVars,
        Denied
<1>1. CapnpComesFromProto'
    BY DEF CapnpComesFromProto
<1>2. CapnpInWork'
    BY DEF CapnpInWork, Rewrote, Accepted, Done, Parts
<1>3. HalfOfSource'
    BY DEF HalfOfSource, Overlapped
<1>4. AcceptedSource'
    BY DEF AcceptedSource, Accepted, Done
<1>5. TornByOverlap'
    BY DEF TornByOverlap, Overlapped
<1>6. WrapperInWork'
    BY DEF WrapperInWork, Opened, Done, Parts
<1>7. OneGoesOn'
    BY DEF OneGoesOn, GoesOn, Running, Ended, Done
<1>. QED
    BY <1>1, <1>2, <1>3, <1>4, <1>5, <1>6, <1>7

\* The first run of a batch has not touched anything yet.
LEMMA BeginKeeps ==
    ASSUME TypeOK, NEW p \in Procs, NEW a \in {"proto", "capnp"}, BeginBatch(p, a)
    PROVE  InWork'
<1>1. pc' = [q \in Procs |-> IF q = p THEN FirstStep(a) ELSE "idle"]
      /\ arg' = a /\ before' = wrapper /\ trouble' = {} /\ UNCHANGED files
    BY DEF BeginBatch
<1>2. CapnpComesFromProto' /\ HalfOfSource' /\ AcceptedSource' /\ TornByOverlap'
    BY <1>1 DEF CapnpComesFromProto, HalfOfSource, AcceptedSource, TornByOverlap,
        Accepted, Done, FirstStep
<1>3. CapnpInWork' /\ WrapperInWork'
    BY <1>1 DEF CapnpInWork, WrapperInWork, Rewrote, Accepted, Opened, Done, In,
        FirstStep, files
<1>4. OneGoesOn'
    BY <1>1 DEF OneGoesOn, GoesOn, Running, FirstStep
<1>. QED
    BY <1>2, <1>3, <1>4 DEF InWork

\* One that joins with the same argument has not, either.
LEMMA JoinKeeps ==
    ASSUME TypeOK, InWork, NEW p \in Procs, JoinBatch(p, arg)
    PROVE  InWork'
<1>. USE DEF TypeOK, InWork, In, FirstStep, JoinBatch, Source, files
<1>1. CapnpComesFromProto'
    BY DEF CapnpComesFromProto
<1>2. CapnpInWork'
    BY DEF CapnpInWork, Rewrote, Accepted, Done
<1>3. HalfOfSource'
    BY DEF HalfOfSource, Overlapped
<1>4. AcceptedSource'
    BY DEF AcceptedSource, Accepted, Done
<1>5. TornByOverlap'
    BY DEF TornByOverlap, Overlapped
<1>6. WrapperInWork'
    BY DEF WrapperInWork, Opened, Done
<1>7. OneGoesOn'
    BY DEF OneGoesOn, GoesOn, Running, Ended, Done, Quiet
<1>. QED
    BY <1>1, <1>2, <1>3, <1>4, <1>5, <1>6, <1>7

\* Nothing of it is about the bindings.
LEMMA CompileKeeps ==
    ASSUME InWork, Compile \/ UNCHANGED vars
    PROVE  InWork'
<1>1. UNCHANGED <<proto, capnp, wrapper, pc, held, arg, trouble, before>>
    BY DEF Compile, vars, files, batchVars
<1>. QED
    BY <1>1 DEF InWork, CapnpComesFromProto, CapnpInWork, HalfOfSource,
        AcceptedSource, TornByOverlap, WrapperInWork, OneGoesOn, GoesOn, In,
        Source, Overlapped

\* Every step keeps the inductive invariant: that of a run was looked at above,
\* and a step that disturbs the runs leaves nothing to show.
LEMMA GenInvKept ==
    ASSUME GenInv, [Next]_vars
    PROVE  GenInv'
<1>1. TypeOK'
    BY TypeKept DEF GenInv
<1>2. ASSUME Undisturbed' PROVE InWork'
    <2>1. ASSUME NEW p \in Procs, Run(p) PROVE InWork'
        <3>1. InWork
            BY <1>2, <2>1 DEF GenInv, Undisturbed, Run, Translate, OpenCapnp,
                WriteCapnp, Read, Generate, OpenWrapper, WriteWrapper, CheckArtifacts,
                batchVars
        <3>. QED
            BY <2>1, <3>1, TranslateKeeps, OpenCapnpKeeps, WriteCapnpKeeps,
               ReadKeeps, GenerateKeeps, OpenWrapperKeeps, WriteWrapperKeeps,
               CheckArtifactsKeeps
               DEF GenInv, Run
    <2>2. ASSUME NEW p \in Procs, Denied(p) PROVE InWork'
        <3>1. InWork
            BY <1>2, <2>2 DEF GenInv, Undisturbed, Denied
        <3>. QED
            BY <2>2, <3>1, DeniedKeeps DEF GenInv
    <2>3. ASSUME NEW p \in Procs, NEW a \in {"proto", "capnp"}, BeginBatch(p, a)
          PROVE  InWork'
        BY <2>3, BeginKeeps DEF GenInv
    <2>4. ASSUME NEW p \in Procs, NEW a \in {"proto", "capnp"}, JoinBatch(p, a)
          PROVE  InWork'
        <3>1. a = arg /\ InWork
            BY <1>2, <2>4 DEF GenInv, Undisturbed, JoinBatch
        <3>. QED
            BY <2>4, <3>1, JoinKeeps DEF GenInv
    <2>5. CASE Compile \/ UNCHANGED vars
        <3>1. InWork
            BY <1>2, <2>5 DEF GenInv, Undisturbed, Compile, vars, batchVars
        <3>. QED
            BY <2>5, <3>1, CompileKeeps
    <2>6. ASSUME NEW p \in Procs, NEW to \in {"failed", "crashed"}, Break(p, to)
          PROVE  FALSE
        BY <1>2, <2>6 DEF Break, Undisturbed
    <2>7. ASSUME NEW v \in Versions, EditProto(v) \/ EditCapnp(v) PROVE FALSE
        BY <1>2, <2>7 DEF EditProto, EditCapnp, Undisturbed
    <2>. QED
        BY <2>1, <2>2, <2>3, <2>4, <2>5, <2>6, <2>7
           DEF Next, Developer, Fault, WriteFails, Crash
<1>. QED
    BY <1>1, <1>2 DEF GenInv

-----------------------------------------------------------------------------
(* What follows for runs that have ended.                                    *)

\* GenInv is an invariant, for any processes and any versions of the schema.
THEOREM GenInvariant == Spec => []GenInv
<1>1. Init => GenInv
    BY DEF Init, GenInv, TypeOK, Contents, InWork, CapnpComesFromProto, CapnpInWork,
        HalfOfSource, AcceptedSource, TornByOverlap, WrapperInWork, OneGoesOn, In,
        Rewrote, Accepted, Opened, Running, Ended, Done
<1>2. GenInv /\ [Next]_vars => GenInv'
    BY GenInvKept
<1>. QED
    BY <1>1, <1>2, PTL DEF Spec

\* A file whose halves are both there, and v's if anyone's, says what v says.
LEMMA PartsSay ==
    ASSUME NEW v \in Halves, NEW content \in Parts(v),
           content[1] # Nothing, content[2] # Nothing
    PROVE  Says(content) = v
<1>1. content = <<v, v>>
    BY DEF Parts
<1>. QED
    BY <1>1, SaysHalves

\* However many runs overlap, a success means that the .capnp says what the source
\* says, and so does the wrapper unless a run tore the .capnp for another.
THEOREM SuccessMeansAgreement == Spec => []RunsAgree
<1>1. ASSUME GenInv PROVE RunsAgree
    <2>. SUFFICES ASSUME Quiet, Succeeded, Undisturbed, Source # Torn
                  PROVE  /\ Says(capnp) = Source
                         /\ "torn" \notin trouble =>
                               Source \in Generates /\ Says(wrapper) = Source
                         /\ "torn" \in trouble => arg = "proto" /\ Overlapped
        BY DEF RunsAgree, Undisturbed
    <2>1. InWork /\ TypeOK
        BY <1>1 DEF GenInv
    <2>2. In(Done) /\ ~In({"writeCapnp", "restCapnp"}) /\ ~In({"writeCapnp"})
          /\ ~In({"writeWrapper", "restWrapper"}) /\ ~In({"writeWrapper"})
        BY DEF Quiet, Succeeded, In, Done, Running
    <2>3. In(Rewrote) /\ In(Accepted) /\ In(Opened)
        BY <2>2 DEF In, Rewrote, Accepted, Opened
    <2>4. Says(capnp) = Source
        <3>1. CASE arg = "proto"
            <4>1. proto \in Halves /\ capnp \in Parts(proto)
                  /\ capnp[1] # Nothing /\ capnp[2] # Nothing
                BY <2>1, <2>2, <2>3, <3>1 DEF InWork, CapnpInWork, Halves
            <4>. QED
                BY <3>1, <4>1, PartsSay DEF Source
        <3>2. CASE arg = "capnp"
            BY <3>2 DEF Source
        <3>. QED
            BY <2>1, <3>1, <3>2 DEF TypeOK
    <2>5. ASSUME "torn" \notin trouble
          PROVE  Source \in Generates /\ Says(wrapper) = Source
        <3>1. Source \in Generates
            BY <2>1, <2>3, <2>5 DEF InWork, AcceptedSource, In
        <3>2. Source \in Halves
            BY <3>1, CapwrapGenAssumption DEF Halves
        <3>3. wrapper \in Parts(Source) /\ wrapper[1] # Nothing /\ wrapper[2] # Nothing
            BY <2>1, <2>2, <2>3, <2>5 DEF InWork, WrapperInWork
        <3>. QED
            BY <3>1, <3>2, <3>3, PartsSay
    <2>6. "torn" \in trouble => arg = "proto" /\ Overlapped
        BY <2>1 DEF InWork, TornByOverlap
    <2>. QED
        BY <2>4, <2>5, <2>6
<1>. QED
    BY <1>1, GenInvariant, PTL

\* However many runs fail, they cost the developer no wrapper.
THEOREM FailureKeepsWrapper == Spec => []RejectedKeepsWrapper
<1>1. GenInv => RejectedKeepsWrapper
    BY DEF GenInv, InWork, WrapperInWork, Undisturbed, RejectedKeepsWrapper, Quiet,
        Succeeded, In, Opened, Done, Running
<1>. QED
    BY <1>1, GenInvariant, PTL

\* And they never all fail because of each other.
THEOREM NotAllFail == Spec => []SomeRunSucceeds
<1>1. ASSUME GenInv PROVE SomeRunSucceeds
    <2>1. SUFFICES ASSUME Quiet, trouble \subseteq {"torn"},
                          \E p \in Procs : pc[p] # "idle", Source \in Generates,
                          arg = "proto" => Source \in Translates
                   PROVE  Succeeded
        BY DEF SomeRunSucceeds
    <2>2. In(Running \cup Ended)
        BY <1>1, <2>1 DEF GenInv, TypeOK, In
    <2>3. PICK p \in Procs : pc[p] \in Running \cup Done
        BY <1>1, <2>1, <2>2 DEF GenInv, Undisturbed, InWork, OneGoesOn, GoesOn
    <2>. QED
        BY <2>1, <2>3 DEF Quiet, Succeeded, Done
<1>. QED
    BY <1>1, GenInvariant, PTL

\* Each half of a file holds a version of the schema, nothing, or less than a
\* version, and a file that is written or read stays where it is.
THEOREM GenTypeCorrect == Spec => []TypeOK
BY GenInvariant, PTL DEF GenInv

=============================================================================
