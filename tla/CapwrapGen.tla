------------------------------ MODULE CapwrapGen ------------------------------
(***************************************************************************)
(* The command capwrap-gen (cmd/capwrap-gen/main.go), run on one schema    *)
(* whose files lie in a directory: the .proto, if it was written in one,   *)
(* the .capnp, the bindings capnp compile makes of it, and the wrapper.    *)
(* Several processes may run at once, as under make -j or go generate, and *)
(* each may die at any point. Every file is written in place: os.WriteFile *)
(* truncates it and writes it part by part, os.ReadFile reads it part by   *)
(* part, and other processes may do the same in between.                   *)
(*                                                                         *)
(* What a text says is represented by the version of the schema it comes   *)
(* from: a .capnp "is" the .proto it was translated from, a wrapper the    *)
(* .capnp it was generated from. ProtoConv and Generator model what the    *)
(* two steps do to a version. A file that is written is a pair of parts,   *)
(* its two halves, each of some version or missing: two parts are the      *)
(* fewest that can be torn. The wrapper goes to its default place.         *)
(***************************************************************************)

CONSTANTS
    Procs,       \* processes that run the command
    Versions,    \* what the developer may write into the schema
    Translates,  \* the versions ToCapnp accepts
    Generates,   \* the versions Generate accepts
    NoFile,      \* there is no such file
    Nothing,     \* there is no text (yet) in this half
    Torn         \* what a text says whose halves do not belong together

Halves == Versions \cup {Nothing, Torn}

ASSUME CapwrapGenAssumption ==
    /\ Translates \subseteq Versions
    /\ Generates \subseteq Versions
    /\ Nothing # Torn
    /\ {Nothing, Torn} \cap Versions = {}
    /\ NoFile \notin Halves \cup (Halves \X Halves)

Contents == (Halves \X Halves) \cup {NoFile}

\* The contents of a file with the whole of a text, and of an empty one.
Whole(v) == <<v, v>>
Empty == <<Nothing, Nothing>>

\* What a content says.
Says(content) ==
    IF content = NoFile THEN NoFile
    ELSE IF content[1] = content[2] THEN content[1] ELSE Torn

VARIABLES
    proto,     \* the .proto
    capnp,     \* the .capnp
    wrapper,   \* the .capwrap.go
    bindings,  \* does the .capnp.go exist?
    pc,        \* where each process is
    held,      \* what each process has read last, of a .capnp perhaps half
    \* The runs that overlap, directly or through others, form a batch:
    arg,       \* its argument, "proto" or "capnp"
    trouble,   \* what went wrong during it or was changed since it began
    before     \* the wrapper when it began

files     == <<proto, capnp, wrapper, bindings>>
batchVars == <<arg, trouble, before>>
vars == <<files, pc, held, batchVars>>

Ended   == {"ok", "noted", "failed", "crashed"}
Running == {"translate", "openCapnp", "writeCapnp", "restCapnp", "read",
            "generate", "openWrapper", "writeWrapper", "restWrapper", "check"}

TypeOK ==
    /\ proto \in Versions \cup {NoFile}
    /\ capnp \in Contents
    /\ wrapper \in Contents
    /\ bindings \in BOOLEAN
    /\ pc \in [Procs -> {"idle"} \cup Running \cup Ended]
    /\ held \in [Procs -> Halves \cup {NoFile}]
    /\ arg \in {"proto", "capnp"}
    /\ trouble \subseteq {"denied", "torn", "broken", "edited", "mixed"}
    /\ before \in Contents
    /\ \A p \in Procs :
          /\ pc[p] \in {"writeCapnp", "restCapnp", "generate"} => capnp # NoFile
          /\ pc[p] \in {"writeWrapper", "restWrapper"} => wrapper # NoFile
          /\ pc[p] \in Running \ {"translate", "read", "check"} => held[p] # NoFile

Init ==
    /\ proto \in Versions \cup {NoFile}
    /\ capnp = NoFile
    /\ wrapper = NoFile
    /\ bindings = FALSE
    /\ pc = [p \in Procs |-> "idle"]
    /\ held = [p \in Procs |-> NoFile]
    /\ arg = "proto"
    /\ trouble = {}
    /\ before = NoFile

Quiet == \A p \in Procs : pc[p] \notin Running

-----------------------------------------------------------------------------
(* run, up to its schema.                                                    *)

FirstStep(a) == IF a = "proto" THEN "translate" ELSE "read"

\* A run that starts when all others have ended begins a new batch.
BeginBatch(p, a) ==
    /\ Quiet
    /\ pc' = [q \in Procs |-> IF q = p THEN FirstStep(a) ELSE "idle"]
    /\ held' = [q \in Procs |-> NoFile]
    /\ arg' = a
    /\ trouble' = {}
    /\ before' = wrapper
    /\ UNCHANGED files

\* One that starts later overlaps with those that have not.
JoinBatch(p, a) ==
    /\ ~Quiet /\ pc[p] = "idle"
    /\ pc' = [pc EXCEPT ![p] = FirstStep(a)]
    /\ trouble' = IF a = arg THEN trouble ELSE trouble \cup {"mixed"}
    /\ UNCHANGED <<files, held, arg, before>>

Goto(p, to) == pc' = [pc EXCEPT ![p] = to]

\* An I/O error, before anything was changed, ends the run.
Denied(p) ==
    /\ pc[p] \in {"translate", "openCapnp", "read", "generate", "openWrapper"}
    /\ Goto(p, "failed")
    /\ trouble' = trouble \cup {"denied"}
    /\ UNCHANGED <<files, held, arg, before>>

\* translateProto reads the .proto and translates it, or run ends.
Translate(p) ==
    /\ pc[p] = "translate"
    /\ \/ /\ proto \in Translates
          /\ held' = [held EXCEPT ![p] = proto]
          /\ Goto(p, "openCapnp")
       \/ /\ proto \notin Translates
          /\ Goto(p, "failed")
          /\ UNCHANGED held
    /\ UNCHANGED <<files, batchVars>>

-----------------------------------------------------------------------------
(* os.WriteFile: the file is truncated and its halves are written one after  *)
(* the other, each where it belongs, whatever other processes have done to   *)
(* the file since.                                                           *)

\* Fault: the .capnp is opened as it is, without O_CREATE and O_TRUNC.
OpenExisting(p) == UNCHANGED capnp /\ Goto(p, "writeCapnp")

\* Fault: the .capnp is opened with O_EXCL.
OpenExclusively(p) ==
    IF capnp = NoFile THEN capnp' = Empty /\ Goto(p, "writeCapnp")
    ELSE Goto(p, "failed") /\ UNCHANGED capnp

\* Fault: a .capnp that is there already is left alone.
KeepExisting(p) ==
    IF capnp = NoFile THEN capnp' = Empty /\ Goto(p, "writeCapnp")
    ELSE Goto(p, "read") /\ UNCHANGED capnp

TruncateCapnp(p) == capnp' = Empty /\ Goto(p, "writeCapnp")

OpenCapnp(p) ==
    /\ pc[p] = "openCapnp"
    /\ TruncateCapnp(p)
    /\ UNCHANGED <<proto, wrapper, bindings, held, batchVars>>

FirstHalf(content, v) == <<v, content[2]>>

\* Of a longer text that is there, the end may show behind the shorter one.
SecondHalf(content, v) ==
    {<<content[1], w>> : w \in {v} \cup ({content[2]} \ {Nothing})}

WriteCapnp(p) ==
    /\ \/ /\ pc[p] = "writeCapnp"
          /\ capnp' = FirstHalf(capnp, held[p])
          /\ Goto(p, "restCapnp")
       \/ /\ pc[p] = "restCapnp"
          /\ capnp' \in SecondHalf(capnp, held[p])
          /\ Goto(p, "read")
    /\ UNCHANGED <<proto, wrapper, bindings, held, batchVars>>

OpenWrapper(p) ==
    /\ pc[p] = "openWrapper"
    /\ wrapper' = Empty
    /\ Goto(p, "writeWrapper")
    /\ UNCHANGED <<proto, capnp, bindings, held, batchVars>>

WriteWrapper(p) ==
    /\ \/ /\ pc[p] = "writeWrapper"
          /\ wrapper' = FirstHalf(wrapper, held[p])
          /\ Goto(p, "restWrapper")
       \/ /\ pc[p] = "restWrapper"
          /\ wrapper' \in SecondHalf(wrapper, held[p])
          /\ Goto(p, "check")
    /\ UNCHANGED <<proto, capnp, bindings, held, batchVars>>

\* What was written before stays.
Break(p, to) ==
    /\ Goto(p, to)
    /\ trouble' = trouble \cup {"broken"}
    /\ UNCHANGED <<files, held, arg, before>>

\* A write fails, the first or a later one.
WriteFails(p) ==
    /\ pc[p] \in {"writeCapnp", "restCapnp", "writeWrapper", "restWrapper"}
    /\ Break(p, "failed")

Crash(p) == pc[p] \in Running /\ Break(p, "crashed")

-----------------------------------------------------------------------------
(* run, from its schema on: os.ReadFile reads the halves one after the other *)
(* and Generate is called on what was read.                                  *)

\* The first read finds text, or the run ends: without a file, or since there
\* is no interface in an empty one.
Read(p) ==
    /\ pc[p] = "read"
    /\ \/ /\ capnp \notin {NoFile, Empty}
          /\ held' = [held EXCEPT ![p] = capnp[1]]
          /\ Goto(p, "generate")
       \/ /\ capnp \in {NoFile, Empty}
          /\ Goto(p, "failed")
          /\ UNCHANGED held
    /\ UNCHANGED <<files, batchVars>>

\* Fault: the wrapper is opened before Generate is called.
OpenFirst(p) == wrapper' = Empty

LeaveWrapper(p) == UNCHANGED wrapper

\* The last read, and Generate. Of halves that do not belong together it may
\* make a wrapper all the same, in which something is missing or too much.
Generate(p) ==
    LET text == Says(<<held[p], capnp[2]>>) IN
    /\ pc[p] = "generate"
    /\ \/ /\ text \in Generates \cup {Torn}
          /\ held' = [held EXCEPT ![p] = text]
          /\ trouble' = IF text = Torn THEN trouble \cup {"torn"} ELSE trouble
          /\ Goto(p, "openWrapper")
       \/ /\ text \notin Generates
          /\ Goto(p, "failed")
          /\ UNCHANGED <<held, trouble>>
    /\ LeaveWrapper(p)
    /\ UNCHANGED <<proto, capnp, bindings, arg, before>>

\* checkCapnpArtifacts prints a note when the bindings are missing.
CheckArtifacts(p) ==
    /\ pc[p] = "check"
    /\ Goto(p, IF bindings THEN "ok" ELSE "noted")
    /\ UNCHANGED <<files, held, batchVars>>

-----------------------------------------------------------------------------
(* The developer.                                                            *)

EditProto(v) ==
    /\ proto' = v
    /\ trouble' = trouble \cup {"edited"}
    /\ UNCHANGED <<capnp, wrapper, bindings, pc, held, arg, before>>

EditCapnp(v) ==
    /\ capnp' = Whole(v)
    /\ trouble' = trouble \cup {"edited"}
    /\ UNCHANGED <<proto, wrapper, bindings, pc, held, arg, before>>

\* capnp compile makes bindings of a .capnp.
Compile ==
    /\ Says(capnp) \in Versions /\ ~bindings
    /\ bindings' = TRUE
    /\ UNCHANGED <<proto, capnp, wrapper, pc, held, batchVars>>

Developer ==
    \/ \E p \in Procs, a \in {"proto", "capnp"} :
          BeginBatch(p, a) \/ JoinBatch(p, a)
    \/ \E v \in Versions : EditProto(v) \/ EditCapnp(v)
    \/ Compile

Run(p) == \/ Translate(p) \/ OpenCapnp(p) \/ WriteCapnp(p)
          \/ Read(p) \/ Generate(p) \/ OpenWrapper(p) \/ WriteWrapper(p)
          \/ CheckArtifacts(p)

Fault(p) == Denied(p) \/ WriteFails(p) \/ Crash(p)

Next == Developer \/ \E p \in Procs : Run(p) \/ Fault(p)

Spec == Init /\ [][Next]_vars

-----------------------------------------------------------------------------
(* Properties.                                                               *)

\* Has a run of the batch reported success?
Succeeded == \E p \in Procs : pc[p] \in {"ok", "noted"}

\* What the batch was to make a wrapper of.
Source == IF arg = "proto" THEN proto ELSE Says(capnp)

\* Two runs of the batch overlapped.
Overlapped == \E p, q \in Procs : p # q /\ pc[p] # "idle" /\ pc[q] # "idle"

\* When runs with the same argument have ended and one of them reported success,
\* the .capnp says what the source says, and so does the wrapper, unless a run
\* found one half only of the .capnp, amid another's rewrite: whatever the files
\* said before, leftovers of a crashed or failed run, of an earlier version or of
\* a rejected one. Only an edit, a broken write, a crash or a run with the other
\* argument in between may spoil it otherwise, and only overlapping runs on a
\* .proto can tear the .capnp for each other (main.go:48-86: files are read and
\* written in place, part by part).
RunsAgree ==
    Quiet /\ Succeeded /\ trouble \subseteq {"denied", "torn"} /\ Source # Torn =>
        /\ Says(capnp) = Source
        /\ "torn" \notin trouble => Source \in Generates /\ Says(wrapper) = Source
        /\ "torn" \in trouble => arg = "proto" /\ Overlapped

\* Runs that only ever fail keep the last wrapper: it is not opened before all
\* that can be rejected has been accepted (main.go:59-70).
RejectedKeepsWrapper ==
    Quiet /\ ~Succeeded /\ trouble \subseteq {"denied", "torn"} => wrapper = before

\* Runs on a good schema may make each other fail, since one may read the .capnp
\* another has just truncated or half written, but never all of them.
SomeRunSucceeds ==
    Quiet /\ trouble \subseteq {"torn"} /\ (\E p \in Procs : pc[p] # "idle")
      /\ Source \in Generates /\ (arg = "proto" => Source \in Translates)
      => Succeeded

=============================================================================
