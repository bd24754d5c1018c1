-------------------------------- MODULE Serve --------------------------------
(***************************************************************************)
(* One process of a plugin: protocol.Serve, from its arguments to its exit *)
(* code.  The plugin behind it is any Definition: a manifest, perhaps a    *)
(* Plan, perhaps an Execute, that both begin with ReadOnlyPlan.  The       *)
(* plugins docker, storage, systemd and server-setup check their           *)
(* invocations with code of their own: what RequiredAreBound says of       *)
(* arguments is not said of them.                                          *)
(*                                                                         *)
(* A command is its path (one model value), the list of its arguments and  *)
(* its flags; a request is what arrives on standard input.                 *)
(***************************************************************************)
EXTENDS Naturals, Sequences, FiniteSets, TLC

CONSTANTS
  Manifests,   \* the manifests that are tried
  Verbs,       \* the words of args[1] that are tried
  Documents    \* the documents on standard input

VARIABLES
  definition,  \* [manifest, plans, executes]: the plugin
  argv,        \* [well: is args[2] --protocol=1, and nothing after it, verb]
  document,    \* standard input
  ctx,         \* "none" before the context exists, then "live", "deadline"
  pc,          \* "start", "decoded", "plan", "execute", "encode", "done"
  said,        \* what was written to standard output
  exit         \* the exit code

vars == <<definition, argv, document, ctx, pc, said, exit>>

\* The argument list of a command.
Arguments == Seq([required : BOOLEAN, variadic : BOOLEAN])

ASSUME ManifestAssumption ==
  \A m \in Manifests :
    /\ Len(m.commands) \in Nat /\ DOMAIN m.commands = 1..Len(m.commands)
    /\ \A i \in DOMAIN m.commands : m.commands[i].arguments \in Arguments

----------------------------------------------------------------------------
(* Manifests *)

Types == {"string", "bool", "int", "duration"}

\* A default is the kind of the value it is ("text" is a string that is no
\* duration, "fraction" a number that is no integer), or "none".
DefaultKinds == [string   |-> {"none", "text", "duration"},
                 bool     |-> {"none", "bool"},
                 int      |-> {"none", "int"},
                 duration |-> {"none", "duration"}]

validateFlag(f) == f.type \in Types /\ f.default \in DefaultKinds[f.type]

Distinct(list, key(_)) == \A i, j \in DOMAIN list : key(list[i]) = key(list[j]) => i = j

\* mutant: a required argument may follow an optional one
validateArguments_AnyOrder(args) ==
  \A i \in DOMAIN args : args[i].variadic => i = Len(args)

\* Required arguments come first, a variadic one last.
validateArguments(args) ==
  /\ \A i, j \in DOMAIN args : i < j /\ args[j].required => args[i].required
  /\ \A i \in DOMAIN args : args[i].variadic => i = Len(args)

validateCommand(c) ==
  /\ c.category \in {"diagnostic", "operational", "runbook"}
  /\ c.category # "diagnostic" => c.dryRun
  /\ validateArguments(c.arguments)
  /\ Distinct(c.flags, LAMBDA f : f.name)
  /\ \A i \in DOMAIN c.flags : validateFlag(c.flags[i])

\* mutant: two commands may have one path
ValidateManifest_Duplicates(m) ==
  /\ m.version = 1
  /\ m.commands # <<>>
  /\ \A i \in DOMAIN m.commands : validateCommand(m.commands[i])

ValidateManifest(m) ==
  /\ m.version = 1
  /\ m.commands # <<>>
  /\ \A i \in DOMAIN m.commands : validateCommand(m.commands[i])
  /\ Distinct(m.commands, LAMBDA c : c.path)

----------------------------------------------------------------------------
(* Documents.  A document is the sequence of its members as they are       *)
(* written, each with the object it stands in ("top" or an object inside), *)
(* its key and the case it is written in, and its value; `rest` is what    *)
(* follows the first value.                                                *)

Fields == {"protocol_version", "command_path", "arguments", "options", "deadline"}

\* One `seen` set for each object, of the keys as they are spelled.
rejectDuplicateKeys(d) ==
  /\ d.rest = "nothing"
  /\ \A i, j \in DOMAIN d.members :
        /\ d.members[i].object = d.members[j].object
        /\ d.members[i].key = d.members[j].key
        /\ d.members[i].upper = d.members[j].upper
        => i = j

\* encoding/json finds the field of a key without regard to case, and a
\* later member overwrites an earlier one.
Decodes(d) ==
  /\ d.whole
  /\ rejectDuplicateKeys(d)
  /\ \A i \in DOMAIN d.members : d.members[i].object = "top" => d.members[i].key \in Fields

Field(d, key, missing) ==
  LET at == {i \in DOMAIN d.members : d.members[i].object = "top" /\ d.members[i].key = key}
  IN IF at = {} THEN missing
     ELSE d.members[CHOOSE i \in at : \A j \in at : j <= i].value

\* The arguments of a request are counted.
ASSUME DocumentAssumption == \A d \in Documents : Field(d, "arguments", 0) \in Nat

Options(d) == {d.members[i] : i \in {j \in DOMAIN d.members : d.members[j].object = "options"}}

----------------------------------------------------------------------------
(* ReadOnlyPlan *)

findCommand(commands, path) == {i \in DOMAIN commands : commands[i].path = path}

First(set) == CHOOSE i \in set : \A j \in set : i <= j

validateInvocationArguments(c, n) ==
  /\ n >= Cardinality({i \in DOMAIN c.arguments : c.arguments[i].required})
  /\ \/ c.arguments # <<>> /\ c.arguments[Len(c.arguments)].variadic
     \/ n <= Len(c.arguments)

validInvocationOption(type, value) ==
  value \in [string   |-> {"text", "duration"},
             bool     |-> {"bool"},
             int      |-> {"int"},
             duration |-> {"duration"}][type]

validateInvocationOptions(c, options) ==
  \A o \in options : \E i \in DOMAIN c.flags :
     c.flags[i].name = o.key /\ validInvocationOption(c.flags[i].type, o.value)

Command(d) == LET commands == definition.manifest.commands
                  found == findCommand(commands, Field(d, "command_path", "none"))
              IN IF found = {} THEN {} ELSE {commands[First(found)]}

Invocable(d) == \E c \in Command(d) :
  /\ validateInvocationArguments(c, Field(d, "arguments", 0))
  /\ validateInvocationOptions(c, Options(d))

----------------------------------------------------------------------------
\* A process ends with one of the exit codes of the protocol, after at most one output.
TypeOK ==
  /\ pc \in {"start", "decoded", "plan", "execute", "encode", "done"}
  /\ ctx \in {"none", "live", "deadline"}
  /\ said \in {"nothing", "manifest", "plan", "result", "torn"}
  /\ exit \in {"running", "ok", "general", "arguments", "privilege", "dependency",
               "timeout", "configuration"}

Init ==
  /\ definition \in [manifest : Manifests, plans : BOOLEAN, executes : BOOLEAN]
  /\ argv \in [well : BOOLEAN, verb : Verbs]
  /\ document \in Documents
  /\ ctx = "none" /\ pc = "start" /\ said = "nothing" /\ exit = "running"

Input == <<definition, argv, document>>

Exit(code) == pc' = "done" /\ exit' = code

Usage ==
  /\ pc = "start" /\ ~ argv.well
  /\ Exit("arguments") /\ UNCHANGED <<Input, ctx, said>>

BadManifest ==
  /\ pc = "start" /\ argv.well
  /\ ~ ValidateManifest(definition.manifest)
  /\ Exit("configuration") /\ UNCHANGED <<Input, ctx, said>>

Accepted == pc = "start" /\ argv.well /\ ValidateManifest(definition.manifest)

\* mutant: the error of the encoder is dropped
Encode_Unchecked(what) == said' \in {what, "torn"} /\ Exit("ok")

\* The encoder writes all of it, or fails with some of it written.
Encode(what) ==
  \/ said' = what /\ Exit("ok")
  \/ said' = "torn" /\ Exit("general")

WriteManifest ==
  /\ Accepted /\ argv.verb = "manifest"
  /\ Encode("manifest") /\ UNCHANGED <<Input, ctx>>

UnknownVerb ==
  /\ Accepted /\ argv.verb \notin {"manifest", "plan", "execute"}
  /\ Exit("arguments") /\ UNCHANGED <<Input, ctx, said>>

\* What is behind the first MiB of standard input is not read.
Readable == Decodes(document) /\ Field(document, "protocol_version", 0) = 1
            /\ Field(document, "deadline", "none") # "malformed"

Reject ==
  /\ Accepted /\ argv.verb \in {"plan", "execute"}
  /\ ~ Readable
  /\ Exit("arguments") /\ UNCHANGED <<Input, ctx, said>>

Supported == IF argv.verb = "plan" THEN definition.plans ELSE definition.executes

Decode ==
  /\ Accepted /\ argv.verb \in {"plan", "execute"}
  /\ Readable
  /\ pc' = "decoded" /\ ctx' = "live" /\ UNCHANGED <<Input, said, exit>>

invocationContext ==
  /\ ctx = "live" /\ pc # "done"
  /\ Field(document, "deadline", "none") # "none"
  /\ ctx' = "deadline" /\ UNCHANGED <<Input, pc, said, exit>>

Unsupported ==
  /\ pc = "decoded" /\ ~ Supported
  /\ Exit("arguments") /\ UNCHANGED <<Input, ctx, said>>

\* Of a plugin that goes through ReadOnlyPlan both verbs begin with it: the
\* context first, then the invocation.
TooLate ==
  /\ pc = "decoded" /\ Supported /\ ctx = "deadline"
  /\ Exit("timeout") /\ UNCHANGED <<Input, ctx, said>>

Invalid ==
  /\ pc = "decoded" /\ Supported /\ ctx = "live" /\ ~ Invocable(document)
  /\ Exit("arguments") /\ UNCHANGED <<Input, ctx, said>>

ReadOnlyPlan ==
  /\ pc = "decoded" /\ Supported /\ ctx = "live" /\ Invocable(document)
  /\ pc' = argv.verb /\ UNCHANGED <<Input, ctx, said, exit>>

WritePlan ==
  /\ pc = "plan"
  /\ Encode("plan") /\ UNCHANGED <<Input, ctx>>

WriteResult ==
  /\ pc = "execute"
  /\ Encode("result") /\ UNCHANGED <<Input, ctx>>

\* mutant: a code that is no code of the protocol is passed on
writeFailure_RawCode ==
  /\ pc = "execute"
  /\ \E code \in {"general", "timeout", "unclassified"} : Exit(code)
  /\ UNCHANGED <<Input, ctx, said>>

\* An error with a code of its own keeps it; an error of the context that
\* has none is a timeout; anything else is general.
writeFailure ==
  /\ pc = "execute"
  /\ \/ \E code \in {"general", "arguments", "privilege", "dependency", "configuration"} : Exit(code)
     \/ ctx = "deadline" /\ Exit("timeout")
  /\ UNCHANGED <<Input, ctx, said>>

Next == Usage \/ BadManifest \/ WriteManifest \/ UnknownVerb \/ Reject \/ Decode
        \/ invocationContext \/ Unsupported \/ TooLate \/ Invalid \/ ReadOnlyPlan
        \/ WritePlan \/ WriteResult \/ writeFailure

Spec == Init /\ [][Next]_vars

----------------------------------------------------------------------------
Served == pc \in {"plan", "execute"} \/ said \in {"plan", "result"}

\* An invocation that is planned or executed gives a value to every argument
\* that is required by any command its path names: values are bound by
\* position, the count is compared with the number of required arguments of the
\* first command that fits, and the manifest must have put those first, and
\* each path once, for this to mean the same (validate.go:36-97,
\* readonly.go:64-83).
RequiredAreBound ==
  Served => LET commands == definition.manifest.commands
                found    == findCommand(commands, Field(document, "command_path", "none"))
            IN /\ found # {}
               /\ \A f \in found : \A i \in DOMAIN commands[f].arguments :
                    commands[f].arguments[i].required => i <= Field(document, "arguments", 0)

\* Standard output holds one whole document exactly if the exit code is 0,
\* so that the host never parses the output of a failure.
OutputIffOK == pc = "done" => (exit = "ok" <=> said \in {"manifest", "plan", "result"})
=============================================================================
