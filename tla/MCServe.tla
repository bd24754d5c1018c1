------------------------------- MODULE MCServe -------------------------------
(* A plugin of one or two commands, with every list of at most two         *)
(* arguments, a flag of each kind of trouble, and requests that fit,       *)
(* nearly fit or do not parse.                                             *)
EXTENDS Serve

Arg(required, variadic) == [required |-> required, variadic |-> variadic]
ArgLists == UNION {[1..n -> {Arg(r, v) : r, v \in BOOLEAN}] : n \in 0..2}
FlagLists == {<<>>, <<[name |-> "lines", type |-> "int", default |-> "int"]>>,
              <<[name |-> "lines", type |-> "int", default |-> "fraction"]>>,
              <<[name |-> "lines", type |-> "int", default |-> "none"],
                [name |-> "lines", type |-> "string", default |-> "none"]>>}

Cmd(path, args, flags, category) ==
  [path |-> path, category |-> category, dryRun |-> FALSE, arguments |-> args, flags |-> flags]

Plain == Cmd("status", <<>>, <<>>, "diagnostic")
Manifest(commands) == [version |-> 1, commands |-> commands]

MCManifests ==
  {Manifest(<<Cmd("logs", a, <<>>, "diagnostic")>>) : a \in ArgLists}
  \cup {Manifest(<<Plain, Cmd("logs", <<Arg(TRUE, FALSE)>>, f, "diagnostic")>>) : f \in FlagLists}
  \cup {Manifest(<<>>), Manifest(<<Plain, Plain>>), Manifest(<<Plain, Cmd("logs", <<>>, <<>>, "diagnostic"), Plain>>),
        Manifest(<<Plain, Cmd("status", <<Arg(TRUE, FALSE)>>, <<>>, "diagnostic")>>),
        [version |-> 2, commands |-> <<Plain>>],
        Manifest(<<Cmd("restart", <<>>, <<>>, "operational")>>)}

Mem(object, key, upper, value) == [object |-> object, key |-> key, upper |-> upper, value |-> value]
Base(path, n) == <<Mem("top", "protocol_version", FALSE, 1),
                   Mem("top", "command_path", FALSE, path), Mem("top", "arguments", FALSE, n)>>
Tails == {<<>>} \cup
  {<<Mem("top", "deadline", FALSE, v)>> : v \in {"later", "malformed"}} \cup
  {<<Mem("options", "lines", u, v)>> : u \in {FALSE}, v \in {"int", "fraction", "text"}} \cup
  {<<Mem("options", "lines", FALSE, "int"), Mem(o, "lines", FALSE, "int")>> : o \in {"options", "within"}} \cup
  {<<Mem("top", "arguments", u, 0)>> : u \in BOOLEAN} \cup
  {<<Mem("top", "surplus", FALSE, 0)>>} \cup {<<Mem("top", "protocol_version", TRUE, 2)>>}

Doc(members) == [whole |-> TRUE, rest |-> "nothing", members |-> members]
MCDocuments ==
  {Doc(Base(p, n) \o t) : p \in {"logs", "status", "nothing"}, n \in 0..3, t \in Tails}
  \cup {[whole |-> FALSE, rest |-> "nothing", members |-> Base("logs", 0)],
        [whole |-> TRUE, rest |-> "document", members |-> Base("logs", 0)]}

MCVerbs == {"manifest", "plan", "execute", "other"}
=============================================================================
