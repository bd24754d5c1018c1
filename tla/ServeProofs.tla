----------------------------- MODULE ServeProofs -----------------------------
(***************************************************************************)
(* Theorems about Serve, for every set of manifests and of documents.  The *)
(* invariant says what each stage has checked: a request that was decoded  *)
(* belongs to a valid manifest and was read by the strict decoder, and a   *)
(* request that is planned or executed fits its command.                   *)
(***************************************************************************)
EXTENDS Serve, FiniteSetTheorems, TLAPS

\* The plugin and the request are of those that are tried.
InputInv == definition.manifest \in Manifests /\ document \in Documents

\* What was decoded had been validated.
DecodedInv == pc \in {"decoded", "plan", "execute"} \/ said \in {"plan", "result"} =>
                ValidateManifest(definition.manifest) /\ Decodes(document)

\* Only these two verbs have a request.
VerbInv == pc = "decoded" => argv.verb \in {"plan", "execute"}

\* What is served had been compared with its command.
ServedInv == Served => Invocable(document)

\* Nothing is written before the end, and a whole document only with exit code 0.
OutputInv == IF pc = "done" THEN exit = "ok" <=> said \in {"manifest", "plan", "result"}
                            ELSE said = "nothing"

IInv == TypeOK /\ InputInv /\ DecodedInv /\ VerbInv /\ ServedInv /\ OutputInv

-----------------------------------------------------------------------------
(* Commands *)

\* With required arguments first, as many values as there are required
\* arguments reach every one of them.
LEMMA RequiredReached ==
  ASSUME NEW args \in Arguments, validateArguments(args), NEW n \in Nat,
         n >= Cardinality({i \in DOMAIN args : args[i].required}),
         NEW j \in DOMAIN args, args[j].required
  PROVE  j <= n
<1> DEFINE R == {i \in DOMAIN args : args[i].required}
<1>1. Len(args) \in Nat /\ DOMAIN args = 1..Len(args) /\ j \in 1..Len(args)
  BY DEF Arguments
<1>2. 1..j \in SUBSET R
  BY <1>1 DEF validateArguments
<1>3. IsFiniteSet(1..Len(args)) /\ R \in SUBSET (1..Len(args))
  BY <1>1, FS_Interval
<1>4. IsFiniteSet(R)
  BY <1>3, FS_Subset
<1>5. Cardinality(1..j) <= Cardinality(R)
  BY <1>2, <1>4, FS_Subset
<1>6. Cardinality(1..j) = j
  BY <1>1, FS_Interval
<1>7. Cardinality(R) \in Nat
  BY <1>4, FS_CardinalityType
<1> QED
  BY <1>1, <1>5, <1>6, <1>7

\* In a valid manifest a path has one command.
LEMMA OneIsFound ==
  ASSUME NEW m \in Manifests, ValidateManifest(m), NEW path,
         findCommand(m.commands, path) # {}
  PROVE  \E i \in DOMAIN m.commands : findCommand(m.commands, path) = {i}
<1>1. \A i, j \in DOMAIN m.commands : m.commands[i].path = m.commands[j].path => i = j
  BY DEF ValidateManifest, Distinct
<1> QED
  BY <1>1 DEF findCommand

\* So the command that is found first is the only one its path names, and valid.
LEMMA CommandIsValid ==
  ASSUME InputInv, ValidateManifest(definition.manifest), NEW d, NEW c \in Command(d)
  PROVE  /\ c.arguments \in Arguments /\ validateArguments(c.arguments)
         /\ \E i : /\ findCommand(definition.manifest.commands, Field(d, "command_path", "none")) = {i}
                  /\ definition.manifest.commands[i] = c
<1> DEFINE m == definition.manifest
           found == findCommand(m.commands, Field(d, "command_path", "none"))
<1>1. found # {} /\ c = m.commands[First(found)]
  BY DEF Command
<1>2. PICK i \in DOMAIN m.commands : found = {i}
  BY <1>1, OneIsFound DEF InputInv
<1>3. First(found) = i
  <2>1. \E x \in found : \A y \in found : x <= y
    <3>1. i \in Nat /\ i <= i
      BY <1>2, ManifestAssumption DEF InputInv
    <3> QED
      BY <1>2, <3>1
  <2> QED
    BY <1>2, <2>1 DEF First
<1>4. c = m.commands[i] /\ c.arguments \in Arguments
  BY <1>1, <1>2, <1>3, ManifestAssumption DEF InputInv
<1>5. validateArguments(c.arguments)
  BY <1>2, <1>4 DEF ValidateManifest, validateCommand
<1> QED
  BY <1>2, <1>4, <1>5

-----------------------------------------------------------------------------
\* The invariant holds before anything is read.
LEMMA InitHolds == Init => IInv
  BY DEF Init, IInv, TypeOK, InputInv, DecodedInv, VerbInv, ServedInv, OutputInv, Served

\* One step for each way on, and one for each way out.
LEMMA StepKeeps == IInv /\ [Next]_vars => IInv'
<1> SUFFICES ASSUME IInv, [Next]_vars PROVE IInv'
  OBVIOUS
<1>0. (InputInv' /\ UNCHANGED Input) \/ UNCHANGED vars
  BY DEF Next, Usage, BadManifest, WriteManifest, UnknownVerb, Reject, Decode, invocationContext,
         Unsupported, TooLate, Invalid, ReadOnlyPlan, WritePlan, WriteResult, writeFailure,
         IInv, InputInv, Input
<1>a. (Invocable(document) => Invocable(document)') /\ (Decodes(document) => Decodes(document)')
      /\ (ValidateManifest(definition.manifest) => ValidateManifest(definition.manifest)')
  BY <1>0 DEF Input, vars, Invocable, Command
<1>i. InputInv'
  BY <1>0 DEF vars, IInv, InputInv
<1> USE <1>a, <1>i DEF IInv, TypeOK, DecodedInv, VerbInv, ServedInv, OutputInv, Served, Exit, Encode,
              Input
<1>1. CASE Usage
  BY <1>1 DEF Usage
<1>2. CASE BadManifest
  BY <1>2 DEF BadManifest
<1>3. CASE WriteManifest
  BY <1>3 DEF WriteManifest, Accepted
<1>4. CASE UnknownVerb
  BY <1>4 DEF UnknownVerb, Accepted
<1>5. CASE Reject
  BY <1>5 DEF Reject, Accepted
<1>6. CASE Decode
  BY <1>6 DEF Decode, Accepted, Readable
<1>7. CASE invocationContext
  BY <1>7 DEF invocationContext
<1>8. CASE Unsupported
  BY <1>8 DEF Unsupported
<1>9. CASE TooLate
  BY <1>9 DEF TooLate
<1>10. CASE Invalid
  BY <1>10 DEF Invalid
<1>11. CASE ReadOnlyPlan
  <2>1. argv.verb \in {"plan", "execute"}
    BY <1>11 DEF ReadOnlyPlan
  <2>2. pc' \in {"plan", "execute"} /\ Invocable(document)' /\ said = "nothing" /\ said' = said
    BY <1>11, <2>1 DEF ReadOnlyPlan
  <2> QED
    BY <1>11, <2>2 DEF ReadOnlyPlan
<1>12. CASE WritePlan
  BY <1>12 DEF WritePlan
<1>13. CASE WriteResult
  BY <1>13 DEF WriteResult
<1>14. CASE writeFailure
  BY <1>14 DEF writeFailure
<1>15. CASE UNCHANGED vars
  BY <1>15 DEF vars
<1> QED
  BY <1>1, <1>2, <1>3, <1>4, <1>5, <1>6, <1>7, <1>8, <1>9, <1>10, <1>11, <1>12, <1>13,
     <1>14, <1>15 DEF Next

\* The invariant holds throughout.
LEMMA InvariantHolds == Spec => []IInv
  BY InitHolds, StepKeeps, PTL DEF Spec

-----------------------------------------------------------------------------
\* A process ends with an exit code of the protocol.
THEOREM TypeCorrect == Spec => []TypeOK
<1>1. IInv => TypeOK
  BY DEF IInv
<1> QED
  BY <1>1, InvariantHolds, PTL

\* For every manifest and every request: what is planned or executed gives a
\* value to each argument that a command of its path requires.
THEOREM RequiredBound == Spec => []RequiredAreBound
<1>1. ASSUME IInv, Served PROVE RequiredAreBound
  <2>1. PICK c \in Command(document) :
          validateInvocationArguments(c, Field(document, "arguments", 0))
    BY <1>1 DEF IInv, ServedInv, Invocable
  <2>2. InputInv /\ ValidateManifest(definition.manifest)
    BY <1>1 DEF IInv, DecodedInv, Served
  <2>3. /\ c.arguments \in Arguments /\ validateArguments(c.arguments)
        /\ \E i : /\ findCommand(definition.manifest.commands, Field(document, "command_path", "none")) = {i}
                 /\ definition.manifest.commands[i] = c
    BY <2>2, CommandIsValid
  <2>4. Field(document, "arguments", 0) \in Nat
    BY <2>2, DocumentAssumption DEF InputInv
  <2>5. Field(document, "arguments", 0)
          >= Cardinality({i \in DOMAIN c.arguments : c.arguments[i].required})
    BY <2>1 DEF validateInvocationArguments
  <2>6. \A i \in DOMAIN c.arguments : c.arguments[i].required => i <= Field(document, "arguments", 0)
    BY <2>3, <2>4, <2>5, RequiredReached
  <2> QED
    BY <2>3, <2>6 DEF RequiredAreBound
<1>2. IInv => RequiredAreBound
  BY <1>1 DEF RequiredAreBound
<1> QED
  BY <1>2, InvariantHolds, PTL

\* Standard output holds a whole document exactly if the exit code is 0.
THEOREM OutputOK == Spec => []OutputIffOK
<1>1. IInv => OutputIffOK
  BY DEF IInv, OutputInv, OutputIffOK
<1> QED
  BY <1>1, InvariantHolds, PTL
=============================================================================
