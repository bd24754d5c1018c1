SPECIFICATION Spec
CONSTANTS
  Manifests <- MCManifests
  Verbs <- MCVerbs
  Documents <- MCDocuments
CHECK_DEADLOCK FALSE
INVARIANTS
  TypeOK
  RequiredAreBound
  OutputIffOK
