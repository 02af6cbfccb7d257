SPECIFICATION Spec
CONSTANTS
  Jobs <- MCJobs
  SchemaTexts <- MCSchemaTexts
  ErrorLimit = 20
  BuiltinTypes <- MCBuiltin
  BaseName <- MCBaseName
INVARIANTS LayoutAgrees EnumsAgree StreamDissected ValidationExact SchemaLoaded
CHECK_DEADLOCK FALSE
