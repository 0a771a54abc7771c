SPECIFICATION Spec
CONSTANTS
  Trees <- RecursiveTrees
  Requests <- ThreeMessages
  Scalars <- OneScalar
  WellKnown <- OneWellKnown
  Blocked <- BlockedOnly
  ExtraProps <- Extra
  Plural <- Plurals
CHECK_DEADLOCK FALSE
INVARIANTS TypeOK DepthBounded SchemasAreUnfoldings Descriptions OutputIsPrefix MirrorsUnlessFullName
