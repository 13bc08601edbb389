CONSTANT
  AuthEimSupported = TRUE
SPECIFICATION Spec
INVARIANTS
  TypeOK
  MessagesInOrder
PROPERTIES
  GrantsRestOnReports
  AbortEndsSession
  ImplementsBaseServer
