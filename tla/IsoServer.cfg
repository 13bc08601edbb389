CONSTANTS
  AuthSupported = {"ExternalPayment", "Contract"}
  AcTls = {FALSE}
SPECIFICATION Spec
INVARIANTS
  TypeOK
  MessagesInOrder
  ContractSelectedOverTls
PROPERTIES
  GrantsAreCurrent
  ImplementsBaseServer
