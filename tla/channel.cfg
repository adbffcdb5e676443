CONSTANTS
  MaxSubscriptions = 4
  Sockets <- Descriptors
SPECIFICATION Spec
INVARIANTS TypeOK NoDuplicates
PROPERTIES ImplementsSet
