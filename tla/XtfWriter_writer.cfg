SPECIFICATION Spec
CONSTANTS
  Prefixes <- MCPrefixes
  Namespaces <- MCNamespaces
  NoPrefix = ""
  NoNamespace = ""
  XmlNamespace = "xml"
  Unbound = Unbound
  Generated <- MCGenerated
  Events <- AllEvents
  Writers <- DialectWriters
  NewWriters <- NewDialectWriters
  CallsOf <- DialectCalls
  StateAfter <- DialectAfter
  OpenOf <- OpenElements
  MaxEvents = 5
INVARIANTS
  Understood
  NamesKept
  ClosedIsComplete
  BalancedBetweenEvents
  ReadsBack
PROPERTIES
  TakesEventStream
  Terminal
