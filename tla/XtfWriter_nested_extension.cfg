SPECIFICATION Spec
CONSTANTS
  Prefixes <- MCPrefixes
  Namespaces <- MCNamespaces
  NoPrefix = ""
  NoNamespace = ""
  XmlNamespace = "xml"
  Unbound = Unbound
  Generated <- MCGenerated
  Events <- NestedEvents24
  Writers <- DialectWriters
  NewWriters <- OnlyNew24
  CallsOf <- DialectCalls
  StateAfter <- DialectAfter
  OpenOf <- OpenElements
  MaxEvents = 5
INVARIANTS
  NamesKept
