CONSTANTS
  t1 = t1
  t2 = t2
  base = base
  leaf = leaf
  late = late
  outer = outer
  plain = plain
  selfish = selfish
  odd = odd
  own = own
  NoClass = NoClass
  None = None
  Threads <- MCThreads
  Classes <- MCClasses
  Base <- MCBase
  Decl <- MCDecl
  Keyed <- MCKeyed
  Imported <- MCImported
  Ops <- MCOps
  Unbuildable <- MCBroken
  Refused <- MCBroken
  ConcurrentRegistration = FALSE
  MaxCalls = 2
  RecursionLimit = 5
SPECIFICATION FrontSpec
INVARIANTS SchemasWhole CallsAgree InstalledUnlessRaised
PROPERTY CallsEnd
