CONSTANTS
  a = a
  b = b
  c = c
  x = x
  NoNode = NoNode
  NodeIds = {a, b, c, x}
  Template <- MCTemplate
  TemplateEdges <- MCEdges
  Skippable = {x}
  Limit = 2
  MaxEdits = 2
SPECIFICATION Spec
INVARIANTS
  TypeOK
  CompletedTogether
  DependencyOrder
  SomethingCanStart
PROPERTIES
  PrecedenceIsKept
CHECK_DEADLOCK FALSE
