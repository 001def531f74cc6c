SPECIFICATION Spec
CONSTANTS
  None = None
  Parent <- MCParent
  Interfaces <- MCInterfaces
  Method <- MCMethod
  Scope <- MCScope
  AbstractFns = {"I.m"}
  InternalFns = {"A.m", "B.m", "F.m"}
  Programs <- MCPrograms
  MaxDepth = 2
INVARIANTS  HooksInPlace MemoryDisjoint 
PROPERTY EveryHookBegins
