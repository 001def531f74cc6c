SPECIFICATION Spec
CONSTANTS
  MaxSpans = 3
  MaxStacks = 4
  MaxNested = 1
  Fibers = {0, 1}
  Workloads <- MCWorkloads
INVARIANTS PointersValid SentOnce OpenIsExact OtelMatches 
PROPERTY DropLeavesNoChild
