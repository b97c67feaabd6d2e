SPECIFICATION Spec
CONSTANTS
  Producers = {p1, p2}
  Consumers = {c1, c2}
  Observers = {o1}
  Values = {zero, a}
  Zero = zero
  Cap = 2
  MaxTail = 3
SYMMETRY Symmetry
INVARIANTS TypeOK SlotExclusive LenWithinCap
PROPERTIES FullPushFails FailuresJustified RetriesJustified ImplementsQueue
CHECK_DEADLOCK FALSE
