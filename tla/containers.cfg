\* Every order of operations on two stacks, or on two maps and a reference.
CONSTANTS
  Stacks = {s1, s2}
  Pushes = 4
  Maps = {m1, m2}
  Keys = {k1, k2}
  Values = {zero, one}
  Default = zero
  Elements <- MCElements
  NoRef = 0
SPECIFICATION MCSpec
INVARIANTS
  NothingLost
PROPERTIES
  ImplementsDictionaries
