SPECIFICATION LockSpec
CONSTANTS
  i1 = i1  i2 = i2  i3 = i3
  Initializer = {i1, i2, i3}  RunOf <- OneRun  MaxCrashes = 1
INVARIANT OneHolder
CHECK_DEADLOCK FALSE
