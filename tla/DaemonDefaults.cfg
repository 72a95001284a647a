SPECIFICATION Spec
CONSTANTS
  Admin = {a1}
  Key = {k1, k2}
  Value = {v1}
  Junk = Junk
  Default = Default
  Zero = Zero
  DayLen = 3
  Day = {0}
  MaxClock = 5
  MaxUpdates = 0
  MaxStops = 0
CHECK_DEADLOCK FALSE
INVARIANT DefaultsOnError
