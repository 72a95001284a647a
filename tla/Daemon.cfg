SPECIFICATION FairSpec
CONSTANTS
  Admin = {a1, a2}
  Key = {k1, k2}
  Value = {v1}
  Junk = Junk
  Default = Default
  Zero = Zero
  DayLen = 3
  Day = {0, 1}
  MaxClock = 8
  MaxUpdates = 2
  MaxStops = 1
CHECK_DEADLOCK FALSE
INVARIANTS TypeOK SettingsFromOneTable UpdateInForce
PROPERTIES OnceAfterItsDay EpochsSettled
