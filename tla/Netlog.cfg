SPECIFICATION FairSpec
CONSTANTS
  k1 = k1
  k2 = k2
  k3 = k3
  d1 = d1
  d2 = d2
  Keys = {k1, k2, k3}
  Devices = {d1, d2}
  DeviceOf <- MCDeviceOf
  MaxKeys = 2
  Window = 2
  Missing = {1}
  MaxTime = 2
  MaxEvents = 4
  MaxFaults = 1
  None = None
INVARIANTS
  TypeOK
  EventsAreKept
  RunsAreApart
PROPERTIES
  AlarmsAreStored
CHECK_DEADLOCK FALSE
