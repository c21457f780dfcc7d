SPECIFICATION Spec
CONSTANTS
  wired = wired
  wlan = wlan
  Configs = {wired, wlan}
  Sessions = {s1, s2}
  Reported <- CableAndWireless
  Startable = {wlan}
  Stoppable = {wlan}
  Hasty = {}
  None = None
  MaxGen = 2
  MaxQueue = 1
INVARIANT
  OnlineIsTold
