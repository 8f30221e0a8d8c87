SPECIFICATION Spec
CONSTANTS
  Temps = {1, 2}
  MaxDay = 3
  Valves = {v1}
  MaxToday = 4
  Lookback = 1
  Services = {c1, c2}
  Amounts = {0, 1}
  Proxies = {x1, x2}
  Sensors = {t1}
  Levels = {0, 1, 2, 3, 4, 5}
  Versions = {1, 2}
  Needing = {s1, s2}
  Traefik = s1
  MaxEvents = 3
  Commits = {1, 2}
  MaxIncidents = 1
INVARIANTS
  
  
  
  
  DagsNotAhead
PROPERTIES
  ClosedIsShown
  GuardSettles
  GreenIsUp
