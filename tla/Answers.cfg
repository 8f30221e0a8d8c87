SPECIFICATION Spec
CONSTANTS
  Repos = {"platform", "todo-app"}
  StatusRepos = {"platform", "todo-app"}
  NoCiRepos = {"platform"}
  People = {"bill", "jessie"}
  Tools = {"Updates", "Events", "GitHub", "AWS", "Authentik", "Exposure"}
  Files = {"hub", "nuc", "group"}
  Hosts = {"aws-hub", "nuc5"}
  Routers = {"rt-nyc", "rt-rambles"}
  Summer = {"nuc5", "rt-rambles"}
  Apps = {"hue"}
  CacheTime = 1
  TokenTime = 2
  MaxNow = 2
  StaleDays = 0
  MaxDay = 2
  Callers = {c1, c2}
  Window = 1
  MaxRuns = 2
  Clients = {d1, d2}
  Tasks = {1, 2}
  Keys = {"command", "volumes", "pid"}
  AllowedKeys = {"command"}
SYMMETRY Symmetry
CHECK_DEADLOCK FALSE
INVARIANTS
  
  UnreadIsSaid
  
  NewestIsNewest
  
  
  
  
  StatusIsOfItsRun
  
  RewriteIsStable
