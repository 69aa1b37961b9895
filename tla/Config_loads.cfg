SPECIFICATION FairSpec
CONSTANTS
  None = None
  s1 = s1
  s2 = s2
  n1 = n1
  n2 = n2
  Reader = {r1}
  Label = {None, n1}
  Service = {s1, s2}
  Servicer = {n1, n2}
  Config <- MCLoads
  EnvConfig <- EnvBoth
  NoConfig <- MCEmpty
  MaxDeploys = 2
INVARIANTS TypeOK ConfigWhole QuietLookupsExact
PROPERTIES DeployedIsServed
