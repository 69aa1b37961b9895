SPECIFICATION FairSpec
CONSTANTS
  None = None
  s1 = s1
  s2 = s2
  n1 = n1
  n2 = n2
  Reader = {r1, r2}
  Label = {None}
  Service = {s1, s2}
  Servicer = {n1, n2}
  Config <- MCLive
  EnvConfig <- MCEmpty
  NoConfig <- MCEmpty
  MaxDeploys = 0
PROPERTIES FlagsCatchUp
