SPECIFICATION FairSpec
CONSTANTS
  go = go
  f1 = f1
  f2 = f2
  r1 = r1
  r2 = r2
  Lang = {go}
  Req = {r1, r2}
  File = {f1, f2}
  LangOf <- MCLangOf
  MaxGen = 2
  MaxActs = 4
INVARIANTS ServersAreSound
PROPERTIES RequestsEnd IdleServersStop
CHECK_DEADLOCK FALSE
