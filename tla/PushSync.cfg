SPECIFICATION FairSpec
CONSTANTS
  c1 = c1
  c2 = c2
  r1 = r1
  i1 = i1
  Root = {c1, c2}
  Reply = {r1}
  Import = {i1}
  ParentOf <- MCParentOf
  PlaceOf <- MCPlaceOf
  Alike <- MCAlike
  MaxRemote = 3
  MaxActs = 3
INVARIANTS RemoteInStep
PROPERTIES StepsAreSound DeletesDrain
CHECK_DEADLOCK FALSE
