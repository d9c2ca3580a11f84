CONSTANTS
  Writer = {w1, w2}
  Clearer = {d1}
  File = {f1, f2, f3, f4}
  Platform = {"unix", "windows"}
  Attempts = 3
  NoFile = NoFile
  Nobody = Nobody
SPECIFICATION FairSpec
INVARIANTS TypeOK MutualExclusion RetriesNeedClears
PROPERTIES ImplementsAtomicReview EveryoneFinishes
