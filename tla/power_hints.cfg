SPECIFICATION Spec
CONSTANTS
  Threads <- MCThreads
  Descriptors <- MCDescriptors
  Tunable <- MCTunable
  OtherGovernors <- MCOtherGovernors
  MaxEpoch = 2
  MaxReadFailures = 1
INVARIANTS
  PowerTypeOK
  NoDescriptorLost
  ForeignDescriptorsKept
  
PROPERTY BoostRecovers
