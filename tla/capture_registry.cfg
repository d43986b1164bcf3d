SPECIFICATION Spec
CONSTANTS
  Objects <- MCObjects
  Descriptors <- MCDescriptors
  MaxFailures = 3
INVARIANTS
  CaptureTypeOK
  InstancesCounted
  OneActiveInput
  DescriptorsOwned
PROPERTY RecordingResumes
