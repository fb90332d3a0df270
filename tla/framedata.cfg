\* All three subclasses.
CONSTANTS
  Kinds = {"TMini", "T", "S"}
  MaxBlobs = 4
  MaxChanges = 2
  MaxFaults = 1
SPECIFICATION Spec
INVARIANTS MetadataIsOwn TableIsCurrent CloudFits FrameIsWhole
CHECK_DEADLOCK FALSE
