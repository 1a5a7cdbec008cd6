SPECIFICATION Spec
CONSTANTS
  Sessions = {"default", "private"}
  Default = "default"
  Intents = {"off", "hns", "cert", "anew"}
  InitIntent = "off"
  Direct = {"off"}
  Guarded = {"hns", "cert", "anew"}
  Updating = {"cert", "anew"}
  MaxSafe = 8
  MaxEpoch = 2
  MaxQueue = 1
CHECK_DEADLOCK FALSE
INVARIANTS
  TypeOK
  AllowedRoutesAreCurrent
  GuardIsCurrent
PROPERTIES
  SharedResourcesStable
  RetirementIsPermanent
  EnrollmentIsLocal
  ImplementsGate
  QueueDrains
