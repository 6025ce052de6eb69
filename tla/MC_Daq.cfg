SPECIFICATION FairSpec
CONSTANTS
  Sensors = 3
INVARIANTS TypeOK LocksFree SampleWhole SampleOnce
PROPERTIES AnnouncementHeard SamplingGoesOn
