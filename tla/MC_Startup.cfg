SPECIFICATION Spec
CONSTANTS
  Keys = {"owner", "rocket_name", "pad"}
  DefaultKeys = {"owner", "rocket_name"}
  FS_FILES = 2
  MaxLog = 3
INVARIANTS TypeOK FreshLog
PROPERTIES ConfigNeverTorn StartKeepsValues
