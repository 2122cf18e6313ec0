SPECIFICATION Spec
CONSTANTS
  Movies = {hd, uhd}
  Workers = {w}
  Sync = sync
  Modes = {"protect_siblings", "any_instance_has_file"}
  MaxChanges <- Changes
  MaxCrashes = 1
INVARIANTS QuietSyncRepairs
PROPERTIES SiblingKeepsFile Settles
