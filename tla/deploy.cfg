\* Two containers, a new database or one of any version, two failures, two
\* downgrades, two tasks for each worker.
SPECIFICATION Spec
CONSTANTS
  Processes = {c1, c2}
  MaxLoops = 2
  Oldest = 0
  MaxCrashes = 2
  MaxDowngrades = 2
CHECK_DEADLOCK FALSE
INVARIANT TypeOK
INVARIANT SchemaFollowsVersion
INVARIANT ServesDeclaredSchema
INVARIANT ConnectionsAreLive
PROPERTY EveryoneServes
