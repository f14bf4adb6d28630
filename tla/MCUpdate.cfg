\* two updaters, two new files, both platforms
CONSTANTS
  p1 = p1  p2 = p2  None = None  Dev = Dev
  Procs = {p1, p2}
  Platforms = {"unix", "windows"}
  Versions <- SomeVersions
  Published <- SomePublished
  MaxFiles = 2
SPECIFICATION Spec
SYMMETRY Updaters
INVARIANTS TypeOK BinaryLeft ReplacesAlone DecidesByOrder
CHECK_DEADLOCK FALSE
