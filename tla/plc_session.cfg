\* One session at a time, with downloads, link losses, folder changes and pauses.
SPECIFICATION FairSpec
CONSTANTS
  SizeMod = 16
  Projects = {"p1", "p2"}
  Records <- MCRecords
  LenDataArray = 2
  Int16Mod = 8
  Layouts <- MCLayouts
  Breakable = {"ProjektArray", "LenProjekt", "colorG1", "ProjektInfoWrote"}
  MaxEvents = 1
INVARIANTS SetupVerdict ListComplete InfoOrError TypeSafe WindowExact
PROPERTY ListServed
