CONSTANTS
  MaxHeight = 3
  MaxRestarts = 1
  NoLimbo = NoLimbo
  NoUnwind = NoUnwind
SPECIFICATION Spec
\* with a restart
PROPERTIES FreshBuildOnTrackedBlocks
