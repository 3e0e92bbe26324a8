SPECIFICATION Spec
CONSTANTS
  hub = hub
  d1 = d1
  a1 = a1
  a2 = a2
  Monitor = Monitor
  Main = Main
  Events = Events
  NoOne = NoOne
  NoId = NoId
  NoDev = NoDev
  Ids = {hub, d1}
  Parent <- MCParent
  Devs = {1, 2, 3, 4}
  Cbs = {11, 12}
  Apps = {a1, a2}
  Scripts <- MCScripts
  Changes = 2
  StableStart = TRUE
INVARIANTS RefsAreOwned ListCatchesUp NothingFreedIsUsed
PROPERTIES AllReleased
