SPECIFICATION Spec
CONSTANTS
  r1 = r1
  r2 = r2
  s1 = s1
  d1 = d1
  d2 = d2
  Reports <- MCReports
  Shots <- MCShots
  Documents <- MCDocuments
  Owners <- MCOwners
  NoOwner = NoOwner
  Queries = {q1, q2}
  Signed = {r1, d1}
  WithToc = {d1}
  WithCovers = {d1}
  PageNames <- MCPageNames
  PageFormats <- MCPageFormats
  Layouts = {"xga", "a4"}
  Hooked = {"pre-build", "pre-datasource", "pre-render", "post-render"}
  Manifests <- MCManifests
INVARIANTS
  Delivered
  TempsGone
  HostDirs
PROPERTIES
  QueryOwn
