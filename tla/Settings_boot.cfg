SPECIFICATION FairSpec
CONSTANTS
  Dirs = {"home", "new", "bad"}
  Versions = {1, 2, 3, 4, 5, 6, 7, 8, 9}
  Files <- RepoFiles
  Releases = {0, 1}
  DefaultDir = "home"
  Usable = {"home", "new"}
  Fields = {"quality_preset", "hf_token"}
  Nullable = {"hf_token"}
  Values = {"v1", "v2"}
  Null = "null"
  Default <- FieldDefaults
  Backends = {"cpu", "cuda"}
  NoDir = "none"
  Unset = "unset"
  Requests = {r1, r2, r3}
  Patches <- UserPatches
  MaxCrashes = 2
INVARIANTS TypeOK DirIsTheBooted ToldIsInForce FileLoads SchemaIsWhole
PROPERTIES MoveIsInstalled BootServes
CHECK_DEADLOCK FALSE
