SPECIFICATION FairSpec
CONSTANTS
  Ids <- RegistryIds
  Categories = {"stt", "diarize", "llm"}
  CategoryOf <- RegistryCategories
  SizeOf <- RegistrySizes
  Snapshots = {"balanced.stt", "small.stt", "balanced.diarize"}
  SizeIsKnown = {"balanced.llm"}
  JobId = "balanced.stt"
  NoId = "none"
  MB = 4
  Budgets = {2, 3}
  Others = {0, 5}
  Wanted = {"balanced.stt", "balanced.llm"}
  Tasks = {"task1", "task2"}
INVARIANTS TypeOK BudgetKept OneTaskPerDownload RunLeavesNothing
PROPERTIES RouteModelStays DownloadEnds
