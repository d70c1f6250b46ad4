SPECIFICATION Spec
CONSTANTS
  EntriesPerPage = 4
  FPTOVP_PAGE = 3
  IFPAGE_PAGE = 2
  InitialFile <- MCInitialFile
  SystemPages = {17}
  FirstArray = 21
  FirstMDS = 24
  SecondArrayPage = 36
  LastPage <- MCLastPage
  GUARDSTORAGEFULL = 3
  GUARD1STORAGEFULL = 1
  GUARDVMEMFULL = 20
  ArrayRequests = {1, 2}
  MaxPages = 2
  Faults = {"fail", "alarm", "short", "crash"}
  MaxSaves = 2
  MaxFaults = 1
  MaxActive = 22
INVARIANTS PagesAccounted LoaderRefusesTorn
PROPERTY ImageSurvives
CHECK_DEADLOCK FALSE
VIEW StateView
