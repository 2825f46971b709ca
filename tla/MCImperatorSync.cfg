SPECIFICATION LiveSpec
CONSTANTS
  t1 = t1
  t2 = t2
  t3 = t3
  Tasks = {t1, t2, t3}
  Cpus <- TwoCpus
  nr_llcs = 1
  cpu_llc_id <- OneLlc
  llc_etd_cost <- NoCost
  big_cpu_mask = {}
  Allowed <- Anywhere
  NoCtx = {t1, t2}
  Kthreads = {}
  SeedTiers = {1}
  BoutTiers = {3}
  ZeroStamp = FALSE
  SyncWakes = TRUE
  Watched = {t3}
  NoTask = NoTask
  NoCpu = NoCpu
  NoTier = NoTier
PROPERTY WaitingTaskRuns
