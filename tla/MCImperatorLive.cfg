SPECIFICATION LiveSpec
CONSTANTS
  t1 = t1
  t2 = t2
  t3 = t3
  Tasks = {t1, t2, t3}
  Cpus <- TwoCpus
  nr_llcs = 2
  cpu_llc_id <- LlcPerCpu
  llc_etd_cost <- CostPerLlc
  big_cpu_mask = {}
  Allowed <- AllowedLive
  NoCtx = {t2}
  Kthreads = {t2}
  SeedTiers = {1}
  BoutTiers = {3}
  ZeroStamp = FALSE
  SyncWakes = FALSE
  Watched = {t3}
  NoTask = NoTask
  NoCpu = NoCpu
  NoTier = NoTier
PROPERTIES WaitingTaskRuns ImplementsSched
INVARIANTS IdleCpuVisible
