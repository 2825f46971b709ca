SPECIFICATION Spec
CONSTANTS
  t1 = t1
  t2 = t2
  t3 = t3
  Tasks = {t1, t2, t3}
  Cpus <- TwoCpus
  nr_llcs = 2
  cpu_llc_id <- LlcPerCpu
  llc_etd_cost <- CostPerLlc
  big_cpu_mask = {1}
  Allowed <- AllowedOf3
  NoCtx = {t3}
  Kthreads = {t3}
  SeedTiers = {0, 1, 3}
  BoutTiers <- FastOrBulk
  ZeroStamp = FALSE
  SyncWakes = TRUE
  Watched = {t3}
  NoTask = NoTask
  NoCpu = NoCpu
  NoTier = NoTier
INVARIANTS TypeOK OnePlace MaskExact MailboxCurrent IrqWakeOneShot NoLostWakeup AffinityRespected
SYMMETRY FreeTasks
