SPECIFICATION FairSpec
CONSTANTS
  v1 = v1
  Nil = Nil
  Alias = Alias
  Volumes = {v1}
  ModeOf <- OneRWO
  Node = {n1, n2}
  Threads = {t1, t2}
  EnableAttachmentReconciler = TRUE
  Faults = {"node_delete", "persist"}
PROPERTIES CallReturns StaleCleared
