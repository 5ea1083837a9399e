SPECIFICATION Spec
CONSTANTS
  v1 = v1
  Nil = Nil
  Alias = Alias
  Volumes = {v1}
  ModeOf <- OneRWO
  Node = {n1, n2}
  Threads = {t1, t2}
  EnableAttachmentReconciler = TRUE
  Faults = {}
SYMMETRY Symmetry
INVARIANT NodeLimitRespected
