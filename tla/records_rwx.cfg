SPECIFICATION Spec
CONSTANTS
  v1 = v1
  Nil = Nil
  Alias = Alias
  Volumes = {v1}
  ModeOf <- OneRWX
  Node = {n1, n2, n3}
  Threads = {t1, t2}
  EnableAttachmentReconciler = FALSE
  Faults = {"persist", "early_crash", "rebuild_fail", "unpublish_timeout", "lookup_fail", "force_detach", "stall"}
SYMMETRY Symmetry
INVARIANTS TypeOK RecordWellFormed
