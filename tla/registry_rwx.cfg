SPECIFICATION Spec
CONSTANTS
  v1 = v1
  Nil = Nil
  Alias = Alias
  Volumes = {v1}
  ModeOf <- OneRWX
  Node = {n1, n2, n3}
  Threads = {t1, t2}
  EnableAttachmentReconciler = TRUE
  Faults = {"persist", "api", "crash", "lookup_fail", "force_detach"}
SYMMETRY Symmetry
INVARIANTS GrantedTracked NodeLimitRespected 
PROPERTIES ImplementsRegistry
