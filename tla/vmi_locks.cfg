SPECIFICATION FairSpec
CONSTANTS
  None = None
  Threads = {t1, t2}
  PVC = {p1, p2}
  VMI = {m1, m2}
  Locks = {l1, l2}
  Faults = {"api", "pods"}
INVARIANTS SerializedPerVMI RefCountExact
PROPERTIES PublishReturns
