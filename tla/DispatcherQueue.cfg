SPECIFICATION Spec
CONSTANTS
  Threads = {x, y}
  g1 = g1
  g2 = g2
  g3 = g3
  t1 = t1
  t2 = t2
  Tenants = {t1, t2}
  Triggers = {g1, g2, g3}
  TenantOf <- MCTenantOf
  MaxDeliveries = 1
  NoThread = NoThread
  NoTrigger = NoTrigger
INVARIANT QueuedNotDropped
CHECK_DEADLOCK FALSE
