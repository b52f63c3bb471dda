\* Two schedulers; two tasks of one migration, one of another key that is retried.
CONSTANTS
  m1 = m1 m2 = m2 g1 = g1 g2 = g2
  c1 = c1 c2 = c2
  None = None
  Tasks = {m1, m2, g1}
  Creators = {c1, c2}
  Keys <- AllKeys
  KeyOf <- KeyOfTask
  MaxRetries = 1
  RetryAny <- Generic
  Migrations <- OneMigration
SPECIFICATION Spec
SYMMETRY Alike
INVARIANTS TypeOK OneActivePerKey ReturnedIsActive PendingHasTask
  OneExecution
PROPERTIES RegistrySpec DoneIsNotScheduled
