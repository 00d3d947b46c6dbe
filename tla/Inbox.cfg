SPECIFICATION Spec
CONSTANTS
  Reminders = {1}
  Drops = {3, 4}
  NameOf <- MCNameOf
  MaxFaults = 2
INVARIANTS HeardOnce
PROPERTIES ImplementsMail EventuallyTried
CHECK_DEADLOCK FALSE
