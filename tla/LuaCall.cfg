SPECIFICATION Spec
CONSTANTS
  main = main
  co1 = co1
  co2 = co2
  Threads = {main, co1, co2}
  Builds <- MCBuilds
INVARIANTS TypeOK StacksAreKept SuspendedIsDetached
PROPERTIES ErrorEndsItsFunction ImplementsCoroutines
SYMMETRY Coroutines
