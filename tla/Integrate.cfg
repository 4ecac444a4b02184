SPECIFICATION Spec
CONSTANTS
  MaxThreads = 3
  Machines <- MCMachines
  Widths <- MCWidths
  Begin = 3
  Foo <- MCFoo
  Garbage = 500
INVARIANT TypeOK
INVARIANT ResultIsIntegral
INVARIANT CrashHasACause
INVARIANT NothingLeaks
INVARIANT Spread
