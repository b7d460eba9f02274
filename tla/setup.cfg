SPECIFICATION Spec
CONSTANTS
  FullRun <- MCFullRun
  Plans <- MCPlans
  Passwords = {"first", "second"}
  MaxFaults = 2
INVARIANTS CleanRunInstalls RunServes DbPasswordKept KeysFiled
