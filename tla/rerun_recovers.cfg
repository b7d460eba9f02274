SPECIFICATION Spec
CONSTANTS
  FullRun <- MCFullRun
  Plans <- MCPlans
  Passwords = {"first"}
  MaxFaults = 1
INVARIANTS RerunRecovers
