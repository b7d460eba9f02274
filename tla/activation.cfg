SPECIFICATION ActivationFairSpec
CONSTANTS
  c1 = c1  c2 = c2  c3 = c3  a = a  b = b  d = d  Nobody = Nobody
  Clients = {c1, c2, c3}
  Ids <- MCIds
  Tasks <- MCTasks
  TaskOf <- MCTaskOf
INVARIANTS OneActivePerTask
PROPERTIES ActiveNeverLost ImplementsRegister ActivationAnswered
