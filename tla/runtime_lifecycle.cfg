SPECIFICATION Spec
CONSTANTS
  Ids = {c1, c2, c3}
  Names = {n1, n2}
  Projects = {p1}
  Workers = {w1, w2}
  Services = {n1, n2}
  NoId = NoId
  NoProject = NoProject
  MaxChanges = 2
SYMMETRY Symmetry
INVARIANTS
  OnlyCheckedContainersChange
  VerdictHasAWitness
  SuccessIsReal
  DeployedIsRunning
