SPECIFICATION ResetSpec
CONSTANTS
  Editor = {e1, e2}
  MaxProjects = 3
  Outside = {2}
  NoProject = NoProject
INVARIANTS LeftOverByOverlap
