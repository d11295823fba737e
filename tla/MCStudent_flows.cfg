SPECIFICATION Spec
CONSTANTS
  Workers = {w1, w2}
  MaxPlans = 3
  MaxSaves = 3
  Priced = {TRUE, FALSE}
SYMMETRY Symmetry
VIEW Relevant
CONSTRAINT Budget
INVARIANTS EditSettlesFlag OrphansBounded FlagEarned PlansBounded
PROPERTY SwitchedOffForGood
