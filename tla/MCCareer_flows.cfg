SPECIFICATION Spec
CONSTANTS
  Jobs = {j1, j2}
  Testimonials = {t1}
  Workers = {w1, w2}
  Cooldowns = {0, 1}
  MaxDay = 1
  MaxApps = 3
  MaxEdits = 2
SYMMETRY Symmetry
INVARIANTS DeletionFinal QuietEditsKept BurstBounded
