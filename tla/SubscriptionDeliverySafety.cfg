\* Three requests and two deliveries overlap, two calls fail.
CONSTANTS
  c1 = c1
  c2 = c2
  c3 = c3
  w1 = w1
  w2 = w2
  Client = {c1, c2, c3}
  Worker = {w1, w2}
  MaxPosts = 2
  MaxRows = 3
  MaxFailures = 2
SPECIFICATION Spec
INVARIANTS TypeOK NeverOvercounted
PROPERTY AloneImplementsMap
SYMMETRY MCSymmetry
