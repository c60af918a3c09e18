CONSTANTS
  Calls = {c1, c2}
  a1 = a1  a2 = a2  q1 = q1  q2 = q2
  Agents = {a1, a2}
  Queues = {q1, q2}
  Rows <- MCRows
  Includes <- MCIncludes
  MaxEvents = 3
  MaxMishaps = 1
SPECIFICATION Spec
INVARIANTS TypeOK WaitingShown PauseShown
