SPECIFICATION Spec
CONSTANTS
  Callers = {watchdog, timer, http}
  Throttle = 3
  Start = 4
  Horizon = 12
INVARIANTS TypeOK ReloginsApart OneLoginPerReservation
SYMMETRY Symmetry
PROPERTY TakesTurns
