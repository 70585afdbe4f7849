SPECIFICATION Spec
CONSTANTS
  s1 = s1
  r1 = r1
  r2 = r2
  r3 = r3
  Senders = {s1}
  Streams = {r1, r2}
  Recvs = {r3}
  Capacities <- SmallCapacities
  Strategies <- AnyStrategy
  MaxSent = 4
 
INVARIANT EndAfterALane
PROPERTY NoOvertaking
PROPERTY EventuallyReceived
CHECK_DEADLOCK FALSE
