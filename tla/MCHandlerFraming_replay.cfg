SPECIFICATION Spec
CONSTANTS
  r1 = r1  r2 = r2
  Requests = {r1, r2}
  Messages <- Lines
  ContentLength <- Lengths
  Cap = 9
  BodyCap = 2
  SockCap = 1
  MaxMessages = 2
INVARIANTS
  EachLineOnce
