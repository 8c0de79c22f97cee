\* Three accessors and three resources: chains of waits of any length that fits.
SPECIFICATION Spec
CONSTANTS
  Accessors = {a1, a2, a3}
  Resources = {r1, r2, r3}
  None = None
INVARIANTS TypeOK DirectionsAgree NoCycle
PROPERTIES AnswerIsRight SearchEnds
