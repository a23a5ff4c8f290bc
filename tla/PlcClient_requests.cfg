\* Requests and connects that fail, and words of the handshake that refuse writes.
CONSTANTS
  slide = slide
  gimbal = gimbal
  AxisWords <- MCAxes
  PanelWords <- MCNone
  AugerWord = "auger"
  PlanterWord = "planter"
  MovingWord = "moving"
  Kinds = {"jogStart", "jogStop", "press", "amrPulse", "amrMoving", "amrClear", "startBoth", "stopBoth", "poll", "screen"}
  Refusing = {"auger", "moving"}
  Faults = {"drop"}
  JogDeadman = 1
  Cooldown = 1
  OpSlack = 1
  CheckSlack = 1
SYMMETRY MCSymmetry
SPECIFICATION Spec
INVARIANTS
  JogIsArmed
  SuccessIsReal
  NeverLatched
  NoDeadSocket
PROPERTIES
  ImplementsDeadman
