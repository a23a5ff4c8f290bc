\* The answer to the write that starts a jog is lost.
CONSTANTS
  slide = slide
  gimbal = gimbal
  AxisWords <- MCAxes
  PanelWords <- MCNone
  AugerWord = "auger"
  PlanterWord = "planter"
  MovingWord = "moving"
  Kinds = {"jogStart", "jogStop", "press"}
  Refusing = {}
  Faults = {"late"}
  JogDeadman = 1
  Cooldown = 1
  OpSlack = 1
  CheckSlack = 1
SYMMETRY MCSymmetry
SPECIFICATION Spec
INVARIANTS
  JogBound
