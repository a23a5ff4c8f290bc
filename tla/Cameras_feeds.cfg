\* One ZED at a time, or one beside the OpenCV feed; two outages or exceptions.
CONSTANTS
  Feeds <- MCFeeds
  Setups <- MCSetups
  Streamed = {"front", "rear"}
  LostLimit = 2
  MaxTroubles <- MCTroubles
  MaxSession = 3
SPECIFICATION CamerasFairSpec
INVARIANTS
  CamerasTypeOK
  FewLateResults
PROPERTIES
  Recovers
  LiveResults
CHECK_DEADLOCK FALSE
