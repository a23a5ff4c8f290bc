------------------------------ MODULE MCCameras ------------------------------
(* Cameras on small instances: every source of either feed alone, with outages, *)
(* and two feeds that share the model and the inference lock, without.          *)
EXTENDS Cameras

MCFeeds == {"front", "rear"}
MCAlone == {s \in [MCFeeds -> Sources] :
              \/ s["front"] = "none" /\ s["rear"] \in {"sdk", "webcam"}
              \/ s["front"] = "cv" /\ s["rear"] = "none"}
MCBoth == {s \in [MCFeeds -> Sources] : s["front"] = "cv" /\ s["rear"] = "sdk"}
MCSetups == MCAlone \cup MCBoth
MCTroubles == [s \in MCSetups |-> IF s \in MCBoth THEN 0 ELSE 2]
=============================================================================
