------------------------------ MODULE MCFeedback ------------------------------
(* Feedback on small instances: a chassis that reports its wheels and one that *)
(* reports its pack.                                                           *)
EXTENDS Feedback

MCSetups == {{"wheel_odom"}, {"battery"}}
\* Back, and to the left, which is more than the right wheel can do.
MCTwists == {<<-1, 0>>, <<1, 1>>}
\* Within the outlier limit of the first counts, and beyond it on the right.
MCGarbled == {<<11, 11>>, <<15, 23>>}
=============================================================================
