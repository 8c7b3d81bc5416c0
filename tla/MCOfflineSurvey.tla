--------------------------- MODULE MCOfflineSurvey --------------------------
(* Instances of OfflineSurvey for TLC: how unsteady a visit is.              *)
EXTENDS OfflineSurvey

Visit(net, flap, reload, delete) ==
    [net |-> net, flap |-> flap, reload |-> reload, delete |-> delete]

(* Two failed calls and a loss of the connection; or two losses; or a reload *)
(* with one loss of the connection or one failed call; or one loss of the    *)
(* connection with a response that the survey's owner deletes.               *)
Visits == {Visit(2, 1, 0, 0), Visit(0, 2, 0, 0), Visit(0, 1, 1, 0), Visit(1, 0, 1, 0),
           Visit(0, 1, 0, 1)}

OneLoss == {Visit(0, 1, 0, 0)}
Unlucky == {Visit(1, 1, 0, 0)}
=============================================================================
