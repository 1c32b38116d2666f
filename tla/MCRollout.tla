------------------------------ MODULE MCRollout ------------------------------
(* Instance of Rollout for TLC.                                             *)
EXTENDS Rollout

Good == [environment |-> "production", database |-> "postgresql", provider |-> "ipinfo",
         token |-> "token", providerUrl |-> "https", inRange |-> TRUE]

(* Values that come up, and such as are refused by the rendering, by the    *)
(* migration Job, and only by the pods.                                     *)
ReleasesOfEachKind ==
    {Good, [Good EXCEPT !.token = ""], [Good EXCEPT !.token = "blank"],
     [Good EXCEPT !.provider = "fake"], [Good EXCEPT !.providerUrl = "http"]}
=============================================================================
