---------------------------- MODULE MCExpertTeam ----------------------------
(* ExpertTeam for TLC: the model is used everywhere or nowhere.             *)
EXTENDS ExpertTeam

Everything == [intent |-> TRUE, experts |-> TRUE]
Nowhere == [intent |-> FALSE, experts |-> FALSE]
MCClients == {Everything, Nowhere}
=============================================================================
