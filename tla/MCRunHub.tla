------------------------------- MODULE MCRunHub -------------------------------
(* What RunHub keeps: two runs that compete for a session, and the events of   *)
(* one; and what one of them was accepted with.  A behaviour moves one of the  *)
(* three.                                                                      *)
EXTENDS MCRunLifecycle, RunStream, RuntimeSnapshot

CONSTANT c1

VARIABLE part
hubVars == <<vars, streamVars, snapshotVars, part>>

InReading == <<"channel", "memory", "enabled", "model">>

HubInit ==
  /\ part \in {"runs", "stream", "snapshot"}
  /\ Init /\ StreamInit /\ SnapshotInit /\ (part # "stream" => kinds = <<>>)
HubNext ==
  /\ UNCHANGED part
  /\ \/ part = "runs" /\ Next /\ UNCHANGED <<streamVars, snapshotVars>>
     \/ part = "stream" /\ StreamNext /\ UNCHANGED <<vars, snapshotVars>>
     \/ part = "snapshot" /\ SnapshotNext /\ UNCHANGED <<vars, streamVars>>

(* Handlers run, and every run ends (RunLifecycle!ReservationsEnd).  No client *)
(* has to connect or to stay.                                                  *)
HubFairness ==
  /\ WF_hubVars(part = "stream" /\ Terminate /\ UNCHANGED <<vars, snapshotVars, part>>)
  /\ \A c \in Clients : WF_hubVars(part = "stream" /\ Forward(c) /\ UNCHANGED <<vars, snapshotVars, part>>)

HubSpec == HubInit /\ [][HubNext]_hubVars /\ HubFairness
=============================================================================
