------------------------------ MODULE MCSetup ------------------------------
(* setup-jetson.sh run in full, each of its steps by name, or nvme and then *)
(* deploy by name.                                                         *)
EXTENDS Setup

MCFullRun == <<"nvme", "swap", "docker", "deploy", "service">>
MCPlans == {MCFullRun, <<"nvme", "deploy">>} \cup {<<step>> : step \in Steps}
=============================================================================
