-------------------------------- MODULE DemoRun --------------------------------
(***************************************************************************)
(* The demo of scripts/run_ws_demo.sh: a shell script starts the gateway's *)
(* process, waits, runs the demo's process (cmd/ws_client_demo.py) and     *)
(* kills the gateway.  The demo calls its clients in turn, phase by phase; *)
(* a call that raises ends it with an exit status that is not 0.           *)
(***************************************************************************)
EXTENDS Naturals

CONSTANT NumClients  \* --clients

VARIABLES
  script,   \* "start", "sleep", "demo", "kill" or "ended"
  gateway,  \* its process: "none", "starting", "listening" or "stopped"
  phase,    \* the demo: "connect", "hello", "upstream", "collect", "close" or "exit"
  index,    \* the client whose call is next in the phase
  broken    \* the clients whose connections are lost

vars == <<script, gateway, phase, index, broken>>

Init == /\ script = "start" /\ gateway = "none"
        /\ phase = "connect" /\ index = 1 /\ broken = {}

-----------------------------------------------------------------------------
(* The gateway's process *)

\* It listens, or cannot (its port is in use) and ends.
GatewayStarts ==
  /\ gateway = "starting"
  /\ gateway' \in {"listening", "stopped"}
  /\ UNCHANGED <<script, phase, index, broken>>

\* Connected(i): the demo has created its i-th client.
Connected(i) == phase # "connect" \/ i < index

LoseConnection(i) ==
  /\ Connected(i)
  /\ broken' = broken \cup {i}
  /\ UNCHANGED <<script, gateway, phase, index>>

-----------------------------------------------------------------------------
(* The demo's process *)

Following == [connect |-> "hello", hello |-> "upstream", upstream |-> "collect",
              collect |-> "close", close |-> "exit"]

\* The constructor raises when nobody listens.
Refused == phase = "connect" /\ gateway # "listening"

\* A send whose connection is lost may raise or not; collecting and closing do not.
MayRaise == Refused \/ (phase \in {"hello", "upstream"} /\ index \in broken)

\* A call returns: the phase goes on with the next client, or the next phase starts.
CallReturns ==
  /\ script = "demo" /\ phase # "exit" /\ ~Refused
  /\ IF index < NumClients
     THEN index' = index + 1 /\ UNCHANGED phase
     ELSE index' = 1 /\ phase' = Following[phase]
  /\ UNCHANGED <<script, gateway, broken>>

-----------------------------------------------------------------------------
(* The script *)

StartGateway ==
  /\ script = "start"
  /\ script' = "sleep" /\ gateway' = "starting"
  /\ UNCHANGED <<phase, index, broken>>

SleepEnds ==
  /\ script = "sleep"
  /\ script' = "demo"
  /\ UNCHANGED <<gateway, phase, index, broken>>

\* Under set -e a demo that fails ends the script.
DemoEnds ==
  /\ script = "demo"
  /\ \/ phase = "exit" /\ script' = "kill"
     \/ phase # "exit" /\ MayRaise /\ script' = "ended"
  /\ UNCHANGED <<gateway, phase, index, broken>>

KillGateway ==
  /\ script = "kill"
  /\ script' = "ended" /\ gateway' = "stopped"
  /\ UNCHANGED <<phase, index, broken>>

Process == \/ GatewayStarts \/ CallReturns
           \/ StartGateway \/ SleepEnds \/ DemoEnds \/ KillGateway

Next == Process \/ \E i \in 1..NumClients : LoseConnection(i)

Spec == Init /\ [][Next]_vars

\* The processes run.  Nothing makes a connection break.
FairSpec == Spec /\ WF_vars(Process)

\* When the demo has finished, well or not, the script shuts the gateway down: no
\* process that it started is left when it has ended.
GatewayIsShutDown == (script = "ended") ~> (gateway = "stopped")
=============================================================================
