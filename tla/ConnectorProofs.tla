-------------------------- MODULE ConnectorProofs --------------------------
(***************************************************************************)
(* Proofs about YubihsmConnector, for any number of commands and every     *)
(* configuration they may share with the KMS.                              *)
(***************************************************************************)
EXTENDS YubihsmConnector, TLAPS

\* CliConfig is part of ConnectorServerConfig.
LEMMA Configured ==
    ASSUME config \in Settings
    PROVE  /\ config.adapter \in {"usb", "http"}
           /\ config.cli => config.connector_server
BY ConnectorAssumption DEF YubihsmConfig

\* Nothing runs, and nothing is claimed.
LEMMA InitHolds == Init => ConnectorInv
BY ConnectorAssumption DEF Init, ConnectorInv, ConnectorTypeOK, Processes

LEMMA LaunchStep ==
    ASSUME ConnectorInv, NEW p \in Processes, Launch(p)
    PROVE  ConnectorInv'
BY DEF ConnectorInv, ConnectorTypeOK, Launch

\* InitConnector gives a command of a `cli` configuration the loopback, and
\* starts a server only for the other processes.
LEMMA InitConnectorStep ==
    ASSUME ConnectorInv, NEW p \in Processes, InitConnector(p)
    PROVE  ConnectorInv'
<1> USE DEF ConnectorInv, ConnectorTypeOK, InitConnector
<1>1. ConnectorTypeOK'
  BY Configured
<1>2. \A q \in Processes :
        pc'[q] \in {"down", "connect"} => adapter'[q] = None /\ server'[q] = "none"
  OBVIOUS
<1>3. usb' # None => adapter'[usb'] = "usb"
  BY ConnectorAssumption
<1>4. config.cli =>
        \A c \in Commands : adapter'[c] \in {"loopback", None} /\ server'[c] = "none"
  BY Configured DEF UsesLoopback, is_cli_command, Processes
<1> QED BY <1>1, <1>2, <1>3, <1>4

\* A client over the loopback claims the device for the process that serves
\* it, one that runs and has the USB adapter.
LEMMA OpenClientStep ==
    ASSUME ConnectorInv, NEW p \in Processes, OpenClient(p)
    PROVE  ConnectorInv'
BY DEF ConnectorInv, ConnectorTypeOK, OpenClient, Serving

LEMMA EndStep ==
    ASSUME ConnectorInv, NEW p \in Processes, End(p)
    PROVE  ConnectorInv'
BY ConnectorAssumption DEF ConnectorInv, ConnectorTypeOK, End, Processes

\* A command of a `cli` configuration has no server that could start.
LEMMA ServerStep ==
    ASSUME ConnectorInv, NEW p \in Processes, StartServer(p) \/ StartFails(p) \/ ServerCrashes(p)
    PROVE  ConnectorInv'
BY DEF ConnectorInv, ConnectorTypeOK, StartServer, StartFails, ServerCrashes, Processes

LEMMA StepHolds == ConnectorInv /\ [Next]_vars => ConnectorInv'
<1> SUFFICES ASSUME ConnectorInv, [Next]_vars PROVE ConnectorInv'
  OBVIOUS
<1>1. CASE UNCHANGED vars
  BY <1>1 DEF ConnectorInv, ConnectorTypeOK, vars
<1>2. CASE Next
  BY <1>2, LaunchStep, InitConnectorStep, OpenClientStep, EndStep, ServerStep DEF Next
<1> QED BY <1>1, <1>2

LEMMA ConnectorInvariance == Spec => []ConnectorInv
BY InitHolds, StepHolds, PTL DEF Spec

\* Administration beside a running KMS: with a `cli` section no command ever
\* holds the USB device.
THEOREM CommandsLeaveUsb == Spec => []KmsKeepsUsb
<1>1. ConnectorInv => KmsKeepsUsb
  BY ConnectorAssumption DEF ConnectorInv, KmsKeepsUsb, Processes
<1> QED BY <1>1, ConnectorInvariance, PTL

\* With a `cli` section the KMS's server is the only one that ever binds its
\* address: however often it crashes and whatever commands run meanwhile, no
\* command makes Server::new panic and end the loop of run_connnector_server.
THEOREM AddressNeverTaken == Spec => AddressLeftToKms
<1>1. ConnectorInv => (config.cli /\ server[Kms] = "starting" => ~ Taken)
  BY DEF ConnectorInv, Taken, Processes
<1>2. ConnectorInv /\ [Next]_vars =>
        [config.cli /\ server[Kms] = "starting" /\ server'[Kms] = "panicked" => ~ Taken]_vars
  BY <1>1
<1> QED BY <1>2, ConnectorInvariance, PTL DEF Spec, AddressLeftToKms
=============================================================================
