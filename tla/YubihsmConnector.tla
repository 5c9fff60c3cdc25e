-------------------------- MODULE YubihsmConnector --------------------------
(***************************************************************************)
(* How tmkms processes share one YubiHSM 2 (yubihsm.rs).  The KMS, started *)
(* with `tmkms start`, claims the USB device and may serve it over HTTP;   *)
(* `tmkms yubihsm` commands run beside it and reach the device through     *)
(* that server or through an adapter of their own.  All processes read the *)
(* same configuration, and each starts, fails and ends on its own.         *)
(***************************************************************************)

CONSTANTS
    Kms,        \* the `tmkms start` process
    Commands,   \* `tmkms yubihsm` processes
    Settings,   \* the [[providers.yubihsm]] sections they may read
    None

Processes == {Kms} \cup Commands

\* AdapterConfig, and ConnectorServerConfig with its CliConfig.
YubihsmConfig ==
    {c \in [adapter : {"usb", "http"}, connector_server : BOOLEAN, cli : BOOLEAN] :
        c.cli => c.connector_server}

ASSUME ConnectorAssumption ==
    /\ Settings \subseteq YubihsmConfig
    /\ Kms \notin Commands /\ None \notin Processes \cup {"usb", "http", "loopback"}

VARIABLES
    config,         \* the section all processes read
    pc,             \* per process: "down", "connect", "open" or "ready"
    adapter,        \* per process: how its HSM_CONNECTOR reaches the device
    server,         \* per process: the thread of run_connnector_server
    usb             \* the process that has claimed the USB device, or None

vars == <<config, pc, adapter, server, usb>>

Init ==
    /\ config \in Settings
    /\ pc = [p \in Processes |-> "down"]
    /\ adapter = [p \in Processes |-> None]
    /\ server = [p \in Processes |-> "none"]
    /\ usb = None

-----------------------------------------------------------------------------
\* mark_cli_command is called for every `tmkms yubihsm` command.
is_cli_command(p) == p \in Commands

Launch(p) ==
    /\ pc[p] = "down"
    /\ pc' = [pc EXCEPT ![p] = "connect"]
    /\ UNCHANGED <<config, adapter, server, usb>>

MutNotMarked(p) == FALSE

\* CLI overrides: enabled, and in a CLI context.
UsesLoopback(p) == config.connector_server /\ config.cli /\ is_cli_command(p)

MutServerFirst(p) ==
    /\ pc[p] = "connect"
    /\ pc' = [pc EXCEPT ![p] = "open"]
    /\ adapter' = [adapter EXCEPT ![p] = IF UsesLoopback(p) THEN "loopback" ELSE config.adapter]
    /\ server' = [server EXCEPT ![p] = IF config.connector_server THEN "starting" ELSE @]
    /\ UNCHANGED <<config, usb>>

\* init_connector: the loopback to laddr; or the configured adapter, and the
\* server's thread if one is configured.
InitConnector(p) ==
    /\ pc[p] = "connect"
    /\ pc' = [pc EXCEPT ![p] = "open"]
    /\ IF UsesLoopback(p)
       THEN /\ adapter' = [adapter EXCEPT ![p] = "loopback"]
            /\ UNCHANGED server
       ELSE /\ adapter' = [adapter EXCEPT ![p] = config.adapter]
            /\ server' = [server EXCEPT ![p] =
                            IF config.connector_server THEN "starting" ELSE @]
    /\ UNCHANGED <<config, usb>>

UsbFreeFor(p) == usb \in {None, p}

Serving(p) == server[p] = "listening" /\ (adapter[p] = "usb" => UsbFreeFor(p))

\* Client::open: a session over USB claims the device, for the process that
\* serves it when it comes through the loopback.
OpenClient(p) ==
    /\ pc[p] = "open"
    /\ \/ adapter[p] = "usb" /\ UsbFreeFor(p) /\ usb' = p
       \/ adapter[p] = "http" /\ UNCHANGED usb
       \/ /\ adapter[p] = "loopback"
          /\ \E q \in Processes :
                Serving(q) /\ usb' = IF adapter[q] = "usb" THEN q ELSE usb
    /\ pc' = [pc EXCEPT ![p] = "ready"]
    /\ UNCHANGED <<config, adapter, server>>

\* The process ends: the client cannot be opened, the command is done, or
\* it is stopped.  Its threads and what it claimed go with it.
End(p) ==
    /\ pc[p] # "down"
    /\ pc' = [pc EXCEPT ![p] = "down"]
    /\ adapter' = [adapter EXCEPT ![p] = None]
    /\ server' = [server EXCEPT ![p] = "none"]
    /\ usb' = IF usb = p THEN None ELSE usb
    /\ UNCHANGED config

-----------------------------------------------------------------------------
(* run_connnector_server                                                   *)

Taken == \E q \in Processes : server[q] = "listening"

\* Server::new binds laddr, unless another process has it.
StartServer(p) ==
    /\ server[p] = "starting" /\ ~ Taken
    /\ server' = [server EXCEPT ![p] = "listening"]
    /\ UNCHANGED <<config, pc, adapter, usb>>

\* Server::new fails, for this or any other reason, and `expect` panics: the
\* thread is gone, the process goes on without it.
StartFails(p) ==
    /\ server[p] = "starting"
    /\ server' = [server EXCEPT ![p] = "panicked"]
    /\ UNCHANGED <<config, pc, adapter, usb>>

\* server.run() returns: the loop starts another one.
ServerCrashes(p) ==
    /\ server[p] = "listening"
    /\ server' = [server EXCEPT ![p] = "starting"]
    /\ UNCHANGED <<config, pc, adapter, usb>>

Next ==
    \E p \in Processes :
        \/ Launch(p) \/ InitConnector(p) \/ OpenClient(p) \/ End(p)
        \/ StartServer(p) \/ StartFails(p) \/ ServerCrashes(p)

Spec == Init /\ [][Next]_vars

-----------------------------------------------------------------------------
ConnectorTypeOK ==
    /\ config \in Settings
    /\ pc \in [Processes -> {"down", "connect", "open", "ready"}]
    /\ adapter \in [Processes -> {"usb", "http", "loopback", None}]
    /\ server \in [Processes -> {"none", "starting", "listening", "panicked"}]
    /\ usb \in Processes \cup {None}

\* "This allows administration of YubiHSMs ... via `tmkms yubihsm` while the
\* KMS is running": with a `cli` section a command never holds the device
\* that the KMS uses, in whatever order they start and end, so it neither
\* keeps the KMS from starting nor takes its device.
KmsKeepsUsb == config.cli => \A c \in Commands : usb # c

\* Server::new panics for good, so a crashed server must find its address
\* free when it is started again: with a `cli` section the KMS's server is
\* never lost to a command that bound the address in between, only to a
\* failure of the system (init_connector, run_connnector_server).
AddressLeftToKms ==
    [][config.cli /\ server[Kms] = "starting" /\ server'[Kms] = "panicked" => ~ Taken]_vars

\* What makes KmsKeepsUsb inductive: a process that has not connected holds
\* nothing, the process that holds the device has claimed it over USB, and
\* with a `cli` section no command gets an adapter or a server of its own
\* (init_connector).
ConnectorInv ==
    /\ ConnectorTypeOK
    /\ \A p \in Processes :
        pc[p] \in {"down", "connect"} => adapter[p] = None /\ server[p] = "none"
    /\ usb # None => adapter[usb] = "usb"
    /\ config.cli =>
        \A c \in Commands : adapter[c] \in {"loopback", None} /\ server[c] = "none"
=============================================================================
