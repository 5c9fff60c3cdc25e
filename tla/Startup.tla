------------------------------ MODULE Startup ------------------------------
(***************************************************************************)
(* The life of the KMS process around its sessions: the chain registry and *)
(* the keyrings are filled from the configuration (chain.rs,               *)
(* chain/registry.rs, keyring.rs), the client threads are spawned one by   *)
(* one (client.rs), and the main thread then joins them or runs the        *)
(* transaction signer (commands/start.rs). Clients serve their validators  *)
(* from the moment they are spawned, while the main thread goes on.        *)
(***************************************************************************)
EXTENDS KeyRing

CONSTANTS
    Configs   \* the configurations (tmkms.toml) the process may be started with

ValidatorConfig == [chain_id : Chains, reconnect : BOOLEAN]

KmsConfig == [chain : Seq(Chains), providers : ProviderConfig,
              validator : Seq(ValidatorConfig), tx_signer : Nat]

(* Every entry names its own section's provider, a Ledger key is a consensus *)
(* key, and a second yubihsm section is there only beside keys.              *)
WellFormed(p) ==
    /\ \A i \in DOMAIN p.softsign : /\ p.softsign[i].provider = "SoftSign"
                                    /\ p.softsign[i].found \in KeyFormat
    /\ \A i \in DOMAIN p.yubihsm : p.yubihsm[i].provider = "Yubihsm"
    /\ \A i \in DOMAIN p.ledgertm : /\ p.ledgertm[i].provider = "LedgerTm"
                                    /\ p.ledgertm[i].key_type = "Consensus"
    /\ \A i \in DOMAIN p.fortanixdsm : p.fortanixdsm[i].provider = "FortanixDsm"
    /\ p.yubihsm # <<>> <=> p.yubihsm_sections > 0

ASSUME ConfigsAssumption == \A c \in Configs : c \in KmsConfig /\ WellFormed(c.providers)

VARIABLES
    config,         \* the configuration of this process
    pc,             \* where the main thread is
    chain_at,       \* the next [[chain]] to register
    entry_at,       \* the next key of the providers to load
    id_at,          \* the next of its chain_ids; 0 until the key is loaded
    client_at,      \* the next client to spawn or to join
    registered,     \* the chain IDs in the registry
    keyring,        \* per key type and chain: its ecdsa_keys or ed25519_keys
    client,         \* per [[validator]]: its thread
    success,        \* blocking_wait has joined no failed client
    status,         \* the exit status, None while the process runs
    reported,       \* <<chain, key>>: the public keys reported to validators
    signedBy        \* <<chain, key>>: the keys that signed for validators

loading == <<chain_at, entry_at, id_at>>
registry == <<registered, keyring>>
vars == <<config, pc, loading, client_at, registry, client, success, status, reported, signedBy>>

Clients == DOMAIN config.validator
AllEntries == Entries(config.providers)
Here == AllEntries[entry_at]

Init ==
    /\ config \in Configs
    /\ pc = "chains"
    /\ chain_at = 1 /\ entry_at = 1 /\ id_at = 0 /\ client_at = 1
    /\ registered = {}
    /\ keyring = [t \in KeyType |-> [c \in Chains |-> NewRing]]
    /\ client = [i \in Clients |-> "unspawned"]
    /\ success = TRUE
    /\ status = None
    /\ reported = {} /\ signedBy = {}

(* The process ends, and its threads with it. *)
ProcessExit(code) ==
    /\ pc' = "exited"
    /\ status' = code
    /\ client' = [i \in Clients |-> IF client[i] = "running" THEN "killed" ELSE client[i]]

-----------------------------------------------------------------------------
(* chain::load_config: the chains, then the keys of the providers. Its      *)
(* first error ends the process.                                            *)

(* Registry::register_chain replaces a chain before it refuses it. *)
RegisterChain ==
    /\ pc = "chains" /\ chain_at <= Len(config.chain)
    /\ LET c == config.chain[chain_at] IN
       /\ registered' = registered \cup {c}
       /\ keyring' = [t \in KeyType |-> [keyring[t] EXCEPT ![c] = NewRing]]
       /\ IF c \in registered THEN ProcessExit(1) /\ UNCHANGED chain_at
          ELSE chain_at' = chain_at + 1 /\ UNCHANGED <<pc, status, client>>
    /\ UNCHANGED <<config, entry_at, id_at, client_at, success, reported, signedBy>>

(* Chain::from_config fails: the state file, or a hook that fails closed. *)
ChainFails ==
    /\ pc = "chains" /\ chain_at <= Len(config.chain)
    /\ ProcessExit(1)
    /\ UNCHANGED <<config, loading, client_at, registry, success, reported, signedBy>>

ChainsRegistered ==
    /\ pc = "chains" /\ chain_at > Len(config.chain)
    /\ pc' = "keys"
    /\ UNCHANGED <<config, loading, client_at, registry, client, success, status,
                   reported, signedBy>>

LoadKey ==
    /\ pc = "keys" /\ entry_at <= Len(AllEntries) /\ id_at = 0
    /\ IF ProviderAccepts(config.providers, entry_at)
       THEN id_at' = 1 /\ UNCHANGED <<pc, status, client>>
       ELSE ProcessExit(1) /\ UNCHANGED id_at
    /\ UNCHANGED <<config, chain_at, entry_at, client_at, registry, success, reported, signedBy>>

(* The key file, the device or the service cannot be read.  A Ledger that   *)
(* does not give its public key, or a priv_validator key file that holds no *)
(* Ed25519 key, makes the main thread panic.                                *)
PanicsOnLoad(e) ==
    \/ e.provider = "LedgerTm"
    \/ e.provider = "SoftSign" /\ e.key_type = "Consensus" /\ e.found = "Json"

LoadFails ==
    /\ pc = "keys" /\ entry_at <= Len(AllEntries) /\ id_at = 0
    /\ ProcessExit(1) \/ (PanicsOnLoad(Here) /\ ProcessExit(101))
    /\ UNCHANGED <<config, loading, client_at, registry, success, reported, signedBy>>

(* Registry::add_account_key or add_consensus_key, for the next chain_id. *)
AddKey ==
    /\ pc = "keys" /\ entry_at <= Len(AllEntries) /\ id_at \in DOMAIN Here.chain_ids
    /\ LET c == Here.chain_ids[id_at]
           ring == keyring[Here.key_type][c]
       IN IF c \notin registered THEN ProcessExit(1) /\ UNCHANGED <<keyring, id_at>>
          ELSE /\ keyring' = [keyring EXCEPT ![Here.key_type][c] = Insert(ring, Here)]
               /\ IF Duplicate(ring, Here) THEN ProcessExit(1) /\ UNCHANGED id_at
                  ELSE id_at' = id_at + 1 /\ UNCHANGED <<pc, status, client>>
    /\ UNCHANGED <<config, chain_at, entry_at, client_at, registered, success, reported, signedBy>>

NextKey ==
    /\ pc = "keys" /\ entry_at <= Len(AllEntries) /\ id_at > Len(Here.chain_ids)
    /\ entry_at' = entry_at + 1 /\ id_at' = 0
    /\ UNCHANGED <<config, pc, chain_at, client_at, registry, client, success, status,
                   reported, signedBy>>

KeysLoaded ==
    /\ pc = "keys" /\ entry_at > Len(AllEntries)
    /\ pc' = "spawn"
    /\ UNCHANGED <<config, loading, client_at, registry, client, success, status,
                   reported, signedBy>>

-----------------------------------------------------------------------------
(* spawn_clients and run_app, in the main thread.                           *)

(* Client::spawn; an unregistered chain ends the process, and with it the   *)
(* clients that already serve.                                              *)
SpawnClient ==
    /\ pc = "spawn" /\ client_at \in Clients
    /\ IF config.validator[client_at].chain_id \in registered
       THEN /\ client' = [client EXCEPT ![client_at] = "running"]
            /\ client_at' = client_at + 1
            /\ UNCHANGED <<pc, status>>
       ELSE ProcessExit(1) /\ UNCHANGED client_at
    /\ UNCHANGED <<config, loading, registry, success, reported, signedBy>>

SpawnFails ==
    /\ pc = "spawn" /\ client_at \in Clients
    /\ ProcessExit(1)
    /\ UNCHANGED <<config, loading, client_at, registry, success, reported, signedBy>>

(* run_app: several transaction signers are an unimplemented!() panic. *)
RunApp ==
    /\ pc = "spawn" /\ client_at \notin Clients
    /\ CASE config.tx_signer = 0 -> pc' = "join" /\ client_at' = 1 /\ UNCHANGED <<client, status>>
         [] config.tx_signer = 1 -> pc' = "executor" /\ UNCHANGED <<client_at, client, status>>
         [] OTHER -> ProcessExit(101) /\ UNCHANGED client_at
    /\ UNCHANGED <<config, loading, registry, success, reported, signedBy>>

MutJoinIgnoresError ==
    /\ pc = "join" /\ client_at \in Clients /\ client[client_at] = "failed"
    /\ client_at' = client_at + 1
    /\ UNCHANGED <<config, pc, loading, registry, client, success, status, reported, signedBy>>

MutFirstFailureEnds ==
    /\ pc = "join" /\ client_at \in Clients /\ client[client_at] = "failed"
    /\ success' = FALSE
    /\ ProcessExit(1)
    /\ UNCHANGED <<config, loading, client_at, registry, reported, signedBy>>

(* blocking_wait joins the clients in order; one ends only with an error. *)
Join ==
    /\ pc = "join" /\ client_at \in Clients /\ client[client_at] = "failed"
    /\ success' = FALSE
    /\ client_at' = client_at + 1
    /\ UNCHANGED <<config, pc, loading, registry, client, status, reported, signedBy>>

Shutdown ==
    /\ pc = "join" /\ client_at \notin Clients
    /\ ProcessExit(IF success THEN 0 ELSE 1)
    /\ UNCHANGED <<config, loading, client_at, registry, success, reported, signedBy>>

(* TxSigner::new or the executor fails. *)
ExecutorFails ==
    /\ pc = "executor"
    /\ ProcessExit(1)
    /\ UNCHANGED <<config, loading, client_at, registry, success, reported, signedBy>>

-----------------------------------------------------------------------------
(* The client threads: only the keys their sessions use.                    *)

ChainOf(i) == config.validator[i].chain_id

(* A session that fails is reopened (reconnect), or the thread ends. *)
SessionFails(i) ==
    /\ client[i] = "running"
    /\ client' = [client EXCEPT ![i] = IF config.validator[i].reconnect THEN "running" ELSE "failed"]
    /\ UNCHANGED <<config, pc, loading, client_at, registry, success, status, reported, signedBy>>

(* Session::get_public_key; its error is a failure of the session. *)
GetPublicKey(i) ==
    /\ client[i] = "running"
    /\ LET k == default_ed25519_pubkey(keyring["Consensus"][ChainOf(i)]) IN
       k # None /\ reported' = reported \cup {<<ChainOf(i), k>>}
    /\ UNCHANGED <<config, pc, loading, client_at, registry, client, success, status, signedBy>>

(* Session::sign asks the keyring for its only key. *)
Sign(i) ==
    /\ client[i] = "running"
    /\ LET k == sign_ed25519(keyring["Consensus"][ChainOf(i)]) IN
       k # None /\ signedBy' = signedBy \cup {<<ChainOf(i), k>>}
    /\ UNCHANGED <<config, pc, loading, client_at, registry, client, success, status, reported>>
-----------------------------------------------------------------------------
Load == \/ RegisterChain \/ ChainFails \/ ChainsRegistered
        \/ LoadKey \/ LoadFails \/ AddKey \/ NextKey \/ KeysLoaded

(* The steps of the main thread that wait for nothing but a joined thread. *)
Main == Load \/ SpawnClient \/ SpawnFails \/ RunApp \/ Join \/ Shutdown

Exited == pc = "exited" /\ UNCHANGED vars

Next == \/ Main \/ ExecutorFails \/ Exited
        \/ \E i \in Clients : SessionFails(i) \/ GetPublicKey(i) \/ Sign(i)

(* The operating system runs the main thread. *)
Spec == Init /\ [][Next]_vars /\ WF_vars(Main)

-----------------------------------------------------------------------------
StartTypeOK ==
    /\ config \in Configs
    /\ pc \in {"chains", "keys", "spawn", "join", "executor", "exited"}
    /\ chain_at \in 1 .. Len(config.chain) + 1
    /\ entry_at \in 1 .. Len(AllEntries) + 1
    /\ id_at \in Nat
    /\ client_at \in 1 .. Len(config.validator) + 1
    /\ registered \subseteq Chains
    /\ keyring \in [KeyType -> [Chains -> Ring]]
    /\ client \in [Clients -> {"unspawned", "running", "failed", "killed"}]
    /\ success \in BOOLEAN
    /\ status \in {None, 0, 1, 101}
    /\ reported \subseteq Chains \X Keys
    /\ signedBy \subseteq Chains \X Keys

Lists(e, t, k, c) == e.key_type = t /\ e.key = k /\ \E j \in DOMAIN e.chain_ids : e.chain_ids[j] = c

(* All or nothing: once any client has served, every configured chain is    *)
(* registered, no chain ID was there twice, and the keyring of each chain   *)
(* holds exactly the keys that list it, each under the one provider that    *)
(* lists it. A load that fails half-way (a second [[chain]] of the same ID, *)
(* a key given by two providers, an unknown chain_id) is never served, even *)
(* though register_chain and add_ed25519 replace before they refuse.        *)
ServesConfiguredKeys ==
    (\E i \in Clients : client[i] # "unspawned") =>
        /\ \A i, j \in DOMAIN config.chain : config.chain[i] = config.chain[j] => i = j
        /\ registered = {config.chain[i] : i \in DOMAIN config.chain}
        /\ \A i \in DOMAIN AllEntries : \A j \in DOMAIN AllEntries[i].chain_ids :
                AllEntries[i].chain_ids[j] \in registered
        /\ \A t \in KeyType, c \in Chains, k \in Keys :
              \/ /\ keyring[t][c][k] = None
                 /\ \A i \in DOMAIN AllEntries : ~ Lists(AllEntries[i], t, k, c)
              \/ \E i \in DOMAIN AllEntries :
                    /\ keyring[t][c][k] = AllEntries[i].provider
                    /\ \A h \in DOMAIN AllEntries : Lists(AllEntries[h], t, k, c) <=> h = i

(* "Chains this signing key is authorized to be used from": a session signs *)
(* for its chain only with a consensus key whose entry lists that chain.    *)
AuthorizedChains ==
    \A s \in signedBy : \E i \in DOMAIN AllEntries : Lists(AllEntries[i], "Consensus", s[2], s[1])

(* What get_public_key reports to a validator and what sign uses for it is  *)
(* the only consensus key of its chain, so they are the same key: for a     *)
(* chain with several, or none, default_ed25519_pubkey and sign_ed25519     *)
(* both fail.                                                               *)
OnlyKeySigns ==
    \A s \in reported \cup signedBy : KeysOf(keyring["Consensus"][s[1]]) = {s[2]}

(* Exit status 0 is never reported after a client failed or was cut off     *)
(* while it served: blocking_wait keeps the failure of any client it joins. *)
ExitReportsFailures ==
    status = 0 => \A i \in Clients : client[i] = "unspawned"

(* When every client has given up, in whatever order, blocking_wait gets    *)
(* past them all and the process ends with status 1.                        *)
EndsWhenClientsEnd ==
    (pc = "join" /\ Clients # {} /\ \A i \in Clients : client[i] = "failed") ~> status = 1

(* While it waits for its clients, the process ends only once each of them  *)
(* has given up: no validator is cut off because another one failed, and a  *)
(* client that reconnects keeps the process running (blocking_wait,         *)
(* main_loop).                                                              *)
ServesToTheLast ==
    [][pc = "join" /\ pc' # "join" =>
          \A i \in Clients : client[i] = "failed" /\ ~ config.validator[i].reconnect]_vars

(* The clients that were joined have given up, and only those may that do   *)
(* not reconnect.                                                           *)
JoinedEnded ==
    /\ pc = "join" => \A i \in 1 .. client_at - 1 : client[i] = "failed"
    /\ \A i \in Clients : client[i] = "failed" => ~ config.validator[i].reconnect

(* What load_config, spawn_clients and run_app accept: chains listed once,  *)
(* keys that their providers accept, no key twice for a chain, only listed  *)
(* chains, and no second transaction signer.                                *)
Loadable(c) ==
    LET es == Entries(c.providers)
        listed == {c.chain[i] : i \in DOMAIN c.chain}
    IN /\ \A i, j \in DOMAIN c.chain : c.chain[i] = c.chain[j] => i = j
       /\ \A i \in DOMAIN es :
             /\ ProviderAccepts(c.providers, i)
             /\ \A j \in DOMAIN es[i].chain_ids :
                   /\ es[i].chain_ids[j] \in listed
                   /\ \A h \in DOMAIN es : \A l \in DOMAIN es[h].chain_ids :
                         /\ es[h].key_type = es[i].key_type /\ es[h].key = es[i].key
                         /\ es[h].chain_ids[l] = es[i].chain_ids[j]
                         => h = i /\ l = j
       /\ \A v \in DOMAIN c.validator : c.validator[v].chain_id \in listed
       /\ c.tx_signer <= 1

(* The consensus keys that a configuration lists for a chain. *)
ConsensusKeys(cf, c) ==
    LET es == Entries(cf.providers)
    IN {es[i].key : i \in {h \in DOMAIN es : Lists(es[h], "Consensus", es[h].key, c)}}

(* What the main thread does when no file, device or thread fails it. *)
Unfailing ==
    \/ RegisterChain \/ ChainsRegistered \/ LoadKey \/ AddKey \/ NextKey \/ KeysLoaded
    \/ SpawnClient \/ RunApp

CanSign(i) == sign_ed25519(keyring["Consensus"][ChainOf(i)]) # None

(* Only correct configurations are served past start-up. *)
ServesOnlyLoadable == pc \in {"join", "executor"} => Loadable(config)

(* Start-up goes through for exactly the correct configurations: one is     *)
(* never turned away unless a file, a device or a thread fails, however the *)
(* keys of several providers and chains are mixed; no other gets past       *)
(* run_app; and then a validator can be signed for exactly if its chain has *)
(* one consensus key (load_config, spawn_clients, run_app).                 *)
LoadableServes ==
    [][Unfailing =>
         /\ Loadable(config) => pc' # "exited"
         /\ pc' \in {"join", "executor"} =>
               /\ Loadable(config)
               /\ \A i \in Clients :
                     CanSign(i) <=> \E k \in Keys : ConsensusKeys(config, ChainOf(i)) = {k}]_vars

-----------------------------------------------------------------------------
(* The conjuncts that make the safety properties inductive.                 *)

Serving == \E i \in Clients : client[i] # "unspawned"

(* The chains before chain_at are registered, once each. *)
RegisteredSoFar ==
    /\ registered = {config.chain[i] : i \in 1 .. chain_at - 1}
    /\ \A i, j \in 1 .. chain_at - 1 : config.chain[i] = config.chain[j] => i = j

(* The j-th chain_id of the i-th key has been dealt with. *)
Added(i, j) == i < entry_at \/ (i = entry_at /\ j < id_at)

AddedFor(i, t, k, c) ==
    /\ AllEntries[i].key_type = t /\ AllEntries[i].key = k
    /\ \E j \in DOMAIN AllEntries[i].chain_ids : Added(i, j) /\ AllEntries[i].chain_ids[j] = c

(* The keyrings hold what was added, each key from one entry. *)
AddedSoFar ==
    /\ \A i \in DOMAIN AllEntries : \A j \in DOMAIN AllEntries[i].chain_ids :
          Added(i, j) => AllEntries[i].chain_ids[j] \in registered
    /\ \A t \in KeyType, c \in Chains, k \in Keys :
          \/ /\ keyring[t][c][k] = None
             /\ \A i \in DOMAIN AllEntries : ~ AddedFor(i, t, k, c)
          \/ \E i \in DOMAIN AllEntries :
                /\ keyring[t][c][k] = AllEntries[i].provider
                /\ \A h \in DOMAIN AllEntries : AddedFor(h, t, k, c) <=> h = i

StartInv ==
    /\ StartTypeOK
    /\ pc = "chains" => /\ RegisteredSoFar /\ entry_at = 1 /\ id_at = 0
                        /\ keyring = [t \in KeyType |-> [c \in Chains |-> NewRing]]
    /\ pc \in {"chains", "keys"} => ~ Serving /\ reported = {} /\ signedBy = {}
    /\ pc \in {"keys", "spawn", "join", "executor"} \/ Serving =>
          chain_at = Len(config.chain) + 1 /\ RegisteredSoFar /\ AddedSoFar
    /\ pc \in {"spawn", "join", "executor"} \/ Serving => entry_at = Len(AllEntries) + 1
    /\ reported # {} \/ signedBy # {} => Serving
    /\ OnlyKeySigns
    /\ pc = "join" /\ success => client_at = 1
    /\ status = 0 => Clients = {}

(* The keys so far are acceptable, and none was added twice to a chain. *)
AcceptedSoFar ==
    /\ \A i \in DOMAIN AllEntries :
          i < entry_at \/ (i = entry_at /\ id_at > 0) => ProviderAccepts(config.providers, i)
    /\ \A i, h \in DOMAIN AllEntries :
          \A j \in DOMAIN AllEntries[i].chain_ids, l \in DOMAIN AllEntries[h].chain_ids :
             /\ Added(i, j) /\ Added(h, l)
             /\ AllEntries[h].key_type = AllEntries[i].key_type
             /\ AllEntries[h].key = AllEntries[i].key
             /\ AllEntries[h].chain_ids[l] = AllEntries[i].chain_ids[j]
             => h = i /\ l = j

LoadInv ==
    /\ pc \in {"chains", "keys"} => client_at = 1
    /\ pc \in {"keys", "spawn", "join", "executor"} => AcceptedSoFar
    /\ pc = "spawn" => \A v \in Clients : v < client_at => ChainOf(v) \in registered
    /\ pc \in {"join", "executor"} => /\ \A v \in Clients : ChainOf(v) \in registered
                                      /\ config.tx_signer <= 1
=============================================================================
