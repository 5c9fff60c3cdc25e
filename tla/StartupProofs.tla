--------------------------- MODULE StartupProofs ---------------------------
(***************************************************************************)
(* Proofs about Startup, for every configuration and any chains and keys.  *)
(***************************************************************************)
EXTENDS Startup, FiniteSetTheorems, TLAPS

-----------------------------------------------------------------------------
(* Facts about configurations and keyrings.                                 *)

LEMMA ConfigTyped ==
    ASSUME config \in Configs
    PROVE  /\ config.chain \in Seq(Chains)
           /\ config.validator \in Seq(ValidatorConfig)
           /\ config.providers \in ProviderConfig
BY ConfigsAssumption DEF KmsConfig

LEMMA EntriesTyped ==
    ASSUME config \in Configs
    PROVE  AllEntries \in Seq(Entry)
<1>1. /\ config.providers.softsign \in Seq(Entry) /\ config.providers.yubihsm \in Seq(Entry)
      /\ config.providers.ledgertm \in Seq(Entry) /\ config.providers.fortanixdsm \in Seq(Entry)
  BY ConfigTyped DEF ProviderConfig
<1> QED BY <1>1 DEF AllEntries, Entries

(* Positions in the configuration count from one. *)
LEMMA Positions ==
    ASSUME config \in Configs
    PROVE  /\ DOMAIN AllEntries = 1 .. Len(AllEntries) /\ Len(AllEntries) \in Nat
           /\ \A i \in DOMAIN AllEntries :
                /\ AllEntries[i] \in Entry /\ Len(AllEntries[i].chain_ids) \in Nat
                /\ DOMAIN AllEntries[i].chain_ids = 1 .. Len(AllEntries[i].chain_ids)
                /\ \A j \in DOMAIN AllEntries[i].chain_ids : AllEntries[i].chain_ids[j] \in Chains
<1>1. AllEntries \in Seq(Entry)
  BY EntriesTyped
<1>2. \A i \in DOMAIN AllEntries : AllEntries[i] \in Entry
  BY <1>1
<1>3. \A e \in Entry : e.chain_ids \in Seq(Chains)
  BY DEF Entry
<1> QED BY <1>1, <1>2, <1>3

LEMMA SingleKey ==
    ASSUME NEW ring \in Ring, Cardinality(KeysOf(ring)) = 1
    PROVE  \E k \in Keys : KeysOf(ring) = {k}
<1>1. IsFiniteSet(KeysOf(ring))
  BY KeysAssumption, FS_Subset DEF KeysOf
<1>2. PICK k : KeysOf(ring) = {k}
  BY <1>1, FS_Singleton
<1> QED BY <1>2 DEF KeysOf

(* default_ed25519_pubkey and sign_ed25519 agree: the only key, or an error. *)
LEMMA DefaultIsOnlyKey ==
    ASSUME NEW ring \in Ring, default_ed25519_pubkey(ring) # None
    PROVE  /\ default_ed25519_pubkey(ring) \in Keys
           /\ KeysOf(ring) = {default_ed25519_pubkey(ring)}
BY SingleKey DEF default_ed25519_pubkey

LEMMA SignerIsOnlyKey ==
    ASSUME NEW ring \in Ring, sign_ed25519(ring) # None
    PROVE  /\ sign_ed25519(ring) \in Keys
           /\ KeysOf(ring) = {sign_ed25519(ring)}
<1>1. IsFiniteSet(KeysOf(ring))
  BY KeysAssumption, FS_Subset DEF KeysOf
<1>2. Cardinality(KeysOf(ring)) \in Nat /\ ~ Cardinality(KeysOf(ring)) > 1 /\ KeysOf(ring) # {}
  BY <1>1, FS_CardinalityType DEF sign_ed25519
<1>3. Cardinality(KeysOf(ring)) = 1
  BY <1>1, <1>2, FS_EmptySet
<1>4. sign_ed25519(ring) = CHOOSE k \in KeysOf(ring) : TRUE
  BY <1>2 DEF sign_ed25519
<1> QED BY <1>3, <1>4, SingleKey

-----------------------------------------------------------------------------
(* Steps that leave the configuration, the registry and the keyrings alone. *)

LEMMA LoadedKept ==
    ASSUME UNCHANGED <<config, registry, loading>>
    PROVE  /\ AllEntries' = AllEntries /\ Clients' = Clients
           /\ RegisteredSoFar' = RegisteredSoFar /\ AddedSoFar' = AddedSoFar
<1>1. AllEntries' = AllEntries /\ Clients' = Clients
  BY DEF AllEntries, Clients
<1>2. RegisteredSoFar' = RegisteredSoFar
  BY DEF RegisteredSoFar, registry, loading
<1>3. AddedSoFar' = AddedSoFar
  BY <1>1 DEF AddedSoFar, AddedFor, Added, registry, loading
<1> QED BY <1>1, <1>2, <1>3

(* The process ends. *)
LEMMA ExitStep ==
    ASSUME StartInv, pc # "exited", NEW code \in {0, 1, 101}, ProcessExit(code),
           code = 0 => Clients = {},
           UNCHANGED <<config, loading, client_at, registry, success, reported, signedBy>>
    PROVE  StartInv'
<1>1. /\ AllEntries' = AllEntries /\ Clients' = Clients
      /\ RegisteredSoFar' = RegisteredSoFar /\ AddedSoFar' = AddedSoFar
  BY LoadedKept
<1>2. client' \in [Clients' -> {"unspawned", "running", "failed", "killed"}]
  BY <1>1 DEF StartInv, StartTypeOK, ProcessExit
<1>3. StartTypeOK'
  BY <1>1, <1>2 DEF StartInv, StartTypeOK, ProcessExit, loading, registry
<1>4. Serving' <=> Serving
  BY <1>1 DEF StartInv, StartTypeOK, Serving, ProcessExit
<1>5. OnlyKeySigns'
  BY DEF StartInv, OnlyKeySigns, registry
<1>6. status' = code /\ pc' = "exited"
  BY DEF ProcessExit
<1> QED BY <1>1, <1>3, <1>4, <1>5, <1>6 DEF StartInv, loading, registry

-----------------------------------------------------------------------------
(* chain::load_config.                                                      *)

(* An error while loading ends the process before any client was spawned,   *)
(* whatever the registry holds by then.                                     *)
LEMMA LoadExit ==
    ASSUME StartInv, pc \in {"chains", "keys"}, NEW code \in {1, 101}, ProcessExit(code),
           UNCHANGED <<config, loading, client_at, success, reported, signedBy>>,
           registered' \subseteq Chains, keyring' \in [KeyType -> [Chains -> Ring]]
    PROVE  StartInv'
<1>1. AllEntries' = AllEntries /\ Clients' = Clients
  BY DEF AllEntries, Clients
<1>2. ~ Serving' /\ client' \in [Clients' -> {"unspawned", "running", "failed", "killed"}]
  BY <1>1 DEF StartInv, StartTypeOK, Serving, ProcessExit
<1>3. StartTypeOK'
  BY <1>1, <1>2 DEF StartInv, StartTypeOK, ProcessExit, loading
<1>4. reported' = {} /\ signedBy' = {}
  BY DEF StartInv
<1>5. OnlyKeySigns'
  BY <1>4 DEF OnlyKeySigns
<1>6. status' = code /\ pc' = "exited"
  BY DEF ProcessExit
<1> QED BY <1>2, <1>3, <1>4, <1>5, <1>6 DEF StartInv

LEMMA RegisterStep ==
    ASSUME StartInv, RegisterChain
    PROVE  StartInv'
<1> DEFINE c == config.chain[chain_at]
<1>1. /\ pc = "chains" /\ chain_at \in 1 .. Len(config.chain) /\ config.chain \in Seq(Chains)
      /\ RegisteredSoFar /\ keyring = [t \in KeyType |-> [d \in Chains |-> NewRing]]
      /\ entry_at = 1 /\ id_at = 0 /\ ~ Serving /\ reported = {} /\ signedBy = {}
  <2>1. config \in Configs /\ chain_at \in 1 .. Len(config.chain) + 1
    BY DEF StartInv, StartTypeOK
  <2>2. config.chain \in Seq(Chains)
    BY <2>1, ConfigTyped
  <2> QED BY <2>1, <2>2 DEF StartInv, RegisterChain
<1>2. c \in Chains
  BY <1>1
<1>3. NewRing \in Ring
  BY DEF NewRing, Ring
<1>4. /\ registered' = registered \cup {c}
      /\ keyring' = [t \in KeyType |-> [keyring[t] EXCEPT ![c] = NewRing]]
      /\ UNCHANGED <<config, entry_at, id_at, client_at, success, reported, signedBy>>
  BY DEF RegisterChain
<1>5. keyring' = [t \in KeyType |-> [d \in Chains |-> NewRing]]
  BY <1>1, <1>2, <1>4
<1>6. registered' \subseteq Chains /\ keyring' \in [KeyType -> [Chains -> Ring]]
  BY <1>2, <1>3, <1>4, <1>5 DEF StartInv, StartTypeOK
<1>7. CASE c \in registered
  BY <1>1, <1>4, <1>6, <1>7, LoadExit DEF RegisterChain, loading
<1>8. CASE c \notin registered
  <2>1. chain_at' = chain_at + 1 /\ UNCHANGED <<pc, status, client>>
    BY <1>8 DEF RegisterChain
  <2>2. AllEntries' = AllEntries /\ Clients' = Clients
    BY <1>4 DEF AllEntries, Clients
  <2>3. StartTypeOK'
    BY <1>1, <1>4, <1>6, <2>1, <2>2 DEF StartInv, StartTypeOK
  <2>4. RegisteredSoFar'
    <3>1. \A i \in 1 .. chain_at - 1 : config.chain[i] # c
      BY <1>1, <1>8 DEF RegisteredSoFar
    <3>2. 1 .. chain_at' - 1 = (1 .. chain_at - 1) \cup {chain_at}
      BY <1>1, <2>1
    <3> QED BY <1>1, <1>4, <3>1, <3>2 DEF RegisteredSoFar
  <2>5. ~ Serving' /\ OnlyKeySigns'
    BY <1>1, <1>4, <2>1, <2>2 DEF Serving, OnlyKeySigns
  <2>6. status' = 0 => Clients' = {}
    BY <2>1, <2>2 DEF StartInv
  <2> QED BY <1>1, <1>4, <1>5, <2>1, <2>3, <2>4, <2>5, <2>6 DEF StartInv
<1> QED BY <1>7, <1>8

LEMMA ChainsRegisteredStep ==
    ASSUME StartInv, ChainsRegistered
    PROVE  StartInv'
<1>1. /\ pc = "chains" /\ pc' = "keys" /\ chain_at = Len(config.chain) + 1
      /\ keyring = [t \in KeyType |-> [d \in Chains |-> NewRing]]
      /\ entry_at = 1 /\ id_at = 0 /\ ~ Serving /\ RegisteredSoFar
  <2>1. config.chain \in Seq(Chains)
    BY ConfigTyped DEF StartInv, StartTypeOK
  <2> QED BY <2>1 DEF StartInv, StartTypeOK, ChainsRegistered
<1>2. UNCHANGED <<config, loading, client_at, registry, client, success, status, reported, signedBy>>
  BY DEF ChainsRegistered
<1>3. /\ AllEntries' = AllEntries /\ Clients' = Clients
      /\ RegisteredSoFar' = RegisteredSoFar /\ AddedSoFar' = AddedSoFar
  BY <1>2, LoadedKept
<1>4. AddedSoFar
  <2>1. config \in Configs
    BY DEF StartInv, StartTypeOK
  <2>2. \A i \in DOMAIN AllEntries : \A j \in DOMAIN AllEntries[i].chain_ids :
          i \in Nat \ {0} /\ j \in Nat \ {0}
    BY <2>1, Positions
  <2>3. \A i \in DOMAIN AllEntries : \A j \in DOMAIN AllEntries[i].chain_ids : ~ Added(i, j)
    BY <1>1, <2>2 DEF Added
  <2> QED BY <1>1, <2>3 DEF AddedSoFar, AddedFor, NewRing
<1>5. StartTypeOK' /\ ~ Serving' /\ OnlyKeySigns'
  BY <1>1, <1>2, <1>3 DEF StartInv, StartTypeOK, Serving, OnlyKeySigns, loading, registry
<1> QED BY <1>1, <1>2, <1>3, <1>4, <1>5 DEF StartInv, loading, registry

(* The position in the list of keys moves on, the keyrings are left alone. *)
LEMMA MoveOn ==
    ASSUME StartInv, pc = "keys",
           UNCHANGED <<config, pc, chain_at, client_at, registry, client, success, status,
                       reported, signedBy>>,
           entry_at' \in 1 .. Len(AllEntries) + 1, id_at' \in Nat,
           \A i \in DOMAIN AllEntries : \A j \in DOMAIN AllEntries[i].chain_ids :
              Added(i, j)' <=> Added(i, j)
    PROVE  StartInv'
<1>1. AllEntries' = AllEntries /\ Clients' = Clients /\ RegisteredSoFar' = RegisteredSoFar
  BY DEF AllEntries, Clients, RegisteredSoFar, registry
<1>2. AddedSoFar /\ RegisteredSoFar /\ chain_at = Len(config.chain) + 1 /\ ~ Serving
  BY DEF StartInv
<1>3. \A i \in DOMAIN AllEntries, t \in KeyType, c \in Chains, k \in Keys :
        AddedFor(i, t, k, c)' <=> AddedFor(i, t, k, c)
  BY <1>1 DEF AddedFor
<1>4. AddedSoFar'
  BY <1>1, <1>2, <1>3 DEF AddedSoFar, registry
<1>5. StartTypeOK' /\ ~ Serving' /\ OnlyKeySigns'
  BY <1>1, <1>2 DEF StartInv, StartTypeOK, Serving, OnlyKeySigns, registry
<1> QED BY <1>1, <1>2, <1>4, <1>5 DEF StartInv

LEMMA LoadKeyStep ==
    ASSUME StartInv, LoadKey
    PROVE  StartInv'
<1>1. CASE ProviderAccepts(config.providers, entry_at)
  <2>1. /\ id_at = 0 /\ id_at' = 1 /\ pc = "keys"
        /\ UNCHANGED <<config, pc, chain_at, entry_at, client_at, registry, client, success, status,
                       reported, signedBy>>
    BY <1>1 DEF LoadKey
  <2>2. config \in Configs /\ entry_at \in 1 .. Len(AllEntries) + 1
    BY DEF StartInv, StartTypeOK
  <2>3. \A i \in DOMAIN AllEntries : \A j \in DOMAIN AllEntries[i].chain_ids :
          Added(i, j)' <=> Added(i, j)
    BY <2>1, <2>2, Positions DEF Added
  <2> QED BY <2>1, <2>2, <2>3, MoveOn
<1>2. CASE ~ ProviderAccepts(config.providers, entry_at)
  BY <1>2, LoadExit DEF LoadKey, StartInv, StartTypeOK, loading, registry
<1> QED BY <1>1, <1>2

LEMMA NextKeyStep ==
    ASSUME StartInv, NextKey
    PROVE  StartInv'
<1>1. /\ entry_at \in 1 .. Len(AllEntries) /\ id_at > Len(Here.chain_ids) /\ id_at \in Nat
      /\ entry_at' = entry_at + 1 /\ id_at' = 0 /\ pc = "keys" /\ config \in Configs
      /\ UNCHANGED <<config, pc, chain_at, client_at, registry, client, success, status,
                     reported, signedBy>>
  <2>1. config \in Configs /\ entry_at \in 1 .. Len(AllEntries) + 1 /\ id_at \in Nat
    BY DEF StartInv, StartTypeOK
  <2>2. Len(AllEntries) \in Nat
    BY <2>1, Positions
  <2> QED BY <2>1, <2>2 DEF NextKey
<1>2. \A i \in DOMAIN AllEntries : \A j \in DOMAIN AllEntries[i].chain_ids :
        Added(i, j)' <=> Added(i, j)
  BY <1>1, Positions DEF Added, Here
<1>3. Len(AllEntries) \in Nat
  BY <1>1, Positions
<1> QED BY <1>1, <1>2, <1>3, MoveOn

LEMMA KeysLoadedStep ==
    ASSUME StartInv, KeysLoaded
    PROVE  StartInv'
<1>1. /\ pc = "keys" /\ pc' = "spawn" /\ entry_at = Len(AllEntries) + 1
      /\ UNCHANGED <<config, loading, client_at, registry, client, success, status, reported, signedBy>>
  <2>1. config \in Configs /\ entry_at \in 1 .. Len(AllEntries) + 1
    BY DEF StartInv, StartTypeOK
  <2>2. Len(AllEntries) \in Nat
    BY <2>1, Positions
  <2> QED BY <2>1, <2>2 DEF KeysLoaded
<1>2. /\ AllEntries' = AllEntries /\ Clients' = Clients
      /\ RegisteredSoFar' = RegisteredSoFar /\ AddedSoFar' = AddedSoFar
  BY <1>1, LoadedKept
<1>3. StartTypeOK' /\ (Serving' <=> Serving) /\ OnlyKeySigns'
  BY <1>1, <1>2 DEF StartInv, StartTypeOK, Serving, OnlyKeySigns, loading, registry
<1> QED BY <1>1, <1>2, <1>3 DEF StartInv, loading, registry

(* A key goes into the keyring of a chain that was registered, and only     *)
(* where it was not there before.                                           *)
LEMMA AddKeyStep ==
    ASSUME StartInv, AddKey
    PROVE  StartInv'
<1> DEFINE T == Here.key_type
           K == Here.key
           C == Here.chain_ids[id_at]
<1>1. /\ pc = "keys" /\ config \in Configs /\ id_at \in DOMAIN Here.chain_ids
      /\ entry_at \in DOMAIN AllEntries
  <2>1. config \in Configs /\ entry_at \in 1 .. Len(AllEntries) + 1
    BY DEF StartInv, StartTypeOK
  <2>2. Len(AllEntries) \in Nat /\ DOMAIN AllEntries = 1 .. Len(AllEntries)
    BY <2>1, Positions
  <2> QED BY <2>1, <2>2 DEF AddKey
<1>2. Here \in Entry /\ C \in Chains /\ id_at \in Nat \ {0} /\ entry_at \in Nat \ {0}
  BY <1>1, Positions DEF Here
<1>3. T \in KeyType /\ K \in Keys /\ Here.provider \in Providers
  BY <1>2 DEF Entry
<1>4. /\ keyring \in [KeyType -> [Chains -> Ring]]
      /\ AddedSoFar /\ RegisteredSoFar /\ chain_at = Len(config.chain) + 1 /\ ~ Serving
  BY <1>1 DEF StartInv, StartTypeOK
<1>5. /\ UNCHANGED <<config, chain_at, entry_at, client_at, registered, success, reported, signedBy>>
      /\ AllEntries' = AllEntries /\ Clients' = Clients
  BY DEF AddKey, AllEntries, Clients
<1>6. CASE C \notin registered
  <2>1. ProcessExit(1) /\ UNCHANGED <<keyring, id_at>>
    BY <1>6 DEF AddKey
  <2>2. registered \subseteq Chains
    BY DEF StartInv, StartTypeOK
  <2> QED BY <1>1, <1>4, <1>5, <2>1, <2>2, LoadExit DEF loading
<1>7. CASE C \in registered
  <2>1. keyring' = [keyring EXCEPT ![T][C] = Insert(keyring[T][C], Here)]
    BY <1>7 DEF AddKey
  <2>2. \A t \in KeyType, c \in Chains, k \in Keys :
          keyring'[t][c][k] = IF t = T /\ c = C /\ k = K THEN Here.provider ELSE keyring[t][c][k]
    <3>1. Insert(keyring[T][C], Here) = [keyring[T][C] EXCEPT ![K] = Here.provider]
      BY DEF Insert
    <3> HIDE DEF T, K, C
    <3> QED BY <1>2, <1>3, <1>4, <2>1, <3>1 DEF Ring
  <2>3. keyring' \in [KeyType -> [Chains -> Ring]]
    <3>1. Insert(keyring[T][C], Here) \in Ring
      BY <1>2, <1>3, <1>4 DEF Insert, Ring
    <3> HIDE DEF T, C
    <3> QED BY <1>2, <1>3, <1>4, <2>1, <3>1
  <2>4. CASE Duplicate(keyring[T][C], Here)
    <3>1. ProcessExit(1) /\ UNCHANGED id_at
      BY <1>7, <2>4 DEF AddKey
    <3>2. registered \subseteq Chains
      BY DEF StartInv, StartTypeOK
    <3> QED BY <1>1, <1>5, <2>3, <3>1, <3>2, LoadExit DEF loading
  <2>5. CASE ~ Duplicate(keyring[T][C], Here)
    <3>1. id_at' = id_at + 1 /\ UNCHANGED <<pc, status, client>>
      BY <1>7, <2>5 DEF AddKey
    <3>2. keyring[T][C][K] = None
      BY <2>5 DEF Duplicate
    <3>3. \A i \in DOMAIN AllEntries : \A j \in DOMAIN AllEntries[i].chain_ids :
            Added(i, j)' <=> Added(i, j) \/ (i = entry_at /\ j = id_at)
      BY <1>1, <1>2, <1>5, <3>1, Positions DEF Added
    <3>4. \A i \in DOMAIN AllEntries, t \in KeyType, c \in Chains, k \in Keys :
            AddedFor(i, t, k, c)' <=> \/ AddedFor(i, t, k, c)
                                      \/ i = entry_at /\ t = T /\ c = C /\ k = K
      BY <1>1, <1>5, <3>3 DEF AddedFor, Here
    <3>5. \A i \in DOMAIN AllEntries : ~ AddedFor(i, T, K, C)
      <4> HIDE DEF T, K, C
      <4>1. ASSUME NEW i \in DOMAIN AllEntries PROVE AllEntries[i].provider # None
        BY <1>1, Positions, NoneAssumption DEF Entry
      <4> QED BY <1>2, <1>3, <1>4, <3>2, <4>1 DEF AddedSoFar
    <3>6. AddedSoFar'
      <4>1. \A i \in DOMAIN AllEntries : \A j \in DOMAIN AllEntries[i].chain_ids :
              Added(i, j)' => AllEntries[i].chain_ids[j] \in registered
        BY <1>4, <1>7, <3>3 DEF AddedSoFar, Here
      <4>2. ASSUME NEW t \in KeyType, NEW c \in Chains, NEW k \in Keys
            PROVE  \/ /\ keyring'[t][c][k] = None
                      /\ \A i \in DOMAIN AllEntries : ~ AddedFor(i, t, k, c)'
                   \/ \E i \in DOMAIN AllEntries :
                        /\ keyring'[t][c][k] = AllEntries[i].provider
                        /\ \A h \in DOMAIN AllEntries : AddedFor(h, t, k, c)' <=> h = i
        <5>1. CASE t = T /\ c = C /\ k = K
          <6>1. keyring'[t][c][k] = AllEntries[entry_at].provider
            BY <2>2, <5>1 DEF Here
          <6>2. \A h \in DOMAIN AllEntries : AddedFor(h, t, k, c)' <=> h = entry_at
            BY <1>1, <3>4, <3>5, <5>1
          <6> QED BY <1>1, <6>1, <6>2
        <5>2. CASE ~ (t = T /\ c = C /\ k = K)
          <6>1. keyring'[t][c][k] = keyring[t][c][k]
            BY <2>2, <5>2
          <6>2. \A h \in DOMAIN AllEntries : AddedFor(h, t, k, c)' <=> AddedFor(h, t, k, c)
            BY <3>4, <5>2
          <6> QED BY <1>4, <6>1, <6>2 DEF AddedSoFar
        <5> QED BY <5>1, <5>2
      <4> QED BY <1>5, <4>1, <4>2 DEF AddedSoFar
    <3>7. RegisteredSoFar' /\ ~ Serving'
      BY <1>4, <1>5, <3>1 DEF RegisteredSoFar, Serving
    <3>8. reported' = {} /\ signedBy' = {}
      BY <1>1, <1>5 DEF StartInv
    <3>9. StartTypeOK'
      BY <1>2, <1>5, <2>3, <3>1 DEF StartInv, StartTypeOK
    <3> QED
      BY <1>1, <1>4, <1>5, <3>1, <3>6, <3>7, <3>8, <3>9 DEF StartInv, OnlyKeySigns
  <2> QED BY <2>4, <2>5
<1> QED BY <1>6, <1>7

-----------------------------------------------------------------------------
(* spawn_clients, run_app and the clients.                                  *)

(* Whatever happens after loading leaves what was loaded alone. *)
LEMMA ServeStep ==
    ASSUME StartInv, UNCHANGED <<config, registry, loading, status>>,
           pc \in {"spawn", "join", "executor"} \/ Serving,
           pc' \in {pc, "join", "executor"}, pc' # "chains", pc' # "keys",
           client_at' \in 1 .. Len(config.validator) + 1,
           client' \in [Clients -> {"unspawned", "running", "failed", "killed"}],
           success' \in BOOLEAN,
           reported' \subseteq Chains \X Keys, signedBy' \subseteq Chains \X Keys,
           reported' # {} \/ signedBy' # {} => Serving', OnlyKeySigns',
           pc' = "join" /\ success' => client_at' = 1
    PROVE  StartInv'
<1>1. /\ AllEntries' = AllEntries /\ Clients' = Clients
      /\ RegisteredSoFar' = RegisteredSoFar /\ AddedSoFar' = AddedSoFar
  BY LoadedKept
<1>2. StartTypeOK'
  BY <1>1 DEF StartInv, StartTypeOK, loading, registry
<1>3. /\ chain_at = Len(config.chain) + 1 /\ RegisteredSoFar /\ AddedSoFar
      /\ entry_at = Len(AllEntries) + 1
  BY DEF StartInv
<1> QED BY <1>1, <1>2, <1>3 DEF StartInv, loading, registry

LEMMA SpawnStep ==
    ASSUME StartInv, SpawnClient \/ SpawnFails
    PROVE  StartInv'
<1>1. CASE ProcessExit(1) /\ UNCHANGED client_at
  BY <1>1, ExitStep DEF SpawnClient, SpawnFails
<1>2. CASE ~ (ProcessExit(1) /\ UNCHANGED client_at)
  <2>1. /\ pc = "spawn" /\ client_at \in Clients
        /\ client' = [client EXCEPT ![client_at] = "running"] /\ client_at' = client_at + 1
        /\ UNCHANGED <<config, loading, registry, pc, status, success, reported, signedBy>>
    BY <1>2 DEF SpawnClient, SpawnFails
  <2>2. config.validator \in Seq(ValidatorConfig)
    BY ConfigTyped DEF StartInv, StartTypeOK
  <2>3. client_at' \in 1 .. Len(config.validator) + 1
    BY <2>1, <2>2 DEF Clients
  <2>4. client' \in [Clients -> {"unspawned", "running", "failed", "killed"}] /\ Serving'
    BY <2>1 DEF StartInv, StartTypeOK, Serving, Clients
  <2>5. OnlyKeySigns'
    BY <2>1 DEF StartInv, OnlyKeySigns, registry
  <2> QED BY <2>1, <2>3, <2>4, <2>5, ServeStep DEF StartInv, StartTypeOK
<1> QED BY <1>1, <1>2

LEMMA RunAppStep ==
    ASSUME StartInv, RunApp
    PROVE  StartInv'
<1>1. pc = "spawn"
  BY DEF RunApp
<1>2. CASE config.tx_signer \in {0, 1}
  <2>1. /\ UNCHANGED <<config, loading, registry, success, reported, signedBy, client, status>>
        /\ (pc' = "join" /\ client_at' = 1) \/ (pc' = "executor" /\ client_at' = client_at)
    BY <1>2 DEF RunApp
  <2>2. config.validator \in Seq(ValidatorConfig)
    BY ConfigTyped DEF StartInv, StartTypeOK
  <2>3. client_at' \in 1 .. Len(config.validator) + 1
    BY <2>1, <2>2 DEF StartInv, StartTypeOK
  <2>4. (Serving' <=> Serving) /\ OnlyKeySigns'
    BY <2>1 DEF StartInv, Serving, OnlyKeySigns, registry, Clients
  <2> QED BY <1>1, <2>1, <2>3, <2>4, ServeStep DEF StartInv, StartTypeOK
<1>3. CASE config.tx_signer \notin {0, 1}
  <2>1. ProcessExit(101) /\ UNCHANGED client_at
        /\ UNCHANGED <<config, loading, registry, success, reported, signedBy>>
    BY <1>3 DEF RunApp
  <2> QED BY <1>1, <2>1, ExitStep
<1> QED BY <1>2, <1>3

(* blocking_wait keeps the failure of a client it joins, and so shuts down  *)
(* with success only when there was none to join.                           *)
LEMMA WaitStep ==
    ASSUME StartInv, Join \/ Shutdown \/ ExecutorFails
    PROVE  StartInv'
<1>0. config.validator \in Seq(ValidatorConfig)
  BY ConfigTyped DEF StartInv, StartTypeOK
<1>1. CASE Join
  <2>1. /\ pc = "join" /\ client_at \in Clients /\ success' = FALSE /\ client_at' = client_at + 1
        /\ UNCHANGED <<config, pc, loading, registry, client, status, reported, signedBy>>
    BY <1>1 DEF Join
  <2>2. client_at' \in 1 .. Len(config.validator) + 1
    BY <1>0, <2>1 DEF Clients
  <2>3. (Serving' <=> Serving) /\ OnlyKeySigns'
    BY <2>1 DEF StartInv, Serving, OnlyKeySigns, registry, Clients
  <2> QED BY <2>1, <2>2, <2>3, ServeStep DEF StartInv, StartTypeOK
<1>2. CASE Shutdown
  <2>1. success => Clients = {}
    BY <1>0, <1>2 DEF StartInv, StartTypeOK, Shutdown, Clients
  <2>2. PICK code \in {0, 1} : ProcessExit(code) /\ (code = 0 => success)
    BY <1>2 DEF Shutdown
  <2> QED BY <1>2, <2>1, <2>2, ExitStep DEF Shutdown
<1>3. CASE ExecutorFails
  BY <1>3, ExitStep DEF ExecutorFails
<1> QED BY <1>1, <1>2, <1>3

(* A client uses the only consensus key of its chain. *)
LEMMA ClientStep ==
    ASSUME StartInv, NEW i \in Clients, SessionFails(i) \/ GetPublicKey(i) \/ Sign(i)
    PROVE  StartInv'
<1>1. /\ UNCHANGED <<config, pc, loading, client_at, registry, success, status>>
      /\ client[i] = "running" /\ Serving
  BY DEF SessionFails, GetPublicKey, Sign, Serving
<1>2. pc \notin {"chains", "keys"}
  BY <1>1 DEF StartInv
<1>3. client' \in [Clients -> {"unspawned", "running", "failed", "killed"}] /\ Serving'
  BY <1>1 DEF StartInv, StartTypeOK, SessionFails, GetPublicKey, Sign, Serving, Clients
<1>4. ChainOf(i) \in Chains
  <2>1. config.validator \in Seq(ValidatorConfig)
    BY ConfigTyped DEF StartInv, StartTypeOK
  <2>2. config.validator[i] \in ValidatorConfig
    BY <2>1 DEF Clients
  <2> QED BY <2>2 DEF ChainOf, ValidatorConfig
<1> DEFINE ring == keyring["Consensus"][ChainOf(i)]
<1>5. ring \in Ring
  BY <1>4 DEF StartInv, StartTypeOK, KeyType
<1>6. /\ reported' \subseteq Chains \X Keys /\ signedBy' \subseteq Chains \X Keys
      /\ OnlyKeySigns'
  <2>0. /\ reported \subseteq Chains \X Keys /\ signedBy \subseteq Chains \X Keys
        /\ \A s \in reported \cup signedBy : KeysOf(keyring["Consensus"][s[1]]) = {s[2]}
    BY DEF StartInv, StartTypeOK, OnlyKeySigns
  <2>1. CASE SessionFails(i)
    BY <1>1, <2>0, <2>1 DEF SessionFails, OnlyKeySigns, registry
  <2>2. ASSUME NEW k \in Keys, KeysOf(ring) = {k},
               \/ reported' = reported \cup {<<ChainOf(i), k>>} /\ UNCHANGED signedBy
               \/ signedBy' = signedBy \cup {<<ChainOf(i), k>>} /\ UNCHANGED reported
        PROVE  /\ reported' \subseteq Chains \X Keys /\ signedBy' \subseteq Chains \X Keys
               /\ OnlyKeySigns'
    BY <1>1, <1>4, <2>0, <2>2 DEF OnlyKeySigns, registry
  <2>3. CASE GetPublicKey(i)
    BY <1>5, <2>2, <2>3, DefaultIsOnlyKey DEF GetPublicKey
  <2>4. CASE Sign(i)
    BY <1>5, <2>2, <2>4, SignerIsOnlyKey DEF Sign
  <2> QED BY <2>1, <2>3, <2>4
<1> QED BY <1>1, <1>2, <1>3, <1>6, ServeStep DEF StartInv, StartTypeOK

-----------------------------------------------------------------------------
LEMMA InitHolds ==
    ASSUME Init
    PROVE  StartInv
<1>1. config \in Configs
  BY DEF Init
<1>2. /\ config.chain \in Seq(Chains) /\ config.validator \in Seq(ValidatorConfig)
      /\ Len(AllEntries) \in Nat
  BY <1>1, ConfigTyped, Positions
<1>3. [t \in KeyType |-> [c \in Chains |-> NewRing]] \in [KeyType -> [Chains -> Ring]]
  BY DEF NewRing, Ring
<1>4. StartTypeOK
  BY <1>1, <1>2, <1>3 DEF Init, StartTypeOK, Clients
<1>5. RegisteredSoFar
  <2>1. 1 .. chain_at - 1 = {}
    BY DEF Init
  <2> QED BY <2>1 DEF Init, RegisteredSoFar
<1>6. ~ Serving /\ OnlyKeySigns
  BY DEF Init, Serving, OnlyKeySigns
<1> QED BY <1>4, <1>5, <1>6, NoneAssumption DEF Init, StartInv

LEMMA StepHolds ==
    ASSUME StartInv, [Next]_vars
    PROVE  StartInv'
<1>1. CASE UNCHANGED vars
  <2>1. UNCHANGED <<config, registry, loading, pc, client_at, client, success, status, reported, signedBy>>
    BY <1>1 DEF vars
  <2>2. /\ AllEntries' = AllEntries /\ Clients' = Clients
        /\ RegisteredSoFar' = RegisteredSoFar /\ AddedSoFar' = AddedSoFar
    BY <2>1, LoadedKept
  <2>3. (StartTypeOK' <=> StartTypeOK) /\ (Serving' <=> Serving) /\ (OnlyKeySigns' <=> OnlyKeySigns)
    BY <2>1, <2>2 DEF StartTypeOK, Serving, OnlyKeySigns, loading, registry
  <2> QED BY <2>1, <2>2, <2>3 DEF StartInv, loading, registry
<1>2. CASE Exited
  BY <1>1, <1>2 DEF Exited
<1>3. CASE ChainFails
  BY <1>3, ExitStep DEF ChainFails
<1>4. CASE LoadFails
  <2>1. PICK code \in {1, 101} : ProcessExit(code)
    BY <1>4 DEF LoadFails
  <2> QED BY <1>4, <2>1, ExitStep DEF LoadFails
<1>5. CASE \E i \in Clients : SessionFails(i) \/ GetPublicKey(i) \/ Sign(i)
  BY <1>5, ClientStep
<1> QED
  BY <1>1, <1>2, <1>3, <1>4, <1>5, RegisterStep, ChainsRegisteredStep, LoadKeyStep, AddKeyStep,
     NextKeyStep, KeysLoadedStep, SpawnStep, RunAppStep, WaitStep DEF Next, Main, Load

(* What is served is what was loaded: the invariant of start-up holds       *)
(* throughout load_config, spawn_clients, run_app and the sessions, for     *)
(* every set of configurations, chains and keys.                            *)
THEOREM StartInvariance == Spec => []StartInv
<1>1. Init => StartInv
  BY InitHolds
<1>2. StartInv /\ [Next]_vars => StartInv'
  BY StepHolds
<1> QED BY <1>1, <1>2, PTL DEF Spec

-----------------------------------------------------------------------------
(* Past the last key, every listed chain_id has been dealt with. *)
LEMMA AllAdded ==
    ASSUME StartInv, pc \in {"spawn", "join", "executor"} \/ Serving
    PROVE  /\ entry_at = Len(AllEntries) + 1 /\ config \in Configs
           /\ \A i \in DOMAIN AllEntries : \A j \in DOMAIN AllEntries[i].chain_ids : Added(i, j)
           /\ \A i \in DOMAIN AllEntries, t \in KeyType, k \in Keys, c \in Chains :
                AddedFor(i, t, k, c) <=> Lists(AllEntries[i], t, k, c)
<1>1. entry_at = Len(AllEntries) + 1 /\ config \in Configs
  BY DEF StartInv, StartTypeOK
<1>2. \A i \in DOMAIN AllEntries : i < entry_at
  BY <1>1, Positions
<1>3. \A i \in DOMAIN AllEntries : \A j : Added(i, j)
  BY <1>2 DEF Added
<1> QED BY <1>1, <1>3 DEF AddedFor, Lists

LEMMA ServedIsConfigured ==
    ASSUME StartInv
    PROVE  ServesConfiguredKeys
<1> SUFFICES ASSUME Serving
             PROVE  /\ \A i, j \in DOMAIN config.chain : config.chain[i] = config.chain[j] => i = j
                    /\ registered = {config.chain[i] : i \in DOMAIN config.chain}
                    /\ \A i \in DOMAIN AllEntries : \A j \in DOMAIN AllEntries[i].chain_ids :
                            AllEntries[i].chain_ids[j] \in registered
                    /\ \A t \in KeyType, c \in Chains, k \in Keys :
                          \/ /\ keyring[t][c][k] = None
                             /\ \A i \in DOMAIN AllEntries : ~ Lists(AllEntries[i], t, k, c)
                          \/ \E i \in DOMAIN AllEntries :
                                /\ keyring[t][c][k] = AllEntries[i].provider
                                /\ \A h \in DOMAIN AllEntries : Lists(AllEntries[h], t, k, c) <=> h = i
  BY DEF ServesConfiguredKeys, Serving
<1>1. chain_at = Len(config.chain) + 1 /\ RegisteredSoFar /\ AddedSoFar /\ config \in Configs
  BY DEF StartInv, StartTypeOK
<1>2. 1 .. chain_at - 1 = DOMAIN config.chain
  BY <1>1, ConfigTyped
<1>3. /\ \A i, j \in DOMAIN config.chain : config.chain[i] = config.chain[j] => i = j
      /\ registered = {config.chain[i] : i \in DOMAIN config.chain}
  BY <1>1, <1>2 DEF RegisteredSoFar
<1>4. \A i \in DOMAIN AllEntries : \A j \in DOMAIN AllEntries[i].chain_ids :
         AllEntries[i].chain_ids[j] \in registered
  BY <1>1, AllAdded DEF AddedSoFar
<1>5. ASSUME NEW t \in KeyType, NEW c \in Chains, NEW k \in Keys
      PROVE  \/ /\ keyring[t][c][k] = None
                /\ \A i \in DOMAIN AllEntries : ~ Lists(AllEntries[i], t, k, c)
             \/ \E i \in DOMAIN AllEntries :
                   /\ keyring[t][c][k] = AllEntries[i].provider
                   /\ \A h \in DOMAIN AllEntries : Lists(AllEntries[h], t, k, c) <=> h = i
  BY <1>1, AllAdded DEF AddedSoFar
<1> QED BY <1>3, <1>4, <1>5

(* All or nothing: once any client has served, the registry holds exactly   *)
(* what the whole configuration lists, though register_chain and            *)
(* add_ed25519 replace before they refuse.                                  *)
THEOREM ServesWhatIsConfigured == Spec => []ServesConfiguredKeys
BY StartInvariance, ServedIsConfigured, PTL

(* The key get_public_key reports and the key sign uses are the only        *)
(* consensus key of the chain.                                              *)
THEOREM OneKeyPerChain == Spec => []OnlyKeySigns
<1>1. StartInv => OnlyKeySigns
  BY DEF StartInv
<1> QED BY <1>1, StartInvariance, PTL

(* Exit status 0 is not reported once a client was spawned. *)
THEOREM FailuresReported == Spec => []ExitReportsFailures
<1>1. StartInv => ExitReportsFailures
  BY DEF StartInv, ExitReportsFailures
<1> QED BY <1>1, StartInvariance, PTL

(* A session signs for its chain only with a consensus key whose entry      *)
(* names that chain in chain_ids.                                           *)
THEOREM SignsForListedChains == Spec => []AuthorizedChains
<1>1. StartInv => AuthorizedChains
  <2> SUFFICES ASSUME StartInv, NEW s \in signedBy
               PROVE  \E i \in DOMAIN AllEntries : Lists(AllEntries[i], "Consensus", s[2], s[1])
    BY DEF AuthorizedChains
  <2>1. Serving /\ s[1] \in Chains /\ s[2] \in Keys /\ KeysOf(keyring["Consensus"][s[1]]) = {s[2]}
    <3>1. signedBy \subseteq Chains \X Keys /\ OnlyKeySigns /\ Serving
      BY DEF StartInv, StartTypeOK
    <3>2. s[1] \in Chains /\ s[2] \in Keys
      BY <3>1
    <3> QED BY <3>1, <3>2 DEF OnlyKeySigns
  <2>2. keyring["Consensus"][s[1]][s[2]] # None
    BY <2>1 DEF KeysOf
  <2> QED BY <2>1, <2>2, ServedIsConfigured DEF ServesConfiguredKeys, Serving, KeyType
<1> QED BY <1>1, StartInvariance, PTL

-----------------------------------------------------------------------------
(* Waiting for the clients. *)

LEMMA JoinedStep ==
    ASSUME StartInv, JoinedEnded, [Next]_vars
    PROVE  JoinedEnded'
<1>0. /\ client \in [Clients -> {"unspawned", "running", "failed", "killed"}]
      /\ client_at \in Nat \ {0}
  BY DEF StartInv, StartTypeOK
<1>1. config' = config /\ Clients' = Clients
  BY DEF Next, Main, Load, RegisterChain, ChainFails, ChainsRegistered, LoadKey, LoadFails,
         AddKey, NextKey, KeysLoaded, SpawnClient, SpawnFails, RunApp, Join, Shutdown,
         ExecutorFails, Exited, SessionFails, GetPublicKey, Sign, vars, Clients
<1>2. CASE pc' # "join" /\ (client' = client \/ \E code : ProcessExit(code))
  BY <1>0, <1>1, <1>2 DEF JoinedEnded, ProcessExit
<1>3. CASE SpawnClient
  BY <1>0, <1>1, <1>3 DEF SpawnClient, ProcessExit, JoinedEnded
<1>4. CASE RunApp /\ pc' = "join"
  <2>1. client' = client /\ client_at' = 1
    BY <1>4 DEF RunApp, ProcessExit
  <2> QED BY <1>1, <2>1 DEF JoinedEnded
<1>5. CASE Join
  BY <1>0, <1>1, <1>5 DEF Join, JoinedEnded
<1>6. ASSUME NEW i \in Clients, SessionFails(i) PROVE JoinedEnded'
  BY <1>0, <1>1, <1>6 DEF SessionFails, JoinedEnded
<1>7. CASE UNCHANGED <<pc, client, client_at>>
  BY <1>1, <1>7 DEF JoinedEnded
<1>8. CASE RunApp /\ pc' # "join"
  BY <1>2, <1>8 DEF RunApp
<1>9. CASE Load
  <2>1. pc' # "join" /\ (client' = client \/ \E code : ProcessExit(code))
    BY <1>9 DEF Load, RegisterChain, ChainFails, ChainsRegistered, LoadKey, LoadFails,
                AddKey, NextKey, KeysLoaded, ProcessExit
  <2> QED BY <1>2, <2>1
<1>10. CASE SpawnFails \/ Shutdown \/ ExecutorFails
  BY <1>2, <1>10 DEF SpawnFails, Shutdown, ExecutorFails, ProcessExit
<1> QED
  BY <1>3, <1>4, <1>5, <1>6, <1>7, <1>8, <1>9, <1>10
     DEF Next, Main, Exited, GetPublicKey, Sign, vars

(* A KMS that serves is not ended by the failure of some of its clients:    *)
(* blocking_wait returns only after all of them, and never while one is     *)
(* configured to reconnect.                                                 *)
THEOREM AllClientsServedToTheLast == Spec => ServesToTheLast
<1> DEFINE Last == pc = "join" /\ pc' # "join" =>
                     \A i \in Clients : client[i] = "failed" /\ ~ config.validator[i].reconnect
<1>1. Init => JoinedEnded
  BY DEF Init, JoinedEnded
<1>2. StartInv /\ JoinedEnded /\ [Next]_vars => [Last]_vars
  <2> SUFFICES ASSUME StartInv, JoinedEnded, Next, pc = "join", pc' # "join"
               PROVE  \A i \in Clients : client[i] = "failed" /\ ~ config.validator[i].reconnect
    OBVIOUS
  <2>1. Shutdown
    BY DEF Next, Main, Load, RegisterChain, ChainFails, ChainsRegistered, LoadKey, LoadFails,
           AddKey, NextKey, KeysLoaded, SpawnClient, SpawnFails, RunApp, Join,
           ExecutorFails, Exited, SessionFails, GetPublicKey, Sign
  <2>2. Clients \subseteq 1 .. client_at - 1
    BY <2>1, ConfigTyped DEF Shutdown, StartInv, StartTypeOK, Clients
  <2> QED BY <2>2 DEF JoinedEnded
<1> QED BY <1>1, <1>2, JoinedStep, StartInvariance, PTL DEF Spec, ServesToTheLast

-----------------------------------------------------------------------------
(* What a correct configuration meets on the way.                           *)

(* Once the chains are registered, the registry holds all of them. *)
LEMMA AllRegistered ==
    ASSUME StartInv, pc \in {"keys", "spawn"}
    PROVE  registered = {config.chain[i] : i \in DOMAIN config.chain}
<1>1. chain_at = Len(config.chain) + 1 /\ RegisteredSoFar /\ config \in Configs
  BY DEF StartInv, StartTypeOK
<1>2. 1 .. chain_at - 1 = DOMAIN config.chain
  BY <1>1, ConfigTyped
<1> QED BY <1>1, <1>2 DEF RegisteredSoFar

(* A chain that is listed once is not registered yet when its turn comes. *)
LEMMA ChainIsNew ==
    ASSUME StartInv, Loadable(config), RegisterChain
    PROVE  pc' # "exited"
<1>1. /\ pc = "chains" /\ chain_at \in 1 .. Len(config.chain) /\ config.chain \in Seq(Chains)
      /\ RegisteredSoFar
  <2>1. config \in Configs /\ chain_at \in 1 .. Len(config.chain) + 1
    BY DEF StartInv, StartTypeOK
  <2>2. config.chain \in Seq(Chains)
    BY <2>1, ConfigTyped
  <2> QED BY <2>1, <2>2 DEF StartInv, RegisterChain
<1>2. \A i, j \in DOMAIN config.chain : config.chain[i] = config.chain[j] => i = j
  BY DEF Loadable
<1>3. config.chain[chain_at] \notin registered
  BY <1>1, <1>2 DEF RegisteredSoFar
<1> QED BY <1>1, <1>3 DEF RegisterChain

LEMMA KeyAccepted ==
    ASSUME StartInv, Loadable(config), LoadKey
    PROVE  pc' # "exited"
<1>1. config \in Configs /\ entry_at \in 1 .. Len(AllEntries) + 1 /\ pc = "keys"
      /\ entry_at <= Len(AllEntries)
  BY DEF StartInv, StartTypeOK, LoadKey
<1>2. entry_at \in DOMAIN AllEntries
  BY <1>1, Positions
<1>3. ProviderAccepts(config.providers, entry_at)
  BY <1>2 DEF Loadable, AllEntries
<1> QED BY <1>1, <1>3 DEF LoadKey

(* The position that is added next is not one of those before it. *)
LEMMA KeyIsNew ==
    ASSUME StartInv, Loadable(config), AddKey
    PROVE  pc' # "exited"
<1> DEFINE T == Here.key_type
           K == Here.key
           C == Here.chain_ids[id_at]
<1>1. /\ pc = "keys" /\ config \in Configs /\ id_at \in DOMAIN Here.chain_ids
      /\ entry_at \in DOMAIN AllEntries
  <2>1. config \in Configs /\ entry_at \in 1 .. Len(AllEntries) + 1
    BY DEF StartInv, StartTypeOK
  <2>2. Len(AllEntries) \in Nat /\ DOMAIN AllEntries = 1 .. Len(AllEntries)
    BY <2>1, Positions
  <2> QED BY <2>1, <2>2 DEF AddKey
<1>2. Here \in Entry /\ C \in Chains /\ id_at \in Nat \ {0} /\ entry_at \in Nat \ {0}
  BY <1>1, Positions DEF Here
<1>3. T \in KeyType /\ K \in Keys
  BY <1>2 DEF Entry
<1>4. AddedSoFar
  BY <1>1 DEF StartInv
<1>5. C \in registered
  BY <1>1, AllRegistered DEF Loadable, AllEntries, Here
<1>6. \A h \in DOMAIN AllEntries : \A l \in DOMAIN AllEntries[h].chain_ids :
        /\ AllEntries[h].key_type = T /\ AllEntries[h].key = K
        /\ AllEntries[h].chain_ids[l] = C
        => h = entry_at /\ l = id_at
  BY <1>1 DEF Loadable, AllEntries, Here
<1>7. ~ Added(entry_at, id_at)
  BY <1>2 DEF Added
<1>8. \A h \in DOMAIN AllEntries : ~ AddedFor(h, T, K, C)
  <2> HIDE DEF T, K, C
  <2> QED BY <1>6, <1>7 DEF AddedFor
<1>9. keyring[T][C][K] = None
  <2> HIDE DEF T, K, C
  <2> QED BY <1>2, <1>3, <1>4, <1>8 DEF AddedSoFar
<1>10. ~ Duplicate(keyring[T][C], Here)
  BY <1>9 DEF Duplicate
<1> QED BY <1>1, <1>5, <1>10 DEF AddKey

LEMMA ClientAccepted ==
    ASSUME StartInv, Loadable(config), SpawnClient
    PROVE  pc' # "exited"
<1>1. pc = "spawn" /\ client_at \in DOMAIN config.validator
  BY DEF SpawnClient, Clients
<1>2. config.validator[client_at].chain_id \in registered
  BY <1>1, AllRegistered DEF Loadable
<1> QED BY <1>1, <1>2 DEF SpawnClient

LEMMA AppRuns ==
    ASSUME StartInv, Loadable(config), RunApp
    PROVE  pc' # "exited"
<1>1. config \in KmsConfig
  BY ConfigsAssumption DEF StartInv, StartTypeOK
<1>2. config.tx_signer \in Nat
  BY <1>1 DEF KmsConfig
<1>3. config.tx_signer <= 1
  BY DEF Loadable
<1>4. config.tx_signer \in {0, 1}
  BY <1>2, <1>3
<1> QED BY <1>4 DEF RunApp

-----------------------------------------------------------------------------
(* The keyring signs exactly when it holds one key. *)
LEMMA OneKeySigns ==
    ASSUME NEW ring \in Ring, NEW k \in Keys, KeysOf(ring) = {k}
    PROVE  sign_ed25519(ring) # None
<1>1. Cardinality({k}) = 1
  BY FS_Singleton
<1>2. sign_ed25519(ring) = CHOOSE x \in {k} : TRUE
  BY <1>1 DEF sign_ed25519
<1> QED BY <1>2, NoneAssumption

(* After loading, the consensus keyring of a chain is what was listed. *)
LEMMA ConsensusRing ==
    ASSUME StartInv, pc = "spawn", NEW c \in Chains
    PROVE  KeysOf(keyring["Consensus"][c]) = ConsensusKeys(config, c)
<1>1. AddedSoFar /\ config \in Configs
  BY DEF StartInv, StartTypeOK
<1>2. \A i \in DOMAIN AllEntries, k \in Keys :
        AddedFor(i, "Consensus", k, c) <=> Lists(AllEntries[i], "Consensus", k, c)
  BY AllAdded DEF KeyType
<1>3. \A i \in DOMAIN AllEntries : AllEntries[i].key \in Keys /\ AllEntries[i].provider # None
  BY <1>1, Positions, NoneAssumption DEF Entry
<1>4. ASSUME NEW k \in Keys
      PROVE  keyring["Consensus"][c][k] # None
             <=> \E i \in DOMAIN AllEntries : Lists(AllEntries[i], "Consensus", k, c)
  BY <1>1, <1>2, <1>3 DEF AddedSoFar, KeyType
<1>5. \A k : k \in ConsensusKeys(config, c)
             <=> \E i \in DOMAIN AllEntries : Lists(AllEntries[i], "Consensus", k, c)
  BY DEF ConsensusKeys, AllEntries, Lists
<1>6. ConsensusKeys(config, c) \subseteq Keys
  BY <1>3, <1>5 DEF Lists
<1> QED BY <1>4, <1>5, <1>6 DEF KeysOf

LEMMA SignsIfOneKey ==
    ASSUME StartInv, pc = "spawn", NEW i \in Clients
    PROVE  CanSign(i) <=> \E k \in Keys : ConsensusKeys(config, ChainOf(i)) = {k}
<1>1. ChainOf(i) \in Chains
  <2>1. config.validator \in Seq(ValidatorConfig)
    BY ConfigTyped DEF StartInv, StartTypeOK
  <2>2. config.validator[i] \in ValidatorConfig
    BY <2>1 DEF Clients
  <2> QED BY <2>2 DEF ChainOf, ValidatorConfig
<1>2. keyring["Consensus"][ChainOf(i)] \in Ring
  BY <1>1 DEF StartInv, StartTypeOK, KeyType
<1>3. KeysOf(keyring["Consensus"][ChainOf(i)]) = ConsensusKeys(config, ChainOf(i))
  BY <1>1, ConsensusRing
<1> QED BY <1>2, <1>3, OneKeySigns, SignerIsOnlyKey DEF CanSign

LEMMA UnfailingStep ==
    ASSUME StartInv, Unfailing
    PROVE  /\ Loadable(config) => pc' # "exited"
           /\ pc' \in {"join", "executor"} => \A i \in Clients :
                 CanSign(i) <=> \E k \in Keys : ConsensusKeys(config, ChainOf(i)) = {k}
<1>1. ASSUME Loadable(config) PROVE pc' # "exited"
  <2>1. CASE ChainsRegistered \/ NextKey \/ KeysLoaded
    BY <2>1 DEF ChainsRegistered, NextKey, KeysLoaded
  <2> QED BY <1>1, <2>1, ChainIsNew, KeyAccepted, KeyIsNew, ClientAccepted, AppRuns DEF Unfailing
<1>2. ASSUME pc' \in {"join", "executor"} PROVE pc = "spawn"
  BY <1>2 DEF Unfailing, RegisterChain, ChainsRegistered, LoadKey, AddKey, NextKey, KeysLoaded,
              SpawnClient, RunApp, ProcessExit
<1> QED BY <1>1, <1>2, SignsIfOneKey

-----------------------------------------------------------------------------
(* What was let through is acceptable.                                      *)

(* Steps that leave what was loaded alone. *)
LEMMA AcceptedKept ==
    ASSUME UNCHANGED <<config, registry, loading>>
    PROVE  AcceptedSoFar' = AcceptedSoFar /\ Clients' = Clients
           /\ \A v \in Clients : ChainOf(v)' = ChainOf(v)
<1>1. AllEntries' = AllEntries /\ Clients' = Clients /\ UNCHANGED <<config, entry_at, id_at>>
  BY DEF AllEntries, Clients, loading
<1>2. AcceptedSoFar' = AcceptedSoFar
  BY <1>1 DEF AcceptedSoFar, Added
<1>3. \A v \in Clients : ChainOf(v)' = ChainOf(v)
  BY DEF ChainOf
<1> QED BY <1>1, <1>2, <1>3

LEMMA AcceptedLoad ==
    ASSUME StartInv, LoadInv, ChainsRegistered \/ LoadKey \/ NextKey
    PROVE  LoadInv'
<1>1. /\ config \in Configs /\ entry_at \in 1 .. Len(AllEntries) + 1 /\ id_at \in Nat
      /\ AllEntries' = AllEntries
  BY DEF StartInv, StartTypeOK, ChainsRegistered, LoadKey, NextKey, AllEntries
<1>2. \A i \in DOMAIN AllEntries :
        /\ i \in Nat \ {0} /\ Len(AllEntries[i].chain_ids) \in Nat
        /\ DOMAIN AllEntries[i].chain_ids = 1 .. Len(AllEntries[i].chain_ids)
  BY <1>1, Positions
<1>3. CASE ChainsRegistered
  <2>1. pc' = "keys" /\ entry_at' = 1 /\ id_at' = 0 /\ client_at' = 1
    BY <1>3 DEF ChainsRegistered, StartInv, LoadInv, loading
  <2>2. AcceptedSoFar'
    BY <1>1, <1>2, <2>1 DEF AcceptedSoFar, Added
  <2> QED BY <2>1, <2>2 DEF LoadInv
<1>4. CASE LoadKey
  <2>1. CASE ~ ProviderAccepts(config.providers, entry_at)
    BY <1>4, <2>1 DEF LoadKey, ProcessExit, LoadInv
  <2>2. CASE ProviderAccepts(config.providers, entry_at)
    <3>1. /\ id_at = 0 /\ id_at' = 1 /\ pc = "keys" /\ pc' = "keys"
          /\ UNCHANGED <<config, entry_at>> /\ AcceptedSoFar /\ client_at' = 1
      BY <1>4, <2>2 DEF LoadKey, LoadInv
    <3>2. \A i \in DOMAIN AllEntries : \A j \in DOMAIN AllEntries[i].chain_ids :
            Added(i, j)' <=> Added(i, j)
      BY <1>1, <1>2, <3>1 DEF Added
    <3>3. \A i \in DOMAIN AllEntries' :
            i < entry_at' \/ (i = entry_at' /\ id_at' > 0) => ProviderAccepts(config'.providers, i)
      BY <1>1, <1>2, <2>2, <3>1 DEF AcceptedSoFar
    <3>4. AcceptedSoFar'
      BY <1>1, <3>1, <3>2, <3>3 DEF AcceptedSoFar
    <3> QED BY <3>1, <3>4 DEF LoadInv
  <2> QED BY <2>1, <2>2
<1>5. CASE NextKey
  <2>1. /\ pc = "keys" /\ pc' = "keys" /\ UNCHANGED config /\ AcceptedSoFar /\ client_at' = 1
        /\ id_at > Len(Here.chain_ids) /\ entry_at' = entry_at + 1 /\ id_at' = 0
        /\ entry_at \in DOMAIN AllEntries
    <3>1. Len(AllEntries) \in Nat /\ DOMAIN AllEntries = 1 .. Len(AllEntries)
      BY <1>1, Positions
    <3> QED BY <1>1, <1>5, <3>1 DEF NextKey, LoadInv
  <2>2. \A i \in DOMAIN AllEntries : \A j \in DOMAIN AllEntries[i].chain_ids :
          Added(i, j)' <=> Added(i, j)
    BY <1>1, <1>2, <2>1 DEF Added, Here
  <2>3. \A i \in DOMAIN AllEntries' :
          i < entry_at' \/ (i = entry_at' /\ id_at' > 0) => ProviderAccepts(config'.providers, i)
    BY <1>1, <1>2, <2>1 DEF AcceptedSoFar, Here
  <2>4. AcceptedSoFar'
    BY <1>1, <2>1, <2>2, <2>3 DEF AcceptedSoFar
  <2> QED BY <2>1, <2>4 DEF LoadInv
<1> QED BY <1>3, <1>4, <1>5

LEMMA AcceptedAdd ==
    ASSUME StartInv, LoadInv, AddKey
    PROVE  LoadInv'
<1> DEFINE T == Here.key_type
           K == Here.key
           C == Here.chain_ids[id_at]
<1>1. /\ pc = "keys" /\ config \in Configs /\ id_at \in DOMAIN Here.chain_ids
      /\ entry_at \in DOMAIN AllEntries
  <2>1. config \in Configs /\ entry_at \in 1 .. Len(AllEntries) + 1
    BY DEF StartInv, StartTypeOK
  <2>2. Len(AllEntries) \in Nat /\ DOMAIN AllEntries = 1 .. Len(AllEntries)
    BY <2>1, Positions
  <2> QED BY <2>1, <2>2 DEF AddKey
<1>2. Here \in Entry /\ C \in Chains /\ id_at \in Nat \ {0} /\ entry_at \in Nat \ {0}
  BY <1>1, Positions DEF Here
<1>3. T \in KeyType /\ K \in Keys
  BY <1>2 DEF Entry
<1>4. AddedSoFar /\ AcceptedSoFar
  BY <1>1 DEF StartInv, LoadInv
<1>5. UNCHANGED <<config, entry_at>> /\ AllEntries' = AllEntries
  BY DEF AddKey, AllEntries
<1>6. CASE C \notin registered \/ Duplicate(keyring[T][C], Here)
  BY <1>6 DEF AddKey, ProcessExit, LoadInv
<1>7. CASE C \in registered /\ ~ Duplicate(keyring[T][C], Here)
  <2>1. id_at' = id_at + 1 /\ pc' = "keys" /\ client_at' = 1
    BY <1>1, <1>7 DEF AddKey, LoadInv
  <2>2. keyring[T][C][K] = None
    BY <1>7 DEF Duplicate
  <2>3. \A i \in DOMAIN AllEntries : \A j \in DOMAIN AllEntries[i].chain_ids :
          Added(i, j)' <=> Added(i, j) \/ (i = entry_at /\ j = id_at)
    BY <1>1, <1>2, <1>5, <2>1, Positions DEF Added
  <2>4. \A i \in DOMAIN AllEntries : ~ AddedFor(i, T, K, C)
    <3> HIDE DEF T, K, C
    <3>1. ASSUME NEW i \in DOMAIN AllEntries PROVE AllEntries[i].provider # None
      BY <1>1, Positions, NoneAssumption DEF Entry
    <3> QED BY <1>2, <1>3, <1>4, <2>2, <3>1 DEF AddedSoFar
  <2>5. \A i \in DOMAIN AllEntries : \A j \in DOMAIN AllEntries[i].chain_ids :
          ~ (/\ Added(i, j) /\ AllEntries[i].key_type = T /\ AllEntries[i].key = K
             /\ AllEntries[i].chain_ids[j] = C)
    <3> HIDE DEF T, K, C
    <3> QED BY <2>4 DEF AddedFor
  <2>6. \A i \in DOMAIN AllEntries :
          i < entry_at' \/ (i = entry_at' /\ id_at' > 0) => ProviderAccepts(config'.providers, i)
    BY <1>2, <1>4, <1>5, <2>1 DEF AcceptedSoFar
  <2>7. \A i, h \in DOMAIN AllEntries :
          \A j \in DOMAIN AllEntries[i].chain_ids, l \in DOMAIN AllEntries[h].chain_ids :
             /\ Added(i, j)' /\ Added(h, l)'
             /\ AllEntries[h].key_type = AllEntries[i].key_type
             /\ AllEntries[h].key = AllEntries[i].key
             /\ AllEntries[h].chain_ids[l] = AllEntries[i].chain_ids[j]
             => h = i /\ l = j
    <3> SUFFICES ASSUME NEW i \in DOMAIN AllEntries, NEW h \in DOMAIN AllEntries,
                        NEW j \in DOMAIN AllEntries[i].chain_ids,
                        NEW l \in DOMAIN AllEntries[h].chain_ids,
                        Added(i, j)', Added(h, l)',
                        AllEntries[h].key_type = AllEntries[i].key_type,
                        AllEntries[h].key = AllEntries[i].key,
                        AllEntries[h].chain_ids[l] = AllEntries[i].chain_ids[j]
                 PROVE  h = i /\ l = j
      OBVIOUS
    <3>1. CASE Added(i, j) /\ Added(h, l)
      BY <1>4, <3>1 DEF AcceptedSoFar
    <3>2. /\ T = AllEntries[entry_at].key_type /\ K = AllEntries[entry_at].key
          /\ C = AllEntries[entry_at].chain_ids[id_at]
      BY DEF Here
    <3> HIDE DEF T, K, C
    <3>3. CASE ~ Added(i, j)
      <4>1. i = entry_at /\ j = id_at
        BY <2>3, <3>3
      <4>2. ~ Added(h, l)
        BY <2>5, <3>2, <4>1
      <4>3. h = entry_at /\ l = id_at
        BY <2>3, <4>2
      <4> QED BY <4>1, <4>3
    <3>4. CASE ~ Added(h, l)
      <4>1. h = entry_at /\ l = id_at
        BY <2>3, <3>4
      <4>2. ~ Added(i, j)
        BY <2>5, <3>2, <4>1
      <4> QED BY <3>3, <4>2
    <3> QED BY <3>1, <3>3, <3>4
  <2>8. AcceptedSoFar'
    BY <1>5, <2>6, <2>7 DEF AcceptedSoFar
  <2> QED BY <2>1, <2>8 DEF LoadInv
<1> QED BY <1>6, <1>7

LEMMA AcceptedSpawn ==
    ASSUME StartInv, LoadInv, SpawnClient
    PROVE  LoadInv'
<1>1. /\ config \in Configs /\ pc = "spawn" /\ client_at \in Clients
      /\ UNCHANGED <<config, registry, loading>>
  BY DEF StartInv, StartTypeOK, SpawnClient
<1>2. CASE ChainOf(client_at) \notin registered
  BY <1>2 DEF SpawnClient, ChainOf, ProcessExit, LoadInv
<1>3. CASE ChainOf(client_at) \in registered
  <2>1. pc' = "spawn" /\ client_at' = client_at + 1
    BY <1>1, <1>3 DEF SpawnClient, ChainOf
  <2>2. config.validator \in Seq(ValidatorConfig)
    BY <1>1, ConfigTyped
  <2>3. \A v \in Clients : v < client_at' => v < client_at \/ v = client_at
    BY <1>1, <2>1, <2>2 DEF Clients
  <2> QED BY <1>1, <1>3, <2>1, <2>3, AcceptedKept DEF LoadInv, registry
<1> QED BY <1>2, <1>3

LEMMA AcceptedRun ==
    ASSUME StartInv, LoadInv, RunApp
    PROVE  LoadInv'
<1>1. /\ config \in Configs /\ pc = "spawn" /\ client_at \notin Clients
      /\ client_at \in 1 .. Len(config.validator) + 1
      /\ UNCHANGED <<config, registry, loading>>
  BY DEF StartInv, StartTypeOK, RunApp
<1>2. CASE config.tx_signer \notin {0, 1}
  BY <1>2 DEF RunApp, ProcessExit, LoadInv
<1>3. CASE config.tx_signer \in {0, 1}
  <2>1. pc' \in {"join", "executor"}
    BY <1>3 DEF RunApp
  <2>2. config.validator \in Seq(ValidatorConfig)
    BY <1>1, ConfigTyped
  <2>3. \A v \in Clients : v < client_at
    BY <1>1, <2>2 DEF Clients
  <2>4. config'.tx_signer <= 1
    BY <1>1, <1>3
  <2> QED BY <1>1, <2>1, <2>3, <2>4, AcceptedKept DEF LoadInv, registry
<1> QED BY <1>2, <1>3

LEMMA LoadStepHolds ==
    ASSUME StartInv, LoadInv, [Next]_vars
    PROVE  LoadInv'
<1>1. CASE pc' = "exited"
  BY <1>1 DEF LoadInv
<1>2. CASE RegisterChain
  BY <1>1, <1>2 DEF RegisterChain, ProcessExit, LoadInv
<1>3. CASE ChainFails \/ LoadFails \/ SpawnFails \/ Shutdown \/ ExecutorFails
  BY <1>1, <1>3 DEF ChainFails, LoadFails, SpawnFails, Shutdown, ExecutorFails, ProcessExit
<1>4. ASSUME UNCHANGED <<config, registry, loading>>, UNCHANGED <<pc, client_at>>
      PROVE  LoadInv'
  BY <1>4, AcceptedKept DEF LoadInv, registry
<1>5. CASE Join
  <2>1. UNCHANGED <<config, registry, loading, pc>> /\ pc = "join"
    BY <1>5 DEF Join
  <2> QED BY <2>1, AcceptedKept DEF LoadInv, registry
<1>6. CASE KeysLoaded
  <2>1. /\ pc = "keys" /\ pc' = "spawn" /\ UNCHANGED <<config, registry, loading, client_at>>
    BY <1>6 DEF KeysLoaded
  <2>2. config \in Configs /\ client_at = 1
    BY <2>1 DEF LoadInv, StartInv, StartTypeOK
  <2>3. \A v \in Clients : ~ v < 1
    BY <2>2, ConfigTyped DEF Clients
  <2> QED BY <2>1, <2>2, <2>3, AcceptedKept DEF LoadInv
<1>7. CASE \E i \in Clients : SessionFails(i) \/ GetPublicKey(i) \/ Sign(i)
  BY <1>4, <1>7 DEF SessionFails, GetPublicKey, Sign
<1>8. CASE UNCHANGED vars
  BY <1>4, <1>8 DEF vars
<1> QED
  BY <1>2, <1>3, <1>5, <1>6, <1>7, <1>8, AcceptedLoad, AcceptedAdd, AcceptedSpawn, AcceptedRun
  DEF Next, Main, Load, Exited

LEMMA AcceptedIsLoadable ==
    ASSUME StartInv, LoadInv
    PROVE  ServesOnlyLoadable
<1> SUFFICES ASSUME pc \in {"join", "executor"} PROVE Loadable(config)
  BY DEF ServesOnlyLoadable
<1>1. /\ chain_at = Len(config.chain) + 1 /\ RegisteredSoFar /\ AddedSoFar /\ config \in Configs
      /\ AcceptedSoFar
  BY DEF StartInv, StartTypeOK, LoadInv
<1>2. 1 .. chain_at - 1 = DOMAIN config.chain
  BY <1>1, ConfigTyped
<1>3. /\ \A i, j \in DOMAIN config.chain : config.chain[i] = config.chain[j] => i = j
      /\ registered = {config.chain[i] : i \in DOMAIN config.chain}
  BY <1>1, <1>2 DEF RegisteredSoFar
<1>4. \A i \in DOMAIN AllEntries : \A j \in DOMAIN AllEntries[i].chain_ids : Added(i, j)
  BY AllAdded
<1>5. \A i \in DOMAIN AllEntries : i < entry_at
  <2>1. entry_at = Len(AllEntries) + 1
    BY AllAdded
  <2>2. DOMAIN AllEntries = 1 .. Len(AllEntries) /\ Len(AllEntries) \in Nat
    BY <1>1, Positions
  <2> QED BY <2>1, <2>2
<1>6. \A i \in DOMAIN AllEntries : ProviderAccepts(config.providers, i)
  BY <1>1, <1>5 DEF AcceptedSoFar
<1>7. \A i \in DOMAIN AllEntries : \A j \in DOMAIN AllEntries[i].chain_ids :
        AllEntries[i].chain_ids[j] \in registered
  BY <1>1, <1>4 DEF AddedSoFar
<1>8. \A i, h \in DOMAIN AllEntries :
          \A j \in DOMAIN AllEntries[i].chain_ids, l \in DOMAIN AllEntries[h].chain_ids :
             /\ AllEntries[h].key_type = AllEntries[i].key_type
             /\ AllEntries[h].key = AllEntries[i].key
             /\ AllEntries[h].chain_ids[l] = AllEntries[i].chain_ids[j]
             => h = i /\ l = j
  BY <1>1, <1>4 DEF AcceptedSoFar
<1>9. (\A v \in DOMAIN config.validator : config.validator[v].chain_id \in registered)
      /\ config.tx_signer <= 1
  BY DEF LoadInv, Clients, ChainOf
<1> QED BY <1>3, <1>6, <1>7, <1>8, <1>9 DEF Loadable, AllEntries

(* Throughout start-up, what load_config and spawn_clients let through so   *)
(* far is acceptable.                                                       *)
THEOREM LoadInvariance == Spec => []LoadInv
<1>1. Init => LoadInv
  BY DEF Init, LoadInv
<1>2. StartInv /\ LoadInv /\ [Next]_vars => LoadInv'
  BY LoadStepHolds
<1> QED BY <1>1, <1>2, StartInvariance, PTL DEF Spec

(* Start-up goes through for exactly the correct configurations, whatever   *)
(* the number of chains, keys, providers and validators: load_config,       *)
(* spawn_clients and run_app turn none of them away and let no other pass,  *)
(* and then a validator is signed for exactly if its chain has one          *)
(* consensus key.                                                           *)
THEOREM CorrectConfigServes == Spec => LoadableServes
<1>1. StartInv /\ LoadInv => ServesOnlyLoadable
  BY AcceptedIsLoadable
<1>2. StartInv /\ [Next]_vars /\ ServesOnlyLoadable'
      => [Unfailing =>
           /\ Loadable(config) => pc' # "exited"
           /\ pc' \in {"join", "executor"} =>
                 /\ Loadable(config)
                 /\ \A i \in Clients :
                       CanSign(i) <=> \E k \in Keys : ConsensusKeys(config, ChainOf(i)) = {k}]_vars
  <2> SUFFICES ASSUME StartInv, ServesOnlyLoadable', Unfailing
               PROVE  /\ Loadable(config) => pc' # "exited"
                      /\ pc' \in {"join", "executor"} =>
                            /\ Loadable(config)
                            /\ \A i \in Clients :
                                  CanSign(i) <=> \E k \in Keys : ConsensusKeys(config, ChainOf(i)) = {k}
    OBVIOUS
  <2>1. config' = config
    BY DEF Unfailing, RegisterChain, ChainsRegistered, LoadKey, AddKey, NextKey, KeysLoaded,
           SpawnClient, RunApp
  <2>2. pc' \in {"join", "executor"} => Loadable(config)
    BY <2>1 DEF ServesOnlyLoadable
  <2> QED BY <2>2, UnfailingStep
<1> QED BY <1>1, <1>2, StartInvariance, LoadInvariance, PTL DEF Spec, LoadableServes
=============================================================================
