----------------------------- MODULE InitConfig -----------------------------
(***************************************************************************)
(* The tmkms.toml that `tmkms init` generates (commands/init.rs,           *)
(* commands/init/config_builder.rs), and its first `tmkms start`. What is  *)
(* generated depends on the networks asked for and on the features tmkms   *)
(* was built with.                                                         *)
(***************************************************************************)
EXTENDS Startup

CONSTANTS
    LedgerChain,  \* "cosmoshub-1", the chain ID templates/keyring/ledgertm.toml names
    Invocations   \* <<networks, features>>: the `tmkms init` commands that are run

ASSUME InvocationsAssumption ==
    \A n \in Invocations : n[1] \in Seq(Chains)

(* The key an entry turns out to have: the operator makes one for each key  *)
(* file or HSM key ID, and one of each type in the DSM.                     *)
KeyOf(provider, type, chain_ids) == <<provider, type, chain_ids>>

GeneratedEntry(provider, type, c, format) ==
    [provider  |-> provider,
     key_type  |-> type,
     key       |-> KeyOf(provider, type, IF provider = "FortanixDsm" THEN <<>> ELSE <<c>>),
     chain_ids |-> <<c>>,
     found     |-> format]

KeyTypes(features) == IF "tx-signer" \in features THEN <<"Consensus", "Account">>
                      ELSE <<"Consensus">>

(* add_template_with_chain_id: the template, once for each network. *)
add_template_with_chain_id(networks, provider, type, format) ==
    [i \in DOMAIN networks |-> GeneratedEntry(provider, type, networks[i], format)]

softsign_provider_config(networks, features) ==
    LET Template(type) == add_template_with_chain_id(networks, "SoftSign", type, "Base64")
    IN IF "tx-signer" \in features THEN Template("Consensus") \o Template("Account")
       ELSE Template("Consensus")

(* One section; its key IDs count through the networks and the key types. *)
yubihsm_provider_config(networks, features) ==
    LET types == KeyTypes(features) IN
    [key_id \in 1 .. Len(networks) * Len(types) |->
        LET type == types[((key_id - 1) % Len(types)) + 1]
            c == networks[((key_id - 1) \div Len(types)) + 1]
        IN GeneratedEntry("Yubihsm", type, c, RequiredCurve(type))]

(* The template has no $CHAIN_ID. *)
ledgertm_provider_config(networks) ==
    [n \in DOMAIN networks |-> GeneratedEntry("LedgerTm", "Consensus", LedgerChain, "Ed25519")]

MutAccountKeyOnly(networks) ==
    add_template_with_chain_id(networks, "FortanixDsm", "Account", "SecP256K1")

(* The template has both keys of a network. *)
fortanixdsm_provider_config(networks) ==
    [i \in 1 .. Len(networks) * 2 |->
        LET type == IF i % 2 = 1 THEN "Account" ELSE "Consensus"
            c == networks[((i - 1) \div 2) + 1]
        IN GeneratedEntry("FortanixDsm", type, c, RequiredCurve(type))]

(* add_provider_config: the sections of the providers tmkms is built with. *)
GeneratedProviders(networks, features) ==
    LET If(feature, section) == IF feature \in features THEN section ELSE <<>> IN
    [softsign         |-> If("softsign", softsign_provider_config(networks, features)),
     yubihsm          |-> If("yubihsm", yubihsm_provider_config(networks, features)),
     yubihsm_sections |-> IF "yubihsm" \in features THEN 1 ELSE 0,
     ledgertm         |-> If("ledger", ledgertm_provider_config(networks)),
     fortanixdsm      |-> If("fortanixdsm", fortanixdsm_provider_config(networks))]

(* ConfigBuilder::generate; the [[tx_signer]] template is commented out. *)
generate(networks, features) ==
    [chain     |-> networks,
     providers |-> GeneratedProviders(networks, features),
     validator |-> [n \in DOMAIN networks |-> [chain_id |-> networks[n], reconnect |-> TRUE]],
     tx_signer |-> 0]

Generated == {generate(i[1], i[2]) : i \in Invocations}

(* The invocations whose template fits: networks that differ, a build with  *)
(* one provider, and softsign for one network only, as it has one consensus *)
(* key. A Ledger section names a chain ID that is none of the networks'.    *)
Supported(networks, features) ==
    /\ \A i, j \in DOMAIN networks : networks[i] = networks[j] => i = j
    /\ \E p \in {"softsign", "yubihsm", "fortanixdsm"} :
          features \cap {"softsign", "yubihsm", "ledger", "fortanixdsm"} = {p}
    /\ "softsign" \in features => Len(networks) = 1

SupportedConfigs ==
    {generate(i[1], i[2]) : i \in {n \in Invocations : Supported(n[1], n[2])}}

(* "The `tmkms init` command can be used to generate a directory containing *)
(* the configuration files needed to run the KMS": once its keys are in     *)
(* place, no step of `tmkms start` refuses what ConfigBuilder generated,    *)
(* and every validator it lists can be signed for.                          *)
GeneratedConfigServes ==
    [][Unfailing /\ config \in SupportedConfigs
       => pc' # "exited" /\ (pc' = "join" => \A i \in Clients : CanSign(i))]_vars
=============================================================================
