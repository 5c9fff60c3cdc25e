------------------------------ MODULE KeyRing ------------------------------
(***************************************************************************)
(* The keyring of a chain (keyring.rs) and the four providers that fill it *)
(* from the configuration: softsign, yubihsm, ledgertm and fortanixdsm     *)
(* (keyring/providers/). A keyring maps public keys to the provider of     *)
(* their signer; None stands for a key it does not hold.                   *)
(***************************************************************************)
EXTENDS Naturals, Sequences, FiniteSets

CONSTANTS
    Chains,   \* chain IDs
    Keys,     \* public keys
    None

Providers == {"SoftSign", "Yubihsm", "LedgerTm", "FortanixDsm"}

(* A keyring is a map in memory. *)
ASSUME KeysAssumption == IsFiniteSet(Keys)
ASSUME NoneAssumption == None \notin Providers \cup Keys /\ None # 0

KeyType == {"Account", "Consensus"}
KeyFormat == {"Base64", "Json"}
EllipticCurve == {"SecP256K1", "Ed25519", "NistP256"}

(* One key of a provider's section: the public key it turns out to have, the *)
(* chains it is for, and what holds it: the format of a key file, or the     *)
(* curve of the object in the device or service.                             *)
Entry == [provider  : Providers,
          key_type  : KeyType,
          key       : Keys,
          chain_ids : Seq(Chains),
          found     : KeyFormat \cup EllipticCurve]

(* ProviderConfig; yubihsm_sections counts the [[providers.yubihsm]] entries, *)
(* whose keys are those of yubihsm.                                           *)
ProviderConfig == [softsign : Seq(Entry), yubihsm : Seq(Entry), yubihsm_sections : Nat,
                   ledgertm : Seq(Entry), fortanixdsm : Seq(Entry)]

(* keyring::load_config: the keys, in the order they are loaded. *)
Entries(p) == p.softsign \o p.yubihsm \o p.ledgertm \o p.fortanixdsm

-----------------------------------------------------------------------------
(* What each provider insists on before it adds a key.                      *)

RequiredCurve(type) == IF type = "Account" THEN "SecP256K1" ELSE "Ed25519"

(* softsign: account keys are Base64, and there is one consensus key. *)
SoftsignAccepts(es, i) ==
    /\ es[i].key_type = "Account" => es[i].found = "Base64"
    /\ es[i].key_type = "Consensus" => \A j \in 1 .. i - 1 : es[j].key_type # "Consensus"

(* yubihsm: one section, and a key of the right algorithm under the ID. *)
YubihsmAccepts(sections, e) == sections = 1 /\ e.found = RequiredCurve(e.key_type)

(* ledgertm: one section, and its key is a consensus key. *)
LedgerTmAccepts(es) == Len(es) = 1

(* fortanixdsm: SigningKey::new finds an EC object of the right curve. *)
FortanixDsmAccepts(e) == e.found = RequiredCurve(e.key_type)

(* The checks on the i-th of the Entries; those of softsign come first. *)
ProviderAccepts(p, i) ==
    LET e == Entries(p)[i] IN
    CASE e.provider = "SoftSign"    -> SoftsignAccepts(p.softsign, i)
      [] e.provider = "Yubihsm"     -> YubihsmAccepts(p.yubihsm_sections, e)
      [] e.provider = "LedgerTm"    -> LedgerTmAccepts(p.ledgertm)
      [] e.provider = "FortanixDsm" -> FortanixDsmAccepts(e)

-----------------------------------------------------------------------------
(* KeyRing                                                                  *)

Ring == [Keys -> Providers \cup {None}]

NewRing == [k \in Keys |-> None]

KeysOf(ring) == {k \in Keys : ring[k] # None}

(* add_ecdsa and add_ed25519 replace the signer they then complain about. *)
Insert(ring, e) == [ring EXCEPT ![e.key] = e.provider]

MutDuplicateIgnored(ring, e) == FALSE

MutSecondKeyRefused(ring, e) == KeysOf(ring) # {}

Duplicate(ring, e) == ring[e.key] # None

(* default_ed25519_pubkey: the only key, or an error. *)
default_ed25519_pubkey(ring) ==
    IF Cardinality(KeysOf(ring)) = 1 THEN CHOOSE k \in KeysOf(ring) : TRUE ELSE None

MutFirstOfSeveral(ring) ==
    IF KeysOf(ring) # {} THEN CHOOSE k \in KeysOf(ring) : TRUE ELSE None

(* sign_ed25519 without a public key: too many keys, or none, is an error. *)
sign_ed25519(ring) ==
    IF Cardinality(KeysOf(ring)) > 1 THEN None
    ELSE IF KeysOf(ring) = {} THEN None
    ELSE CHOOSE k \in KeysOf(ring) : TRUE
=============================================================================
