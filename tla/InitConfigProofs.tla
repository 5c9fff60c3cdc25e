------------------------- MODULE InitConfigProofs -------------------------
(***************************************************************************)
(* Proof that what `tmkms init` generates is a correct configuration, for  *)
(* any number of networks, and so is served.                               *)
(***************************************************************************)
EXTENDS InitConfig, StartupProofs, SequenceTheorems

(* The keys of a generated section: each is for one network, no two of one  *)
(* type are for the same, and every network has a consensus key.            *)
Fits(es, networks) ==
    /\ \A i \in DOMAIN es : \E n \in DOMAIN networks : es[i].chain_ids = <<networks[n]>>
    /\ \A i, h \in DOMAIN es :
          es[i].key_type = es[h].key_type /\ es[i].chain_ids = es[h].chain_ids => i = h
    /\ \A n \in DOMAIN networks : \E i \in DOMAIN es :
          es[i].key_type = "Consensus" /\ es[i].chain_ids = <<networks[n]>>

(* Facts about a generated entry. *)
LEMMA EntryFields ==
    ASSUME NEW p, NEW t, NEW c, NEW f
    PROVE  LET e == GeneratedEntry(p, t, c, f) IN
           e.provider = p /\ e.key_type = t /\ e.chain_ids = <<c>> /\ e.found = f
BY DEF GeneratedEntry

(* A configuration whose keys fit its chains can be loaded, and each of its *)
(* validators has one consensus key.                                        *)
LEMMA FittingServes ==
    ASSUME NEW cf \in Configs, NEW networks \in Seq(Chains),
           \A i, j \in DOMAIN networks : networks[i] = networks[j] => i = j,
           cf.chain = networks, cf.tx_signer = 0,
           \A v \in DOMAIN cf.validator : \E n \in DOMAIN networks :
              cf.validator[v].chain_id = networks[n],
           Fits(Entries(cf.providers), networks),
           \A i \in DOMAIN Entries(cf.providers) : ProviderAccepts(cf.providers, i),
           \A i \in DOMAIN Entries(cf.providers) : Entries(cf.providers)[i].key \in Keys
    PROVE  /\ Loadable(cf)
           /\ \A v \in DOMAIN cf.validator :
                \E k \in Keys : ConsensusKeys(cf, cf.validator[v].chain_id) = {k}
<1> DEFINE es == Entries(cf.providers)
<1>1. \A i \in DOMAIN es : \A j \in DOMAIN es[i].chain_ids :
        /\ j = 1 /\ es[i].chain_ids = <<es[i].chain_ids[j]>>
        /\ \E n \in DOMAIN networks : es[i].chain_ids[j] = networks[n]
  <2> SUFFICES ASSUME NEW i \in DOMAIN es, NEW j \in DOMAIN es[i].chain_ids
               PROVE  /\ j = 1 /\ es[i].chain_ids = <<es[i].chain_ids[j]>>
                      /\ \E n \in DOMAIN networks : es[i].chain_ids[j] = networks[n]
    OBVIOUS
  <2>1. PICK n \in DOMAIN networks : es[i].chain_ids = <<networks[n]>>
    BY DEF Fits
  <2> HIDE DEF es
  <2>2. DOMAIN es[i].chain_ids = {1} /\ es[i].chain_ids[1] = networks[n]
    BY <2>1
  <2> QED BY <2>1, <2>2
<1>2. \A i, h \in DOMAIN es :
        es[i].key_type = es[h].key_type /\ es[i].chain_ids = es[h].chain_ids => i = h
  BY DEF Fits
<1>3. Loadable(cf)
  <2>1. \A i \in DOMAIN es : \A j \in DOMAIN es[i].chain_ids :
          /\ es[i].chain_ids[j] \in {cf.chain[n] : n \in DOMAIN cf.chain}
          /\ \A h \in DOMAIN es : \A l \in DOMAIN es[h].chain_ids :
                /\ es[h].key_type = es[i].key_type
                /\ es[h].chain_ids[l] = es[i].chain_ids[j]
                => h = i /\ l = j
    <3> HIDE DEF es
    <3> QED BY <1>1, <1>2
  <2> QED BY <2>1 DEF Loadable
<1>4. ASSUME NEW v \in DOMAIN cf.validator
      PROVE  \E k \in Keys : ConsensusKeys(cf, cf.validator[v].chain_id) = {k}
  <2> DEFINE c == cf.validator[v].chain_id
  <2>1. PICK i \in DOMAIN es : es[i].key_type = "Consensus" /\ es[i].chain_ids = <<c>>
    BY DEF Fits
  <2>2. es[i].key \in Keys
    OBVIOUS
  <2> HIDE DEF es, c
  <2>3. 1 \in DOMAIN es[i].chain_ids /\ es[i].chain_ids[1] = c
    BY <2>1
  <2>4. Lists(es[i], "Consensus", es[i].key, c)
    BY <2>1, <2>3 DEF Lists
  <2>5. \A h \in DOMAIN es : Lists(es[h], "Consensus", es[h].key, c) => h = i
    BY <1>1, <1>2, <2>1 DEF Lists
  <2>6. ConsensusKeys(cf, c) = {es[i].key}
    BY <2>4, <2>5 DEF ConsensusKeys, es
  <2> QED BY <2>2, <2>6 DEF c
<1> QED BY <1>3, <1>4

-----------------------------------------------------------------------------
(* The sections of the templates.                                           *)

(* Counting through pairs: each number stands for one member of one pair. *)
LEMMA Pairs ==
    ASSUME NEW n \in Nat
    PROVE  /\ \A i \in 1 .. n * 2 : /\ ((i - 1) \div 2) + 1 \in 1 .. n
                                    /\ (i - 1) % 2 \in {0, 1} /\ i % 2 = 1 - ((i - 1) % 2)
           /\ \A i, h \in 1 .. n * 2 :
                (i - 1) % 2 = (h - 1) % 2 /\ ((i - 1) \div 2) + 1 = ((h - 1) \div 2) + 1 => i = h
OBVIOUS

LEMMA MemberOfPair ==
    ASSUME NEW n \in Nat, NEW m \in 1 .. n, NEW r \in {0, 1}
    PROVE  LET i == (2 * m) - 1 + r IN
           i \in 1 .. n * 2 /\ ((i - 1) \div 2) + 1 = m /\ (i - 1) % 2 = r
<1>1. (2 * m) - 1 + r - 1 = (2 * (m - 1)) + r
  OBVIOUS
<1> QED BY <1>1

(* A section with two keys for each network, in whichever order. *)
LEMMA PairsFit ==
    ASSUME NEW networks \in Seq(Chains), NEW es,
           \A i, j \in DOMAIN networks : networks[i] = networks[j] => i = j,
           DOMAIN es = 1 .. Len(networks) * 2,
           \A i \in DOMAIN es :
              es[i].chain_ids = <<networks[((i - 1) \div 2) + 1]>>,
           \E r \in {0, 1} : \A i \in DOMAIN es :
              es[i].key_type = IF (i - 1) % 2 = r THEN "Consensus" ELSE "Account"
    PROVE  Fits(es, networks)
<1>1. Len(networks) \in Nat /\ DOMAIN networks = 1 .. Len(networks)
  OBVIOUS
<1>2. \A i \in DOMAIN es : ((i - 1) \div 2) + 1 \in DOMAIN networks /\ (i - 1) % 2 \in {0, 1}
  BY <1>1, Pairs
<1>3. \A x, y : <<x>> = <<y>> => x = y
  OBVIOUS
<1>4. ASSUME NEW i \in DOMAIN es, NEW h \in DOMAIN es,
             es[i].key_type = es[h].key_type, es[i].chain_ids = es[h].chain_ids
      PROVE  i = h
  <2>1. (i - 1) % 2 = (h - 1) % 2
    <3>1. PICK r \in {0, 1} : \A x \in DOMAIN es :
            es[x].key_type = IF (x - 1) % 2 = r THEN "Consensus" ELSE "Account"
      OBVIOUS
    <3> QED BY <1>2, <1>4, <3>1
  <2>2. networks[((i - 1) \div 2) + 1] = networks[((h - 1) \div 2) + 1]
    BY <1>3, <1>4
  <2>3. ((i - 1) \div 2) + 1 = ((h - 1) \div 2) + 1
    BY <1>2, <2>2
  <2> QED BY <1>1, <2>1, <2>3, Pairs
<1>5. ASSUME NEW n \in DOMAIN networks
      PROVE  \E i \in DOMAIN es : es[i].key_type = "Consensus" /\ es[i].chain_ids = <<networks[n]>>
  <2>1. PICK r \in {0, 1} : \A x \in DOMAIN es :
          es[x].key_type = IF (x - 1) % 2 = r THEN "Consensus" ELSE "Account"
    OBVIOUS
  <2>2. PICK i \in DOMAIN es : ((i - 1) \div 2) + 1 = n /\ (i - 1) % 2 = r
    <3>1. n \in 1 .. Len(networks) /\ DOMAIN es = 1 .. Len(networks) * 2 /\ Len(networks) \in Nat
      BY <1>1
    <3>2. LET i == (2 * n) - 1 + r IN
          i \in 1 .. Len(networks) * 2 /\ ((i - 1) \div 2) + 1 = n /\ (i - 1) % 2 = r
      BY <3>1, MemberOfPair
    <3> QED BY <3>1, <3>2
  <2> QED BY <2>1, <2>2
<1>6. \A i \in DOMAIN es : \E n \in DOMAIN networks : es[i].chain_ids = <<networks[n]>>
  BY <1>2
<1> QED BY <1>4, <1>5, <1>6 DEF Fits

(* A section with the consensus key of each network. *)
LEMMA SinglesFit ==
    ASSUME NEW networks \in Seq(Chains), NEW es,
           \A i, j \in DOMAIN networks : networks[i] = networks[j] => i = j,
           DOMAIN es = DOMAIN networks,
           \A i \in DOMAIN es : es[i].chain_ids = <<networks[i]>> /\ es[i].key_type = "Consensus"
    PROVE  Fits(es, networks)
<1>1. \A x, y : <<x>> = <<y>> => x = y
  OBVIOUS
<1> QED BY <1>1 DEF Fits

LEMMA YubihsmFits ==
    ASSUME NEW networks \in Seq(Chains), NEW features,
           \A i, j \in DOMAIN networks : networks[i] = networks[j] => i = j
    PROVE  LET es == yubihsm_provider_config(networks, features) IN
           /\ Fits(es, networks)
           /\ \A i \in DOMAIN es : /\ es[i].provider = "Yubihsm"
                                   /\ es[i].found = RequiredCurve(es[i].key_type)
<1> DEFINE es == yubihsm_provider_config(networks, features)
           types == KeyTypes(features)
           type(i) == types[((i - 1) % Len(types)) + 1]
           c(i) == networks[((i - 1) \div Len(types)) + 1]
<1>1. /\ DOMAIN es = 1 .. Len(networks) * Len(types)
      /\ \A i \in DOMAIN es : es[i] = GeneratedEntry("Yubihsm", type(i), c(i), RequiredCurve(type(i)))
  BY DEF yubihsm_provider_config
<1>2. \A i \in DOMAIN es : /\ es[i].provider = "Yubihsm" /\ es[i].key_type = type(i)
                           /\ es[i].chain_ids = <<c(i)>>
                           /\ es[i].found = RequiredCurve(es[i].key_type)
  <2> HIDE DEF es, type, c
  <2> QED BY <1>1, EntryFields
<1>3. Len(networks) \in Nat /\ DOMAIN networks = 1 .. Len(networks)
  OBVIOUS
<1>4. CASE "tx-signer" \in features
  <2>1. Len(types) = 2 /\ types[1] = "Consensus" /\ types[2] = "Account"
    BY <1>4 DEF KeyTypes
  <2>2. DOMAIN es = 1 .. Len(networks) * 2
    BY <1>1, <2>1
  <2>3. \A i \in DOMAIN es : /\ es[i].chain_ids = <<networks[((i - 1) \div 2) + 1]>>
                             /\ es[i].key_type = types[((i - 1) % 2) + 1]
    <3> HIDE DEF es, types
    <3> QED BY <1>2, <2>1
  <2>4. \A i \in DOMAIN es : es[i].key_type = IF (i - 1) % 2 = 0 THEN "Consensus" ELSE "Account"
    <3> HIDE DEF es, types
    <3>1. \A i \in DOMAIN es : (i - 1) % 2 \in {0, 1}
      BY <1>3, <2>2, Pairs
    <3> QED BY <2>1, <2>3, <3>1
  <2> HIDE DEF es
  <2>5. Fits(es, networks)
    BY <2>2, <2>3, <2>4, PairsFit
  <2> QED BY <1>2, <2>5 DEF es
<1>5. CASE "tx-signer" \notin features
  <2>1. Len(types) = 1 /\ types[1] = "Consensus"
    BY <1>5 DEF KeyTypes
  <2>2. DOMAIN es = DOMAIN networks
    <3> HIDE DEF es, types
    <3>0. \A n \in Nat : n * 1 = n
      OBVIOUS
    <3>1. Len(networks) * Len(types) = Len(networks)
      BY <1>3, <2>1, <3>0
    <3> QED BY <1>1, <1>3, <3>1
  <2>3. \A i \in DOMAIN es : (i - 1) % 1 = 0 /\ (i - 1) \div 1 = i - 1
    BY <1>3, <2>2
  <2>4. \A i \in DOMAIN es : es[i].chain_ids = <<networks[i]>> /\ es[i].key_type = "Consensus"
    <3> HIDE DEF es, types
    <3> QED BY <1>2, <1>3, <2>1, <2>2, <2>3
  <2> HIDE DEF es
  <2>5. Fits(es, networks)
    BY <2>2, <2>4, SinglesFit
  <2> QED BY <1>2, <2>5 DEF es
<1> QED BY <1>4, <1>5

LEMMA FortanixDsmFits ==
    ASSUME NEW networks \in Seq(Chains),
           \A i, j \in DOMAIN networks : networks[i] = networks[j] => i = j
    PROVE  LET es == fortanixdsm_provider_config(networks) IN
           /\ Fits(es, networks)
           /\ \A i \in DOMAIN es : /\ es[i].provider = "FortanixDsm"
                                   /\ es[i].found = RequiredCurve(es[i].key_type)
<1> DEFINE es == fortanixdsm_provider_config(networks)
           type(i) == IF i % 2 = 1 THEN "Account" ELSE "Consensus"
           c(i) == networks[((i - 1) \div 2) + 1]
<1>1. /\ DOMAIN es = 1 .. Len(networks) * 2
      /\ \A i \in DOMAIN es :
            es[i] = GeneratedEntry("FortanixDsm", type(i), c(i), RequiredCurve(type(i)))
  BY DEF fortanixdsm_provider_config
<1>2. \A i \in DOMAIN es : /\ es[i].provider = "FortanixDsm" /\ es[i].key_type = type(i)
                           /\ es[i].chain_ids = <<c(i)>>
                           /\ es[i].found = RequiredCurve(es[i].key_type)
  <2> HIDE DEF es, type, c
  <2> QED BY <1>1, EntryFields
<1>3. Len(networks) \in Nat
  OBVIOUS
<1>4. \A i \in DOMAIN es : es[i].key_type = IF (i - 1) % 2 = 1 THEN "Consensus" ELSE "Account"
  <2> HIDE DEF es
  <2>1. \A i \in DOMAIN es : (i - 1) % 2 \in {0, 1} /\ i % 2 = 1 - ((i - 1) % 2)
    BY <1>1, <1>3, Pairs
  <2> QED BY <1>2, <2>1
<1> HIDE DEF es, type, c
<1>5. \A i \in DOMAIN es : es[i].chain_ids = <<networks[((i - 1) \div 2) + 1]>>
  BY <1>2 DEF c
<1>6. Fits(es, networks)
  <2>1. \E r \in {0, 1} : \A i \in DOMAIN es :
          es[i].key_type = IF (i - 1) % 2 = r THEN "Consensus" ELSE "Account"
    BY <1>4
  <2> QED BY <1>1, <1>5, <2>1, PairsFit
<1> QED BY <1>2, <1>6 DEF es

LEMMA ConcatOfTwo ==
    ASSUME NEW s, NEW t, NEW x, NEW y, s = <<x>>, t = <<y>>
    PROVE  DOMAIN (s \o t) = {1, 2} /\ (s \o t)[1] = x /\ (s \o t)[2] = y
<1>1. s \in Seq({x, y}) /\ t \in Seq({x, y}) /\ Len(s) = 1 /\ Len(t) = 1 /\ s[1] = x /\ t[1] = y
  OBVIOUS
<1>2. s \o t \in Seq({x, y}) /\ Len(s \o t) = 2 /\ (s \o t)[1] = s[1] /\ (s \o t)[2] = t[1]
  BY <1>1, ConcatProperties
<1>3. DOMAIN (s \o t) = 1 .. 2
  BY <1>2, LenProperties
<1> QED BY <1>1, <1>2, <1>3

(* softsign, for its one network. *)
LEMMA SoftsignFits ==
    ASSUME NEW networks \in Seq(Chains), NEW features, Len(networks) = 1
    PROVE  LET es == softsign_provider_config(networks, features) IN
           /\ Fits(es, networks)
           /\ \A i \in DOMAIN es : es[i].provider = "SoftSign" /\ SoftsignAccepts(es, i)
<1> DEFINE es == softsign_provider_config(networks, features)
           e(t) == GeneratedEntry("SoftSign", t, networks[1], "Base64")
           template(t) == add_template_with_chain_id(networks, "SoftSign", t, "Base64")
<1>1. DOMAIN networks = 1 .. 1
  OBVIOUS
<1>2. ASSUME NEW t
      PROVE  template(t) = <<e(t)>>
  <2> HIDE DEF e
  <2>1. template(t) = [i \in 1 .. 1 |-> e(t)]
    BY <1>1 DEF add_template_with_chain_id, e
  <2> HIDE DEF template
  <2> QED BY <2>1
<1>3. \A t : /\ e(t).provider = "SoftSign" /\ e(t).key_type = t
             /\ e(t).chain_ids = <<networks[1]>> /\ e(t).found = "Base64"
  <2> QED BY EntryFields
<1>4. CASE "tx-signer" \in features
  <2>1. es = template("Consensus") \o template("Account")
    BY <1>4 DEF softsign_provider_config
  <2> HIDE DEF es, e, template
  <2>2. template("Consensus") = <<e("Consensus")>> /\ template("Account") = <<e("Account")>>
    BY <1>2
  <2>3. DOMAIN es = {1, 2} /\ es[1] = e("Consensus") /\ es[2] = e("Account")
    BY <2>1, <2>2, ConcatOfTwo
  <2>4. Fits(es, networks)
    BY <1>1, <1>3, <2>3 DEF Fits
  <2>5. \A i \in DOMAIN es : es[i].provider = "SoftSign" /\ SoftsignAccepts(es, i)
    BY <1>3, <2>3 DEF SoftsignAccepts
  <2> QED BY <2>4, <2>5 DEF es
<1>5. CASE "tx-signer" \notin features
  <2>1. es = template("Consensus")
    BY <1>5 DEF softsign_provider_config
  <2> HIDE DEF es, e, template
  <2>2. DOMAIN es = {1} /\ es[1] = e("Consensus")
    BY <1>2, <2>1
  <2>3. Fits(es, networks)
    BY <1>1, <1>3, <2>2 DEF Fits
  <2>4. \A i \in DOMAIN es : es[i].provider = "SoftSign" /\ SoftsignAccepts(es, i)
    BY <1>3, <2>2 DEF SoftsignAccepts
  <2> QED BY <2>3, <2>4 DEF es
<1> QED BY <1>4, <1>5

-----------------------------------------------------------------------------
(* With one provider, the keys are those of its section. *)
LEMMA OneSection ==
    ASSUME NEW p \in ProviderConfig, NEW s \in {"softsign", "yubihsm", "fortanixdsm"},
           s # "softsign" => p.softsign = <<>>, s # "yubihsm" => p.yubihsm = <<>>,
           p.ledgertm = <<>>, s # "fortanixdsm" => p.fortanixdsm = <<>>
    PROVE  Entries(p) = p[s]
<1>1. /\ p.softsign \in Seq(Entry) /\ p.yubihsm \in Seq(Entry)
      /\ p.ledgertm \in Seq(Entry) /\ p.fortanixdsm \in Seq(Entry)
  BY DEF ProviderConfig
<1>2. \A es \in Seq(Entry) : es \o <<>> = es /\ <<>> \o es = es
  BY ConcatEmptySeq
<1>3. CASE s = "softsign"
  BY <1>1, <1>2, <1>3 DEF Entries
<1>4. CASE s = "yubihsm"
  BY <1>1, <1>2, <1>4 DEF Entries
<1>5. CASE s = "fortanixdsm"
  BY <1>1, <1>2, <1>5 DEF Entries
<1> QED BY <1>3, <1>4, <1>5

(* What a supported invocation generates is a correct configuration. *)
LEMMA GeneratedIsLoadable ==
    ASSUME NEW n \in Invocations, Supported(n[1], n[2]), generate(n[1], n[2]) \in Configs
    PROVE  LET cf == generate(n[1], n[2]) IN
           /\ Loadable(cf)
           /\ \A v \in DOMAIN cf.validator :
                \E k \in Keys : ConsensusKeys(cf, cf.validator[v].chain_id) = {k}
<1> DEFINE networks == n[1]
           features == n[2]
           cf == generate(networks, features)
           p == GeneratedProviders(networks, features)
<1>1. /\ networks \in Seq(Chains) /\ cf \in KmsConfig /\ WellFormed(cf.providers)
      /\ \A i, j \in DOMAIN networks : networks[i] = networks[j] => i = j
      /\ "softsign" \in features => Len(networks) = 1
  BY InvocationsAssumption, ConfigsAssumption DEF Supported
<1>2. PICK s \in {"softsign", "yubihsm", "fortanixdsm"} :
        features \cap {"softsign", "yubihsm", "ledger", "fortanixdsm"} = {s}
  BY DEF Supported
<1>3. /\ cf.chain = networks /\ cf.providers = p /\ cf.tx_signer = 0
      /\ DOMAIN cf.validator = DOMAIN networks
      /\ \A v \in DOMAIN networks : cf.validator[v].chain_id = networks[v]
  BY DEF generate
<1>4. /\ p.softsign = IF "softsign" \in features
                      THEN softsign_provider_config(networks, features) ELSE <<>>
      /\ p.yubihsm = IF "yubihsm" \in features
                     THEN yubihsm_provider_config(networks, features) ELSE <<>>
      /\ p.yubihsm_sections = IF "yubihsm" \in features THEN 1 ELSE 0
      /\ p.ledgertm = IF "ledger" \in features THEN ledgertm_provider_config(networks) ELSE <<>>
      /\ p.fortanixdsm = IF "fortanixdsm" \in features
                         THEN fortanixdsm_provider_config(networks) ELSE <<>>
  BY DEF GeneratedProviders
<1>5. p \in ProviderConfig
  BY <1>1, <1>3 DEF KmsConfig
<1> HIDE DEF networks, features, cf, p
<1>6. Entries(p) = p[s]
  BY <1>2, <1>4, <1>5, OneSection
<1>7. Fits(Entries(p), networks) /\ \A i \in DOMAIN Entries(p) : ProviderAccepts(p, i)
  <2>1. CASE s = "softsign"
    <3>1. /\ Entries(p) = p.softsign /\ p.softsign = softsign_provider_config(networks, features)
          /\ Len(networks) = 1
      BY <1>1, <1>2, <1>4, <1>6, <2>1
    <3>2. /\ Fits(Entries(p), networks)
          /\ \A i \in DOMAIN Entries(p) :
               Entries(p)[i].provider = "SoftSign" /\ SoftsignAccepts(p.softsign, i)
      BY <1>1, <3>1, SoftsignFits
    <3> QED BY <3>2 DEF ProviderAccepts
  <2>2. CASE s = "yubihsm"
    <3>1. /\ Entries(p) = p.yubihsm /\ p.yubihsm = yubihsm_provider_config(networks, features)
          /\ p.yubihsm_sections = 1
      BY <1>2, <1>4, <1>6, <2>2
    <3>2. /\ Fits(Entries(p), networks)
          /\ \A i \in DOMAIN Entries(p) : /\ Entries(p)[i].provider = "Yubihsm"
                                          /\ Entries(p)[i].found = RequiredCurve(Entries(p)[i].key_type)
      BY <1>1, <3>1, YubihsmFits
    <3>3. \A i \in DOMAIN Entries(p) : YubihsmAccepts(p.yubihsm_sections, Entries(p)[i])
      BY <3>1, <3>2 DEF YubihsmAccepts
    <3> QED BY <3>2, <3>3 DEF ProviderAccepts
  <2>3. CASE s = "fortanixdsm"
    <3>1. Entries(p) = p.fortanixdsm /\ p.fortanixdsm = fortanixdsm_provider_config(networks)
      BY <1>2, <1>4, <1>6, <2>3
    <3>2. /\ Fits(Entries(p), networks)
          /\ \A i \in DOMAIN Entries(p) : /\ Entries(p)[i].provider = "FortanixDsm"
                                          /\ Entries(p)[i].found = RequiredCurve(Entries(p)[i].key_type)
      BY <1>1, <3>1, FortanixDsmFits
    <3>3. \A i \in DOMAIN Entries(p) : FortanixDsmAccepts(Entries(p)[i])
      BY <3>2 DEF FortanixDsmAccepts
    <3> QED BY <3>2, <3>3 DEF ProviderAccepts
  <2> QED BY <2>1, <2>2, <2>3
<1>8. \A i \in DOMAIN Entries(p) : Entries(p)[i].key \in Keys
  <2>1. p[s] \in Seq(Entry)
    BY <1>5 DEF ProviderConfig
  <2>2. \A i \in DOMAIN Entries(p) : Entries(p)[i] \in Entry
    BY <1>6, <2>1
  <2> QED BY <2>2 DEF Entry
<1>9. cf \in Configs
  BY DEF cf, networks, features
<1>10. /\ Loadable(cf)
       /\ \A v \in DOMAIN cf.validator :
            \E k \in Keys : ConsensusKeys(cf, cf.validator[v].chain_id) = {k}
  <2>1. /\ Fits(Entries(cf.providers), networks)
        /\ \A i \in DOMAIN Entries(cf.providers) : ProviderAccepts(cf.providers, i)
        /\ \A i \in DOMAIN Entries(cf.providers) : Entries(cf.providers)[i].key \in Keys
    BY <1>3, <1>7, <1>8
  <2>2. \A v \in DOMAIN cf.validator : \E m \in DOMAIN networks :
          cf.validator[v].chain_id = networks[m]
    BY <1>3
  <2>3. cf.chain = networks /\ cf.tx_signer = 0 /\ networks \in Seq(Chains)
        /\ \A i, j \in DOMAIN networks : networks[i] = networks[j] => i = j
    BY <1>1, <1>3
  <2> QED BY <1>9, <2>1, <2>2, <2>3, FittingServes
<1> QED BY <1>10 DEF cf, networks, features

(* Once its keys are in place, no step of `tmkms start` refuses what        *)
(* `tmkms init` generated, and every validator it lists can be signed for,  *)
(* for any number of networks and each of the three providers.              *)
THEOREM GeneratedServes == Spec => GeneratedConfigServes
<1>1. StartInv /\ [Next]_vars
      => [Unfailing /\ config \in SupportedConfigs
          => pc' # "exited" /\ (pc' = "join" => \A i \in Clients : CanSign(i))]_vars
  <2> SUFFICES ASSUME StartInv, Unfailing, config \in SupportedConfigs
               PROVE  pc' # "exited" /\ (pc' = "join" => \A i \in Clients : CanSign(i))
    OBVIOUS
  <2>1. PICK n \in Invocations : Supported(n[1], n[2]) /\ config = generate(n[1], n[2])
    BY DEF SupportedConfigs
  <2>2. config \in Configs
    BY DEF StartInv, StartTypeOK
  <2>3. /\ Loadable(config)
        /\ \A i \in Clients : \E k \in Keys : ConsensusKeys(config, ChainOf(i)) = {k}
    BY <2>1, <2>2, GeneratedIsLoadable DEF Clients, ChainOf
  <2> QED BY <2>3, UnfailingStep
<1> QED BY <1>1, StartInvariance, PTL DEF Spec, GeneratedConfigServes
=============================================================================
