----------------------------- MODULE MCStartup -----------------------------
(* Instances of Startup and InitConfig for TLC. *)
EXTENDS InitConfig

CONSTANTS c0, c1, c2, c3, k1, k2   \* chain IDs and public keys

E(p, t, k, ids, f) ==
    [provider |-> p, key_type |-> t, key |-> k, chain_ids |-> ids, found |-> f]

V(c, r) == [chain_id |-> c, reconnect |-> r]

Provided(soft, yubi, sections, ledger, dsm) ==
    [softsign |-> soft, yubihsm |-> yubi, yubihsm_sections |-> sections,
     ledgertm |-> ledger, fortanixdsm |-> dsm]

AllSoftsign ==
    {<<>>, <<E("SoftSign", "Consensus", k1, <<c1>>, "Json")>>,
     <<E("SoftSign", "Account", k1, <<c1>>, "Base64"),
       E("SoftSign", "Consensus", k1, <<c1, c2>>, "Base64")>>,
     <<E("SoftSign", "Account", k2, <<c1>>, "Json")>>,
     <<E("SoftSign", "Consensus", k1, <<c1>>, "Json"),
       E("SoftSign", "Consensus", k2, <<c2>>, "Json")>>}

AllYubihsm == {<<>>, <<E("Yubihsm", "Consensus", k1, <<c2>>, "Ed25519")>>,
               <<E("Yubihsm", "Consensus", k2, <<c1, c1>>, "Ed25519")>>,
               <<E("Yubihsm", "Account", k1, <<c1>>, "SecP256K1"),
                 E("Yubihsm", "Consensus", k2, <<c1>>, "Ed25519")>>,
               <<E("Yubihsm", "Consensus", k2, <<c1>>, "SecP256K1")>>}

AllLedger == {<<>>, <<E("LedgerTm", "Consensus", k2, <<c2>>, "Ed25519")>>}

AllFortanix == {<<>>, <<E("FortanixDsm", "Consensus", k2, <<c1>>, "Ed25519")>>}

AllProviders ==
    {Provided(s, y, IF y = <<>> THEN 0 ELSE 1, l, f) :
        s \in AllSoftsign, y \in AllYubihsm, l \in AllLedger, f \in AllFortanix}
    \cup {Provided(<<>>, <<E("Yubihsm", "Consensus", k1, <<c1>>, "Ed25519")>>, 2, <<>>, <<>>),
          Provided(<<>>, <<>>, 0, <<E("LedgerTm", "Consensus", k1, <<c1>>, "Ed25519"),
                                    E("LedgerTm", "Consensus", k1, <<c2>>, "Ed25519")>>, <<>>),
          Provided(<<>>, <<>>, 0, <<>>,
                   <<E("FortanixDsm", "Account", k1, <<c1>>, "NistP256")>>)}

Config(c, p, v, t) == [chain |-> c, providers |-> p, validator |-> v, tx_signer |-> t]

LoadConfigs ==
    {Config(c, p, v, 0) : c \in {<<c1>>, <<c1, c2>>, <<c1, c1>>}, p \in AllProviders,
                          v \in {<<>>, <<V(c1, TRUE), V(c2, FALSE)>>}}

OneKey == Provided(<<E("SoftSign", "Consensus", k1, <<c1>>, "Json")>>, <<>>, 0, <<>>, <<>>)

ExitConfigs ==
    {Config(<<c1>>, OneKey, v, t) :
        v \in {<<>>, <<V(c1, TRUE), V(c1, FALSE)>>, <<V(c1, FALSE), V(c1, FALSE)>>,
               <<V(c1, FALSE), V(c2, FALSE)>>},
        t \in 0..2}

Options == {{}, {"tx-signer"}}

(* One network with each provider, several with those that allow it, and    *)
(* invocations that the templates do not fit.                               *)
InitCommands ==
    {<<<<c1>>, {p} \cup o>> : p \in {"softsign", "yubihsm", "fortanixdsm"}, o \in Options}
    \cup {<<n, {p} \cup o>> : n \in {<<c1, c2>>, <<c3, c1, c2>>},
                               p \in {"yubihsm", "fortanixdsm"}, o \in Options}
    \cup {<<<<c1, c2>>, {"softsign"}>>, <<<<c1, c1>>, {"yubihsm"}>>, <<<<c1>>, {"ledger"}>>,
          <<<<c1>>, {"softsign", "yubihsm"}>>}

AllKeys == {k1, k2} \cup UNION {{Entries(c.providers)[i].key : i \in DOMAIN Entries(c.providers)} :
                                c \in Generated}

AllConfigs == LoadConfigs \cup ExitConfigs \cup Generated
=============================================================================
