# A TLA+ model of tmkms

tmkms signs consensus messages for Tendermint validators. Its first promise is
that it never signs two different blocks for the same height, round and step,
however many validators connect, however requests interleave, and wherever the
process stops. Around that promise stand the keys: which key signs for which
chain, how a hardware device signs for several threads, how keys get into a
YubiHSM and into backups. Optionally tmkms also signs account transactions with
a sequence number it keeps in a file. This directory models the code behind all
of these, model-checks it on small instances with TLC and proves the safety
results with TLAPS for all instances.

## The system

Paths are relative to `src/src/`.

| Part | State | Operations | Interacts with |
|---|---|---|---|
| `chain::State` (`chain/state.rs`) | last consensus state in memory, state file | `load_state`, `update_consensus_state`, `update_from_hook_output`, `sync_to_disk` | every session of the chain, through a mutex |
| sessions (`session.rs`) | connection, request in hand | `open`, `handle_request`, `sign`, `check_max_height`, `get_public_key` | validator, registry, chain state, keyring |
| clients (`client.rs`) | one thread per `[[validator]]` | `run_client`, `main_loop` (respawn or return) | main thread (join) |
| messages (`amino_types/`, `rpc.rs`) | none | `validate_basic`, `consensus_state`, `sign_bytes`, `read`, `encode` | sessions |
| process (`commands/start.rs`, `chain.rs`) | client handles | `load_config`, `from_config`, `spawn_clients`, `run_app`, `blocking_wait` | all |
| state hook (`chain/state/hook.rs`) | child process | `run` | `from_config` |
| registry, keyring, providers (`chain/registry.rs`, `keyring/`) | chains, keys | registration, loading keys, choosing the key | start, sessions |
| Ledger signer (`keyring/providers/ledgertm/`) | connection behind a mutex | `try_sign`, in packets | client threads, device |
| YubiHSM (`yubihsm.rs`, `commands/yubihsm/`) | devices, backup files, connector server | `setup`, `keys generate`, `export`, `import`, `init_connector` | operator, KMS |
| `tmkms init` (`commands/init/`) | generated configuration | `ConfigBuilder::generate` | start |
| transaction signer (`tx_signer/`) | sequence number and file, last transaction | polling, signing, broadcast, retry | RPC node, transaction source |

What makes it hard: sessions share the chain state but sign after releasing its
lock; memory is replaced before the file; writing the file can fail; responses
get lost and requests are repeated through other connections; the process can
stop anywhere. Loading replaces a key before it finds that it was there. Clients
serve while the main thread still spawns others. A device keeps the half of a
message when its transport fails. A hook command ends in the moment it is given
up. `PROJECT.json` lists these hazards line by line.

## Modules

| Module | Models |
|---|---|
| `ConsensusState` | `consensus::State`, the regression and double-sign checks of `update_consensus_state`, `update_from_hook_output`, and the order `Follows` they are meant to keep |
| `SignRequest` | requests on the wire, `validate`, the state a request is tracked as, the content that is signed (`sign_bytes`) |
| `DoubleSignGuard` | the abstract promise: a watermark that only advances, and signatures that never lie beyond it and never conflict |
| `Signer` | client threads, sessions, the mutex, memory, the state file, start, crash and exit of one chain |
| `StateHook` | the hook command run by `Chain::from_config`, its time limit, kill and wait; extends `ConsensusState` |
| `KeyRing` | configuration of keys, what each provider insists on, adding keys and choosing one |
| `Startup` | registry and keyrings filled from a configuration, spawning and joining clients, the exit status; extends `KeyRing` |
| `InitConfig` | the configuration `tmkms init` generates, started by `Startup`; extends it |
| `SigningDevice` | the abstract signer: each caller gets an error or a signature over exactly its bytes |
| `LedgerTm` | the Ledger exchange, in numbered packets behind a mutex |
| `Yubihsm` | `tmkms yubihsm setup`, `keys generate`, `keys export`, `keys import` on several devices and files |
| `YubihsmConnector` | how the KMS and `tmkms yubihsm` commands share one device |
| `RpcNode` | external: the Tendermint node and the account as the transaction signer sees them |
| `TxSigner` | the transaction signer with its sequence file; extends `RpcNode` |
| `MC*`, `*.cfg` | instances for TLC |
| `SignerProofs`, `StateHookProofs`, `StartupProofs`, `InitConfigProofs`, `LedgerTmProofs`, `YubihsmProofs`, `ConnectorProofs`, `TxSignerProofs` | theorems and proofs, each extending the module it is about |

Operators named `Mut...` are plausible bugs of the definition that follows
them. They are not part of the specification; each is put in place of its
definition to confirm that a property notices.

### `Signer`

* `pc[s]` is where the client thread of session `s` is: `connecting`
  (`Session::open`), `idle` (waiting in `Request::read`), `lock` (the request
  passed `validate` and `check_max_height` and waits for `chain.state`), `sync`
  (it holds the lock, memory is replaced), `sign` (lock released, state
  written), `respond`, `sleeping` (respawn delay), `exited`, or `down`.
* `req[s]`, `resp[s]` are the request and the encoded response in hand.
* `mem` is `State::consensus_state` (`None` while the process is down), `lock`
  the holder of the mutex, `disk` the state file, `signed` all messages the key
  has signed.
* `Start`/`AbortStart` are `spawn_clients` with `Chain::from_config`; `Crash`
  may happen between any two steps and keeps only `disk` (and `signed`, which
  the world has seen); `Exit` is the end of `blocking_wait`.
* `Accept`, `Refuse`, `Regress` are the three outcomes of the check under the
  lock, `SyncOk` and `SyncFails` those of `sync_to_disk`. `NamedTempFile` and
  rename make the file change atomically, so every failure leaves the old file.
* `Sign`, `SignFails`, `Respond`, `WriteFails` follow without the lock.
  An error anywhere is `Fail`: `main_loop` respawns the session or returns.

A start whose initial file cannot be written changes nothing and is not an
action. The `PoisonError` branch of `main_loop` is absent: nothing under the
lock can panic, since a state path without parent directory already fails in
`load_state`. `HookOutputs` admits heights although `hook::run` never returns
one as written (see `statehook_height`), so that what is shown of the state
does not rest on that.

A block ID on the wire keeps the cases the code distinguishes: absent, empty
hash, hash of the wrong size, and a parts header that parses, does not parse,
has a hash of the wrong size or a negative total. Timestamps and POL rounds
are left out: tmkms signs a message for the recorded state again whatever they
are, and neither counts as a second vote for a different block. A vote ID with
a hash but without a usable parts header validates, is signed with its hash,
and is tracked as `<nil>`; `NoDoubleSign` is therefore stated for IDs that
tracking sees in full (`FullyTracked`). Validators send complete IDs or none.
Parsing cuts the total of a parts header from i64 to u32; IDs whose totals
differ by a multiple of 2^32 are one ID in the model, and a total of such a
size is not one a block has.

### `StateHook`

`pc` follows `from_config` through `hook::run`: `spawn`, `waiting` (in
`wait_timeout`), `kill`, `reap`, then `started` or `aborted`. `child` runs
beside it: `ChildEnds` may happen at any moment, or never; `Tick` is a second
that passes while the KMS waits. `Kill` leaves a child that ended since the
timeout as it is. `WaitFails`, `KillFails` and `ReapFails` are failures of the
three calls on the child (`failed`): `run` returns the error at once and leaves
the child as it is, running or a zombie. `Return` is what `from_config` makes of the
result, `fail_closed` included. `StdoutPiped` is FALSE because `run` spawns the
command with its stdout inherited.

### `KeyRing`, `Startup` and `InitConfig`

* A `config` is the chains, the keys of the four providers with what holds them
  (the format of a file, the curve of an object), the validators and the number
  of transaction signers.
* The main thread registers the chains (`chain_at`), loads the keys in the
  order of `keyring::load_config` (`entry_at`) and adds each to its chains
  (`id_at`), spawns the clients one by one (`client_at`), and then joins them in
  order or runs the transaction signer. Each of these steps may fail; `ProcessExit`
  ends the process and the threads it has, with status 1 or, after a panic
  (`PanicsOnLoad`, several transaction signers), 101.
* `AddKey` replaces the key in the keyring first and complains afterwards, as
  `add_ed25519` does; a duplicate chain replaces the registered one likewise.
* Clients use their keyring from the moment they are spawned: `GetPublicKey`,
  `Sign`, and `SessionFails` with or without `reconnect`. What a session does
  in between is `Signer`.
* `InitConfig` computes the configuration of `tmkms init` for networks and built-in
  features; `Startup` then starts with it.

### `LedgerTm`

`pc[s]`, `message[s]`, `answer[s]` are a thread's call of `try_sign`; `lock` is the
mutex around the connection; `packets[s]` counts the packets sent. `Exchange` is one packet
with its number and count as `u8` (`PacketModulus`); its return code is not
looked at, as in the code. `ExchangeFails` is a transport error with the
packet taken or not. The device (`buffer`, `refusing`) is external: packet 1
begins a message, every other is appended, and it signs when number and count
agree, unless it has refused a packet since packet 1.

### `Yubihsm` and `YubihsmConnector`

* `device[d]` holds the password of authentication key 1, the roles, the
  temporary setup key, the wrap key and the objects of a device, `files` the
  backups; `known` are the phrases an operator has seen, `sealed` the keys
  generated with `--non-exportable`. `job` and `at` are the command that runs
  and where it is; one runs at a time. `NotOpened`, `SetupFails`, `Abort`,
  `ProvisioningFails`, `KeyFails`, `BackupFails` and `Killed` end it at each of
  its steps with the exit status the code gives.
* A derived secret is the pair of path and phrase. What a device does (access by
  role, refusing an ID in use, wrapping) is external.
* `erase_device_and_init_with_profile` is a function of the `yubihsm` crate. It
  is modelled one device command at a time, in the order in which
  `README.yubihsm.md:303` shows its log: reset, temporary key, deletion of the
  default key, the four roles, the wrap key, deletion of the temporary key. It
  may fail or be killed after each. A device left between the deletion of the
  default key and the admin role opens to nobody: a session with it fails, and
  only a physical reset, which is not modelled, brings it back.
  `KeysWithinReach` shows that such a device is empty.
* `YubihsmConnector` has the KMS and commands as processes that launch, run
  `init_connector` (with the `cli` override), open a client, and end at any
  moment; `usb` is the process that has claimed the device, `server[p]` the
  thread of `run_connnector_server`. `StartFails` is a `Server::new` that fails:
  `expect` ends the thread, and nothing starts another one while the process
  runs. It may happen at every start of a server, since a port can be taken by
  programs other than tmkms; `AddressLeftToKms` says that tmkms commands are
  not among the causes.

### `TxSigner`

* `pc` follows `run`: `sync` (first `status`), `wait`
  (`wait_until_block_height`), `request` (`source.request`), `attempt`
  (`sign_tx`), `await` (`broadcast_tx_commit`), or `down`.
* `sequence` and `file` are the two copies of the sequence number, `last_tx`
  the kind of `LastTx`, `next_block` the target height, `tx` the attempt in
  hand with its number and `retry_on_failure`.
* `polls`, `polled_at` and `doubts` are history: `doubts` holds the polls with
  an attempt that got no answer, was cut off by a crash, or could not be synced.
* `Poll` is the return of `wait_until_block_height`; the sleep until `min_secs`
  lies between it and the next step, while blocks go on. Failed `status` calls
  change nothing and are not actions.
* `SendTx` puts the transaction on its way. The node gives it a result
  (`Process`) or loses it (`Lose`) at any later time; `RpcFails` may come before
  either. `CheckTxFailed`, `Persisted` and `PersistFails` are the outcomes of
  an answer, `AfterFailure` the speculative retry.
* In `RpcNode` a transaction passes CheckTx only with the account's sequence
  number, and uses it up even if DeliverTx fails. Others may use the account,
  and the node may fall back to an older block.

## Runs

| Run | Instance | Shows |
|---|---|---|
| `signer_rounds` | two sessions, all steps of a round and the prevotes of the next, two blocks and `<nil>` | `NoDoubleSign`, `SignedIsDurable`, `ClaimsCovered`, `MutexCoversSync`, `LockAlwaysReleased`, and refinement of `DoubleSignGuard` (`GuardSpec`) |
| `signer_requests` | one legacy session that does not reconnect; 2 heights, 3 rounds with `RoundModulus = 2`, incomplete IDs, invalid requests, `max_height`, hook heights behind, ahead and beyond a sanity limit of 2 | `NoDoubleSign`, `MemoryAheadOfFile`, `StopsAtMaxHeight`, `RefusalIsReported`, `FileNeverRegresses` |
| `signer_refusal` | one protobuf session | violation of `RefusalIsReported` |
| `statehook_timeout` | no timeout given, 0, 1 and 6 seconds; commands that end early, late or never; both settings of `fail_closed` | `ChildReaped`, `FailsClosed`, `HookDecides` |
| `statehook_height` | the same | violation of `HookPopulatesHeight` |
| `startup` | some 600 configurations: chains given twice, keys given twice or for unknown chains, several keys of a chain, wrong formats and curves, 0 to 2 transaction signers, clients with and without reconnect, and those of `tmkms init` for 1 to 3 networks | `ServesConfiguredKeys`, `OnlyKeySigns`, `ExitReportsFailures`, `EndsWhenClientsEnd`, `ServesToTheLast`, `LoadableServes` (start-up goes through for exactly the configurations without mistakes), `GeneratedConfigServes` |
| `ledger` | two threads, messages of 0 to 5 packets with a packet number of 2 bits | `SignatureCoversMessage`, `LedgerInv`, refinement of `SigningDevice` (`ImplementsDevice`), `DeviceFreed` |
| `yubihsm_keys` | two devices, two phrases, two keys, one ID, two files and one made by another tool | `ReportedBackupIsComplete`, `ReportedSetupIsComplete`, `KeysWithinReach`, `NonExportableStays`, `KeysLostOnlyByApproval` |
| `connector_share` | the KMS and two commands, every configuration | `KmsKeepsUsb`, `AddressLeftToKms` |
| `txsigner_sequence` | 2 polls of up to 3 attempts, account up to 2 ahead, authorized, partly authorized, foreign and malformed requests | `TxInv`, `SequenceNeverAhead`, `AcceptedIsCounted`, `ExecutedOnce`, `RetriesBounded`, `SequenceFileMonotone` |
| `txsigner_wait` | interval 3, 9 blocks, 4 polls, 2 fallbacks of the node, a source without transactions | `PolledOncePerInterval`, `WaitEnds` |
| `txsigner_retry` | 2 polls | violation of `RetriesUntilSuccess` |

### Bounds

`Signer` has no counters: crashes, reconnects, failed syncs and repeated requests
are unbounded, and the state space is finite because requests are. Two
sessions suffice for every race on one mutex between a session that waits,
one that writes and one that signs late; two blocks and `<nil>` for every
conflict; a modulus of 2 with three rounds for the wrap of a u16 round. Crash
and restart keep the process going, so no run of it stops.

`StateHook` counts seconds up to the time limit. `Startup` and
`YubihsmConnector` are finite once the configurations are; two clients give both
orders of ending and joining, two commands let one find what the other left
behind. `LedgerTm` has messages of no packet, of the most packets that have a
number, and of one and two more, where numbers would wrap; two threads
interleave packets. `Yubihsm` is bounded by `Mnemonics` (phrases drawn) and `Keys` (key
material drawn): a backup made on one device is imported on another that was
set up with the same or with the other phrase, before and after a reset. That run
uses the symmetry of devices and of phrases; its properties are invariants and
one action property.

`TxSigner` is bounded by `MaxPolls`, `MaxBlock`, `MaxFallbacks` and
`MaxAccount`. Two polls let a late transaction of one meet the attempts of the
next; an account up to two ahead (and others using it) makes each of the three
attempts the one that is accepted; 9 blocks at an interval of 3 hold several
targets, passed and met.

### Disagreements between the code and what is said of it

Three are runs that end in a violation:

* `signer_refusal`: `session.rs:206` "Report double signing error back to the
  validator". The protobuf branch of `Response::encode` sets `error: None`, so the
  refusal is an empty response; the legacy encoding does carry the error
  (`signer_requests`).
* `statehook_height`: `config/chain.rs:24` "This will be executed at launch
  time to populate the initial block height". The child's stdout is not piped,
  so a command that prints a height and succeeds is an error for `run`; with
  `fail_closed` the KMS never starts.
* `txsigner_retry`: `tx_signer.rs:240` "If no transaction broadcasted
  successfully before, retry with a higher sequence number". A refusal by CheckTx is
  stored as a `Response`, which ends the retries although nothing was ever accepted.

The others were met while translating the code. The models do what the code does:

* `chain/state.rs:100` "disallow voting for two different block IDs during
  different steps". Only the last state is compared: proposal for A, prevote
  for `<nil>`, precommit for B are all accepted in one round.
* `config/chain/hook.rs:11` gives the hook's timeout as "default 5";
  `DEFAULT_TIMEOUT_SECS` is 1 (`chain/state/hook.rs:14`).
* `README.txsigner.md:293`: the source is called "when the block height is
  evenly divisible by this value". The wait ends at any height at or past the
  target.
* `tmkms init` for several networks with softsign writes one consensus key per
  network; `softsign.rs:50` allows one. Its Ledger section names `cosmoshub-1`
  whatever the networks are. Neither configuration starts. `startup` starts
  them too, but `GeneratedConfigServes` promises nothing of them: `Supported` is one
  provider, networks that differ, one network with softsign, no Ledger.
* `keys generate -t account` (`README.txsigner.md:165`) gives the key the capability
  SIGN_EDDSA only (`commands/yubihsm/keys.rs:19`), which an account key does not sign with.
* `commands/yubihsm/setup.rs:401` "no roles except administrators will be given
  the capability to export other objects"; the operator role has
  EXPORT_WRAPPED (`setup.rs:279`).
* `config/provider/yubihsm.rs:149` describes an `auth_key` for the command line;
  `setup` opens its session with the configured credentials instead
  (`setup.rs:227`).

### Fairness

* `Signer`: only `SyncToDisk` is weakly fair. A thread inside `sync_to_disk` is
  scheduled and its file operations return. Nothing is assumed of the network,
  the validator, the signing device or of the order in which waiting threads
  get the mutex (`std::sync::Mutex` is not fair), so that a waiting session may
  be overtaken forever is neither excluded nor claimed.
* `StateHook`: the KMS's own steps (`KmsSteps`) and the passing of time. The
  command need never end, and no call on it need ever fail: the launch is not
  rescued by an error.
* `Startup`: the main thread (`Main`), which waits for nothing but the thread it
  joins. Clients need never end, and the transaction signer need not either.
* `LedgerTm` (`FairSpec`): a thread's steps inside `try_sign`. The device
  answers or its transport fails; taking the mutex is weakly fair only, so one
  thread may overtake another forever.
* `Yubihsm` and `YubihsmConnector` assume none: processes may start, end or do
  nothing as they like.
* `TxSigner` (`LiveSpec`, used for `WaitEnds`): the chain keeps producing
  blocks up to `MaxBlock`, and a waiting signer's status request is answered
  again and again: `wait_until_block_height` polls every 500 ms, and after an
  error `run` calls it again. Nothing is assumed of broadcasts or of the source.

## Proofs

All theorems hold for every value of the constants that satisfies the named
assumptions: configuration values have their types, `None` is none of the
values it is a missing value of, `Keys` is finite, `RoundModulus` is positive and
`PacketModulus` more than one, the block interval is not zero (the code panics on
zero), `Invocations` are any sequences of networks with any features, and
`Processes`, `Devices`, `Sessions` and `Callers` are any sets. Each module has
one main inductive invariant, from which most theorems follow. The runs check
`TxInv` and `LedgerInv` themselves; of the others they check the properties the
invariant was made for. Where one needs a further
invariant (`HolderSyncs`, `HolderSends`, `JoinedEnded`,
`LoadInv`, `TargetKept`, `RetryWindow`), it is named below.

* `SignerProofs`: any sessions, requests, configuration and hook results.
  `NoDoubleSign` is not inductive: a session signs after it let go of the
  lock. `IInv` therefore speaks of *claims*, the states of everything signed and
  of every request past its sync. Each claim is covered by the file
  (`ClaimsDurable`), claims are pairwise equal or ordered (`ClaimsOrdered`), memory
  is at or after the file (`MemoryAheadOfFile`), and the session in `sync` holds
  the lock with its own state in memory (`MutexCoversSync`). The only step that
  adds a claim is `SyncOk`; the new claim follows memory's predecessor
  (`AcceptedFollows`), which follows the file, which follows every old claim
  (`FollowsTransitive`). From it: `NeverDoubleSigns`, `SignaturesDurable`,
  `ClaimsNeverConflict` (the claims of sessions that have let go of the lock
  included, however they overtake each other), `FileMonotonic`,
  `MaxHeightStops`, `LockHeldForSync`, `MemoryNeverBehind`;
  `LegacyRefusalsReported` if no validator speaks protobuf; and `ImplementsGuard`: `Spec`
  implements `DoubleSignGuard` with the state file as watermark.
  `AcceptedExactly` says in terms of the order which states
  `update_consensus_state` accepts, in both directions: it is as strict as it
  must be, and stricter only about a second block in a round already begun.
  `ConflictingRequestsRefused` is the promise as a validator meets it: in every
  reachable state of a running process, a request that contradicts a signature is
  not accepted, since memory is at or after the file and the file at or after
  the signature. `MemoryMonotonic` is `FileMonotonic` for memory while the
  process runs. `LockHeldOnlyToSync` and `LockProtects` are the safety half of
  `LockAlwaysReleased`: whoever holds the lock is in `sync_to_disk`, nobody else
  touches what the lock guards, and the holder's own next step releases it.
* `StateHookProofs`: any time limits, outputs and file heights. `HookInv` adds
  to `ChildReaped` and `FailsClosed` where the child can be at each step. The proof
  does not look into `StdoutPiped`, so `NoChildLeft` and `NeverFailsOpen` also
  hold of a hook whose output is read. `NoChildLeft` excepts one case, a
  `wait_timeout`, `kill` or `wait` that fails, after which the code does leave
  the child. `LaunchBounded` is the safety half of
  `HookDecides`: `StepsLeft` starts at no more than the time limit and four, and every
  step of the launch and every second waited lowers it.
* `StartupProofs`: any configurations. `ServesConfiguredKeys` speaks of the
  finished registry. `StartInv` says the same of every prefix: the registry
  holds the chains before `chain_at` (`RegisteredSoFar`), the keyrings what the
  entries before `entry_at` and the chain IDs before `id_at` list, each key from one
  entry (`AddedSoFar`), and nothing is served before all is loaded. A step that
  replaces a chain or a key leaves the invariant's prefix, but it ends the
  process in the same step. From it: `ServesWhatIsConfigured`, `OneKeyPerChain`,
  `FailuresReported` (success survives only until the first join), and
  `SignsForListedChains`, the promise of `chain_ids` in the configuration.
  `AllClientsServedToTheLast` (with `JoinedEnded`: a joined client has given up) is
  the safety side of `EndsWhenClientsEnd`: the wait is over only when every
  client has ended, and never while one reconnects.
  The former say what a KMS that serves has loaded; `CorrectConfigServes` says when
  it serves. `Loadable` describes a configuration without mistakes, without
  reference to the order of loading: chains listed once, every key accepted by
  its provider and given once per chain, only listed chains named, at most one
  transaction signer. Unless a file, device or thread fails, start-up never turns
  such a configuration away, lets no other past `run_app`, and a client can then
  sign exactly if its chain has one consensus key. The argument is `LoadInv`:
  whatever has been gone through so far was without mistakes (`AcceptedSoFar`); each step
  that accepts extends that prefix, and each that refuses points at a conjunct
  of `Loadable` that is false.
* `InitConfigProofs`: any networks and any supported invocation.
  `GeneratedIsLoadable` shows for each provider's template that what `generate`
  writes is `Loadable` with one consensus key per chain, the index arithmetic of
  the YubiHSM and Fortanix keys included (`YubihsmFits`, `FortanixDsmFits`);
  `GeneratedServes` then follows from `CorrectConfigServes`.
* `LedgerTmProofs`: any threads, messages and width of the packet number.
  `LedgerInv`: the thread that sends holds the mutex, the device holds exactly the packets
  it has sent, and a signature came only with the last of them. The size check
  makes the packet numbers injective, which is where the width matters. From
  it: `SignaturesWhole` and `ImplementsSigner`, the refinement of `SigningDevice`.
  `MutexHeldOnlyToSend` and `HolderLetsGo` are the safety half
  of `DeviceFreed`: only a thread in the exchange loop holds the mutex, it has the
  device to itself, and each of its steps sends one packet more, up to the
  last, or releases it.
* `YubihsmProofs`: any devices, phrases, IDs, keys and files. `YubihsmInv` adds
  to the properties what a command has established by each of its steps
  (`Progress`), that wrap keys in devices come from phrases that were shown
  (`WrapKeysShown`), and that a sealed key is neither exportable nor in a file
  (`SealedKept`). `Progress` also follows provisioning: nothing is on the device
  while it opens to nobody, and by the time the report is written it is the
  `ProvisionedDevice` of the phrase. From it: `KeysNeverLockedIn`, `SetupsWhole`,
  `SealedNeverLeaves`, `BackupsWhole`, `LostOnlyByApproval`.
* `ConnectorProofs`: any number of commands. `ConnectorInv`: with a `cli` section
  commands get neither an adapter nor a server of their own, and whoever holds
  the device claimed it over USB. From it: `CommandsLeaveUsb`, and
  `AddressNeverTaken`: while the KMS's server is being started again, no other
  process listens on its address.
* `TxSignerProofs`: every interval, ACL, source, node behaviour and bound.
  `SequenceNeverAhead` needs that file, memory and attempt are in order and
  that accepted transactions lie below the account's number.
  `AcceptedIsCounted` and `ExecutedOnce` need to know which transaction an
  answer belongs to: attempts of a poll have rising numbers
  (`AttemptsOrdered`), a transaction has one result (`ResultsUnique`), what is on
  its way outside doubt is the attempt being awaited (`InFlight`), and no
  attempt follows an executed one outside doubt (`Settled`). `TxInv` is all of
  these. From it: `NeverAhead`, `SequenceFileMonotonic`, `AlwaysCounted`,
  `AtMostOnce`. `RetriesAreBounded` needs
  `RetryWindow`: the distance of the current attempt from anything sent for the
  same poll is less than its number of tries. `OncePerInterval` needs `TargetKept`,
  that the target is the one after some height between the last poll and now,
  and what division by an arbitrary interval preserves (`DivMonotone`,
  `NextBlockIsLater`).

Only model-checked: the liveness properties (`LockAlwaysReleased`,
`HookDecides`, `EndsWhenClientsEnd`, `DeviceFreed`, `WaitEnds`), since liveness under fairness is out of the prover's reach. For
four of them the proofs above leave only the fairness to assume. Every
safety property of a passing run is stated by a theorem (`RefusalIsReported`
for the legacy encoding, the one that run is about).

## Not modelled

* Power loss: `sync_to_disk` does not fsync, so the file may be older than the
  last signature after one. The model's crash is the end of the process.
* Several tmkms processes on one key (the repository's README excludes it too),
  and two `[[chain]]` sections that share a state file.
* Byte formats: amino and protobuf encoding, Base64 and Bech32, the bytes of a
  derivation path, APDUs; the secret connection handshake, TLS, HTTP; logging.
  They are data or libraries, and no property here tells their values apart.
* `tmkms softsign keygen` and `import` write one key file with the function that
  `Yubihsm` models step by step. `tmkms ledger init` signs one message chosen by
  the operator, outside the double-sign state, to set the height in the
  device, which is external.
* `tmkms yubihsm detect`, `keys list` and `test` change nothing.
* The directories, permissions and secret connection key that `tmkms init`
  creates, and the text of its templates.
* Which credentials a client of `YubihsmConnector` uses: opening it is one step
  that succeeds or not. In `Yubihsm` neither the report of `setup` (a file and an
  opaque object) nor an object that is not an asymmetric key takes up a place,
  and one command runs at a time. A physical reset of a device is left out.
* What becomes of a KMS whose connector server is gone for good: it signs on, and
  commands with a `cli` section find no device until it restarts.
* A Ledger that signs after it refused a packet of the message; the code does
  not act on the return codes of the packets and relies on the device here.
* Transactions that others sign with the same key and sequence number, and a
  node that forgets an accepted transaction.
* Parsing of the configuration, error types and the command line: code without
  state of its own, generated for the most part by `serde`, `abscissa` and `clap`.
