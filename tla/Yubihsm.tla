------------------------------ MODULE Yubihsm ------------------------------
(***************************************************************************)
(* The `tmkms yubihsm` commands that change a YubiHSM 2 or the backups     *)
(* taken from it: `setup` (commands/yubihsm/setup.rs), `keys generate`,    *)
(* `keys export` and `keys import` (commands/yubihsm/keys/).  An operator  *)
(* runs one command at a time, on any of several devices, as the role      *)
(* whose credentials the configuration holds.  Every command may fail or   *)
(* be killed between two of its steps.                                     *)
(*                                                                         *)
(* A secret derived from a mnemonic phrase is the pair of the derivation   *)
(* path and the phrase; what a backup file holds is the wrapped object,    *)
(* a private key in the clear, or the empty file that `truncate` leaves.   *)
(***************************************************************************)
EXTENDS Naturals

CONSTANTS
    Devices,        \* YubiHSM 2 devices, by serial number
    Mnemonics,      \* BIP39 phrases; bounds how many `setup` may draw
    Ids,            \* object IDs of asymmetric keys
    Keys,           \* key material; bounds how many keys are drawn
    Paths,          \* files the commands read and write
    Foreign_backup, \* a file in which another tool wrapped some other object
    Validator_json, \* the path of a priv_validator key made elsewhere ...
    Validator_key,  \* ... and the key it holds
    Default,        \* the password of a device in its factory state
    None

ASSUME YubihsmAssumption ==
    /\ Validator_json \in Paths /\ Foreign_backup \notin Paths
    /\ Validator_key \in Keys
    /\ Default \notin Mnemonics \cup {None}
    /\ None \notin Mnemonics \cup Keys \cup Paths \cup {Foreign_backup} \cup Ids

VARIABLES
    device,         \* what each device holds
    files,          \* what each path holds
    known,          \* phrases the operator has seen or entered
    drawn,          \* key material drawn so far
    sealed,         \* keys generated with --non-exportable
    job,            \* the command that runs, or that ran last
    at,             \* where it is
    status          \* its exit status, once it has ended

vars == <<device, files, known, drawn, sealed, job, at, status>>

-----------------------------------------------------------------------------
(* Secrets and roles derived from the phrase (setup.rs).                   *)

Role == {"admin", "operator", "auditor", "validator"}

KeyCapability == {"SIGN_EDDSA", "SIGN_ECDSA", "EXPORTABLE_UNDER_WRAP"}

RoleCapability ==
    {"RESET_DEVICE", "GENERATE_ASYMMETRIC_KEY", "PUT_ASYMMETRIC_KEY",
     "IMPORT_WRAPPED", "EXPORT_WRAPPED", "SIGN_EDDSA", "SIGN_ECDSA"}

\* What the roles of a provisioned device may do.
derive_roles_from_mnemonic ==
    [role \in Role |->
        CASE role = "admin" -> RoleCapability
          [] role = "operator" ->
                {"GENERATE_ASYMMETRIC_KEY", "PUT_ASYMMETRIC_KEY",
                 "IMPORT_WRAPPED", "EXPORT_WRAPPED"}
          [] role = "auditor" -> {}
          [] role = "validator" -> {"SIGN_ECDSA", "SIGN_EDDSA"}]

\* They are installed in the order of their authentication keys, 1 to 4.
RolesBefore ==
    [role \in Role |->
        CASE role = "admin"     -> {}
          [] role = "operator"  -> {"admin"}
          [] role = "auditor"   -> {"admin", "operator"}
          [] role = "validator" -> {"admin", "operator", "auditor"}]

derive_secret_from_mnemonic(mnemonic, path) == <<path, mnemonic>>

derive_wrap_key_from_mnemonic(mnemonic, key_id) ==
    derive_secret_from_mnemonic(mnemonic, <<"wrap", key_id>>)

DEFAULT_WRAP_KEY == 1

NoObjects == [id \in Ids |-> None]

\* The password of authentication key 1, the roles that are installed, and
\* whether there is the temporary key that provisioning works with.
FactoryDevice ==
    [admin |-> Default, roles |-> {}, setup_key |-> FALSE, wrap_key |-> None,
     objects |-> NoObjects]

\* The device `erase_device_and_init_with_profile` leaves when it succeeds:
\* the roles and the wrap key of the phrase, and no asymmetric key.
ProvisionedDevice(mnemonic) ==
    [admin     |-> mnemonic,
     roles     |-> Role,
     setup_key |-> FALSE,
     wrap_key  |-> derive_wrap_key_from_mnemonic(mnemonic, DEFAULT_WRAP_KEY),
     objects   |-> NoObjects]

-----------------------------------------------------------------------------
(* Objects and files.                                                      *)

DEFAULT_CAPABILITIES == {"SIGN_EDDSA"}

MutAlwaysExportable(non_exportable) ==
    DEFAULT_CAPABILITIES \cup {"EXPORTABLE_UNDER_WRAP"}

KeyCapabilities(non_exportable) ==
    DEFAULT_CAPABILITIES
        \cup (IF non_exportable THEN {} ELSE {"EXPORTABLE_UNDER_WRAP"})

\* The algorithm of a key is left out: what tells account from consensus keys
\* is the step that prints the public key.
Object == [key : Keys, capabilities : SUBSET KeyCapability]

Wrapped(wrap_key, id, object) ==
    [format |-> "wrap", wrap_key |-> wrap_key, id |-> id, object |-> object]

PrivValidator(key) == [format |-> "plain", key |-> key]

Absent == [format |-> "absent"]
Truncated == [format |-> "truncated"]

WrapKeys == {derive_wrap_key_from_mnemonic(m, DEFAULT_WRAP_KEY) :
                m \in Mnemonics}

Backup == [format : {"wrap"}, wrap_key : WrapKeys, id : Ids, object : Object]

NoJob == [cmd |-> None, dev |-> None, role |-> None, id |-> None,
          path |-> None, mnemonic |-> None, wrapped_bytes |-> None,
          approved |-> FALSE]

Init ==
    /\ device = [d \in Devices |-> FactoryDevice]
    /\ files = [p \in Paths |->
                    IF p = Validator_json THEN PrivValidator(Validator_key)
                    ELSE Absent]
    /\ known = {}
    /\ drawn = {Validator_key}
    /\ sealed = {}
    /\ job = NoJob
    /\ at = "ended"
    /\ status = None

-----------------------------------------------------------------------------
(* Running a command.                                                      *)

\* client() and get_hsm_client(): a session opens with credentials the
\* operator can write into the configuration.  A device in its factory state
\* has one authentication key, with all capabilities.
MayOpen(d, role) ==
    \/ device[d].admin = Default /\ role = "admin"
    \/ role \in device[d].roles /\ device[d].admin \in known

May(capability) == capability \in derive_roles_from_mnemonic[job.role]

\* A device's reply is bounded by its own state: job.dev is authenticated to
\* for as long as the command runs.
Dev == device[job.dev]

Begin(cmd, d, role, id, path) ==
    /\ at = "ended"
    /\ MayOpen(d, role)
    /\ job' = [NoJob EXCEPT !.cmd = cmd, !.dev = d, !.role = role,
                            !.id = id, !.path = path]
    /\ at' = cmd
    /\ status' = None
    /\ UNCHANGED <<device, files, known, drawn, sealed>>

\* What is left of a command that ended is its exit status and, if it
\* succeeded, what that was for.
Exit(code) ==
    /\ at' = "ended"
    /\ status' = code
    /\ job' = IF code = 0 THEN [job EXCEPT !.role = None, !.wrapped_bytes = None]
              ELSE NoJob

Goto(step) == at' = step /\ UNCHANGED status

\* No session: the credentials are not those of the device, as on one that
\* opens to nobody, or the device is not there.
NotOpened ==
    /\ at = "ended"
    /\ Exit(1)
    /\ UNCHANGED <<device, files, known, drawn, sealed>>

RunSetup(d, role) == Begin("setup", d, role, None, None)

RunGenerate(d, role, id, backup_file) ==
    Begin("generate", d, role, id, backup_file)

RunExport(d, role, id, path) == Begin("export", d, role, id, path)

RunImport(d, role, id, path) == Begin("import", d, role, id, path)

\* The process is killed between two steps.
Killed ==
    /\ at # "ended"
    /\ Exit(137)
    /\ UNCHANGED <<device, files, known, drawn, sealed>>

-----------------------------------------------------------------------------
(* `tmkms yubihsm setup`.                                                  *)

MutShowWhenPrintOnly(mnemonic, print_only) ==
    /\ at = "setup"
    /\ known' = IF print_only THEN known \cup {mnemonic} ELSE known
    /\ IF print_only THEN Exit(0)
       ELSE Goto("approve") /\ job' = [job EXCEPT !.mnemonic = mnemonic]
    /\ UNCHANGED <<device, files, drawn, sealed>>

MutPrintOnlyGoesOn(mnemonic, print_only) ==
    /\ at = "setup"
    /\ known' = known \cup {mnemonic}
    /\ job' = [job EXCEPT !.mnemonic = mnemonic]
    /\ at' = IF print_only THEN "reset" ELSE "approve"
    /\ UNCHANGED <<device, files, drawn, sealed, status>>

\* The device does not answer or the phrase cannot be read: `expect`, or
\* process::exit(1).
SetupFails ==
    /\ at = "setup"
    /\ \E code \in {1, 101} : Exit(code)
    /\ UNCHANGED <<device, files, known, drawn, sealed>>

\* The phrase is read (--restore: one the operator holds) or drawn, all that
\* is derived from it is printed, and --print-only ends here.
ShowSecrets(mnemonic, print_only) ==
    /\ at = "setup"
    /\ known' = known \cup {mnemonic}
    /\ IF print_only THEN Exit(0)
       ELSE Goto("approve") /\ job' = [job EXCEPT !.mnemonic = mnemonic]
    /\ UNCHANGED <<device, files, drawn, sealed>>

\* prompt_for_user_approval: `y` or `Y` goes on, anything else aborts, and no
\* answer panics.
Approve ==
    /\ at = "approve"
    /\ job' = [job EXCEPT !.approved = TRUE]
    /\ Goto("reset")
    /\ UNCHANGED <<device, files, known, drawn, sealed>>

Abort ==
    /\ at = "approve"
    /\ \E code \in {1, 101} : Exit(code)
    /\ UNCHANGED <<device, files, known, drawn, sealed>>

\* erase_device_and_init_with_profile, one command to the device at a time:
\* it is reset with the configured credentials; a temporary authentication
\* key replaces the default one and installs the roles and the wrap key; and
\* the temporary key deletes itself.
Provision(dev, step) ==
    /\ device' = [device EXCEPT ![job.dev] = dev]
    /\ Goto(step)
    /\ UNCHANGED <<files, known, drawn, sealed, job>>

ResetDevice ==
    at = "reset" /\ May("RESET_DEVICE") /\ Provision(FactoryDevice, "setup_key")

InstallSetupKey ==
    at = "setup_key" /\ Provision([Dev EXCEPT !.setup_key = TRUE], "delete_default")

DeleteDefaultKey ==
    at = "delete_default" /\ Provision([Dev EXCEPT !.admin = None], "roles")

InstallRole(role) ==
    /\ at = "roles" /\ Dev.roles = RolesBefore[role]
    /\ Provision([Dev EXCEPT !.admin = job.mnemonic, !.roles = @ \cup {role}],
                 IF role = "validator" THEN "wrap_key" ELSE "roles")

InstallWrapKey ==
    /\ at = "wrap_key"
    /\ Provision([Dev EXCEPT !.wrap_key =
                    derive_wrap_key_from_mnemonic(job.mnemonic, DEFAULT_WRAP_KEY)],
                 "delete_setup_key")

DeleteSetupKey ==
    at = "delete_setup_key" /\ Provision([Dev EXCEPT !.setup_key = FALSE], "report")

Provisioning ==
    {"reset", "setup_key", "delete_default", "roles", "wrap_key",
     "delete_setup_key", "report"}

MutErrorIgnored ==
    /\ at \in Provisioning
    /\ Goto("report")
    /\ UNCHANGED <<device, files, known, drawn, sealed, job>>

\* One of these commands fails, or its answer is lost: hsm_error, with the
\* device as far as it got.
ProvisioningFails ==
    /\ at \in Provisioning
    /\ Exit(1)
    /\ UNCHANGED <<device, files, known, drawn, sealed>>

\* The report is not wanted or is written; or writing it panics, with the
\* device reinitialized already.
WriteReport(code) ==
    /\ at = "report"
    /\ Exit(code)
    /\ UNCHANGED <<device, files, known, drawn, sealed>>

-----------------------------------------------------------------------------
(* `tmkms yubihsm keys generate`, `export` and `import`.                   *)

\* `unwrap_or_else(|e| { status_err!(..); process::exit(1) })`: the device,
\* the file or the input is at fault.  A priv_validator key that is not
\* Ed25519, or an Ed25519 key the device garbles, panics.
KeyFails ==
    /\ at \in {"generate", "public_key", "import"}
    /\ \E code \in {1, 101} : Exit(code)
    /\ UNCHANGED <<device, files, known, drawn, sealed>>

\* create_encrypted_backup: the device does not wrap the key, or the file is
\* not opened or not written.
BackupFails ==
    /\ at \in {"export", "open", "write"}
    /\ Exit(1)
    /\ UNCHANGED <<device, files, known, drawn, sealed>>

PutObject(id, object) ==
    /\ Dev.objects[id] = None
    /\ device' = [device EXCEPT ![job.dev].objects[id] = object]

\* After the key's public key is printed: the backup, when one was asked for.
Backed ==
    IF job.path = None THEN Exit(0) ELSE Goto("export") /\ UNCHANGED job

Generate(key_type, non_exportable, key) ==
    /\ at = "generate"
    /\ May("GENERATE_ASYMMETRIC_KEY")
    /\ key \notin drawn
    /\ PutObject(job.id, [key          |-> key,
                          capabilities |-> KeyCapabilities(non_exportable)])
    /\ drawn' = drawn \cup {key}
    /\ sealed' = IF non_exportable THEN sealed \cup {key} ELSE sealed
    /\ IF key_type = "Account" THEN Backed
       ELSE Goto("public_key") /\ UNCHANGED job
    /\ UNCHANGED <<files, known>>

GetPublicKey ==
    /\ at = "public_key"
    /\ IF job.cmd = "import" THEN Exit(0) ELSE Backed
    /\ UNCHANGED <<device, files, known, drawn, sealed>>

\* export_wrapped: the device wraps an exportable object under its wrap key.
ExportWrapped ==
    /\ at = "export"
    /\ May("EXPORT_WRAPPED")
    /\ Dev.wrap_key # None
    /\ Dev.objects[job.id] # None
    /\ "EXPORTABLE_UNDER_WRAP" \in Dev.objects[job.id].capabilities
    /\ job' = [job EXCEPT !.wrapped_bytes =
                    Wrapped(Dev.wrap_key, job.id, Dev.objects[job.id])]
    /\ Goto("open")
    /\ UNCHANGED <<device, files, known, drawn, sealed>>

\* write_base64_secret: the file is opened and truncated, then written.
OpenTruncate ==
    /\ at = "open"
    /\ files' = [files EXCEPT ![job.path] = Truncated]
    /\ Goto("write")
    /\ UNCHANGED <<device, known, drawn, sealed, job>>

MutWriteUnchecked ==
    /\ at = "write"
    /\ \E bytes \in {job.wrapped_bytes, Truncated} :
            files' = [files EXCEPT ![job.path] = bytes]
    /\ Exit(0)
    /\ UNCHANGED <<device, known, drawn, sealed>>

WriteAll ==
    /\ at = "write"
    /\ files' = [files EXCEPT ![job.path] = job.wrapped_bytes]
    /\ Exit(0)
    /\ UNCHANGED <<device, known, drawn, sealed>>

\* import_wrapped: the object keeps its ID, whatever --id says.
ImportWrapped ==
    /\ at = "import" /\ job.path \in Paths
    /\ LET wrapped == files[job.path] IN
        /\ wrapped.format = "wrap"
        /\ May("IMPORT_WRAPPED")
        /\ Dev.wrap_key = wrapped.wrap_key
        /\ PutObject(wrapped.id, wrapped.object)
    /\ Goto("public_key")
    /\ UNCHANGED <<files, known, drawn, sealed, job>>

\* An object that is not an asymmetric key is reported without its public key.
ImportOther ==
    /\ at = "import" /\ job.path = Foreign_backup
    /\ May("IMPORT_WRAPPED")
    /\ Dev.wrap_key # None
    /\ Exit(0)
    /\ UNCHANGED <<device, files, known, drawn, sealed>>

\* import_priv_validator_json and import_base64.
ImportPlain ==
    /\ at = "import" /\ job.path \in Paths
    /\ files[job.path].format = "plain"
    /\ May("PUT_ASYMMETRIC_KEY")
    /\ PutObject(job.id, [key          |-> files[job.path].key,
                          capabilities |-> KeyCapabilities(FALSE)])
    /\ Exit(0)
    /\ UNCHANGED <<files, known, drawn, sealed>>

Next ==
    \/ \E d \in Devices, role \in Role :
        \/ RunSetup(d, role)
        \/ \E id \in Ids :
            \/ \E path \in Paths \cup {None} : RunGenerate(d, role, id, path)
            \/ \E path \in Paths : RunExport(d, role, id, path)
            \/ \E path \in Paths \cup {Foreign_backup} : RunImport(d, role, id, path)
    \/ NotOpened
    \/ \E m \in Mnemonics, print_only \in BOOLEAN : ShowSecrets(m, print_only)
    \/ Approve
    \/ Abort
    \/ ResetDevice \/ InstallSetupKey \/ DeleteDefaultKey
    \/ \E role \in Role : InstallRole(role)
    \/ InstallWrapKey \/ DeleteSetupKey
    \/ \E code \in {0, 101} : WriteReport(code)
    \/ \E key_type \in {"Account", "Consensus"}, non_exportable \in BOOLEAN,
          key \in Keys : Generate(key_type, non_exportable, key)
    \/ GetPublicKey
    \/ ExportWrapped
    \/ OpenTruncate
    \/ WriteAll
    \/ ImportWrapped \/ ImportOther \/ ImportPlain
    \/ SetupFails \/ ProvisioningFails \/ KeyFails \/ BackupFails
    \/ Killed

Spec == Init /\ [][Next]_vars

-----------------------------------------------------------------------------
(* What the commands promise.                                              *)

Ats == Provisioning \cup {"setup", "approve", "generate", "public_key",
                          "export", "open", "write", "import", "ended"}

Device == [admin     : Mnemonics \cup {Default, None},
           roles     : SUBSET Role,
           setup_key : BOOLEAN,
           wrap_key  : WrapKeys \cup {None},
           objects   : [Ids -> Object \cup {None}]]

Job == [cmd : {"setup", "generate", "export", "import", None},
        dev : Devices \cup {None}, role : Role \cup {None},
        id : Ids \cup {None}, path : Paths \cup {Foreign_backup, None},
        mnemonic : Mnemonics \cup {None}, wrapped_bytes : Backup \cup {None},
        approved : BOOLEAN]

\* Devices, files and the running command hold what the commands can put
\* there (setup.rs, keys/generate.rs, keys/export.rs, keys/import.rs).
YubihsmTypeOK ==
    /\ device \in [Devices -> Device]
    /\ files \in [Paths -> Backup \cup {Absent, Truncated}
                                  \cup {PrivValidator(k) : k \in Keys}]
    /\ known \subseteq Mnemonics
    /\ sealed \subseteq drawn
    /\ drawn \subseteq Keys
    /\ job \in Job
    /\ at \in Ats
    /\ status \in {0, 1, 101, 137, None}

\* A `keys generate -b` or `keys export` that reports success (exit status 0)
\* leaves in the file a backup of the very key the device holds under that
\* ID, under the device's own wrap key (create_encrypted_backup and
\* write_base64_secret), whatever failed on the way.
ReportedBackupIsComplete ==
    at = "ended" /\ status = 0 /\ job.cmd \in {"generate", "export"}
        /\ job.path # None
    => /\ Dev.objects[job.id] # None
       /\ files[job.path] = Wrapped(Dev.wrap_key, job.id, Dev.objects[job.id])

\* A `setup` that was approved and reports success (exit status 0) leaves a
\* device with exactly the roles and the wrap key of the phrase it printed,
\* and without the temporary key: no error on the way is passed over
\* (`unwrap_or_else(|e| hsm_error(&e))`).
ReportedSetupIsComplete ==
    at = "ended" /\ status = 0 /\ job.cmd = "setup" /\ job.approved
    => job.mnemonic \in known /\ Dev = ProvisionedDevice(job.mnemonic)

\* No key is ever out of the operator's reach.  A device that holds a key or
\* a wrap key opens with the factory password or with a phrase that was
\* printed before the device was erased (setup.rs prints, asks, erases), also
\* when provisioning stopped half-way; only a device that it left between the
\* default key and the admin role opens to nobody, and that one is empty.
\* And `setup --restore` can make a device that opens any backup: the phrase
\* behind its wrap key was printed.
KeysWithinReach ==
    /\ \A d \in Devices :
            \/ device[d].admin \in known \cup {Default}
            \/ /\ device[d].admin = None
               /\ device[d].wrap_key = None /\ device[d].objects = NoObjects
    /\ \A p \in Paths : files[p].format = "wrap" =>
            \E m \in known :
                files[p].wrap_key =
                    derive_wrap_key_from_mnemonic(m, DEFAULT_WRAP_KEY)

\* A key generated with --non-exportable never leaves its device: no file
\* and no other device ever holds it, however keys are exported, imported and
\* generated after it.
NonExportableStays ==
    /\ \A p \in Paths : files[p].format = "wrap" =>
            files[p].object.key \notin sealed
    /\ \A d, e \in Devices : \A i, j \in Ids :
            /\ device[d].objects[i] # None
            /\ device[e].objects[j] # None
            /\ device[d].objects[i].key = device[e].objects[j].key
            /\ device[d].objects[i].key \in sealed
            => d = e /\ i = j

\* A key in a device is replaced or lost in one way only: an operator
\* answered `y` to the `setup` of that device, as admin.  `--print-only`, a
\* refusal, `generate` and `import` never do (setup.rs:144-155; the device
\* refuses an ID in use).
KeysLostOnlyByApproval ==
    [][\A d \in Devices, id \in Ids :
            /\ device[d].objects[id] # None
            /\ device'[d].objects[id] # device[d].objects[id]
            => /\ job.cmd = "setup" /\ job.dev = d /\ job.approved
               /\ job.role = "admin"]_vars

-----------------------------------------------------------------------------
(* The conjuncts that make these properties inductive.                     *)

\* What the command has established by the time it gets to a step.
Progress ==
    /\ at # "ended" => job.dev \in Devices /\ job.role \in Role
    /\ at \in Provisioning \cup {"setup", "approve"} => job.cmd = "setup"
    /\ at = "setup" => ~ job.approved
    /\ at \in Provisioning \cup {"approve"} => job.mnemonic \in known
    /\ at \in Provisioning => job.approved
    /\ at \in Provisioning \ {"reset"} => Dev.objects = NoObjects
    /\ at \in {"setup_key", "delete_default"} => Dev.admin = Default
    /\ at \in {"setup_key", "delete_default", "roles", "wrap_key"} => Dev.wrap_key = None
    /\ at \in {"wrap_key", "delete_setup_key", "report"} =>
            Dev.admin = job.mnemonic /\ Dev.roles = Role
    /\ at \in {"delete_setup_key", "report"} =>
            Dev.wrap_key = derive_wrap_key_from_mnemonic(job.mnemonic, DEFAULT_WRAP_KEY)
    /\ at = "report" => ~ Dev.setup_key
    /\ at \in {"generate", "import"} => Dev.admin # None
    /\ at \in {"generate", "public_key", "export", "open", "write", "import"} =>
            job.id \in Ids
    /\ at = "generate" => job.cmd = "generate"
    /\ job.cmd = "generate" => job.path # Foreign_backup
    /\ at = "import" => job.cmd = "import"
    /\ at = "public_key" => job.cmd \in {"generate", "import"}
    /\ at \in {"export", "open", "write"} =>
            job.cmd \in {"generate", "export"} /\ job.path \in Paths
    /\ at \in {"open", "write"} =>
            /\ Dev.wrap_key # None
            /\ Dev.objects[job.id] # None
            /\ Dev.objects[job.id].key \notin sealed
            /\ job.wrapped_bytes = Wrapped(Dev.wrap_key, job.id, Dev.objects[job.id])

\* A device has no wrap key but that of a phrase the operator has seen.
WrapKeysShown ==
    \A d \in Devices : device[d].wrap_key # None =>
        \E m \in known :
            device[d].wrap_key = derive_wrap_key_from_mnemonic(m, DEFAULT_WRAP_KEY)

\* Keys in devices and files were drawn; those in files are not sealed, and a
\* sealed key in a device is not exportable.
SealedKept ==
    /\ \A d \in Devices, i \in Ids : device[d].objects[i] # None =>
            /\ device[d].objects[i].key \in drawn
            /\ device[d].objects[i].key \in sealed =>
                    "EXPORTABLE_UNDER_WRAP" \notin device[d].objects[i].capabilities
    /\ \A p \in Paths :
            /\ files[p].format = "wrap" => files[p].object.key \in drawn \ sealed
            /\ files[p].format = "plain" => files[p].key \in drawn \ sealed

YubihsmInv ==
    /\ YubihsmTypeOK /\ Progress
    /\ WrapKeysShown /\ KeysWithinReach
    /\ SealedKept /\ NonExportableStays
    /\ ReportedBackupIsComplete /\ ReportedSetupIsComplete
=============================================================================
