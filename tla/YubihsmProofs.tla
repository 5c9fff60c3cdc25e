--------------------------- MODULE YubihsmProofs ---------------------------
(***************************************************************************)
(* Proofs about Yubihsm, for any number of devices, phrases, keys, IDs and *)
(* files, and any sequence of commands.                                    *)
(***************************************************************************)
EXTENDS Yubihsm, TLAPS

\* Everything but the command that runs.
world == <<device, files, known, drawn, sealed>>

-----------------------------------------------------------------------------
(* Steps that change nothing but the command.                              *)

\* The conjuncts of the invariant that only the devices and files can break.
LEMMA WorldKept ==
    ASSUME YubihsmInv, UNCHANGED world
    PROVE  WrapKeysShown' /\ KeysWithinReach' /\ SealedKept' /\ NonExportableStays'
<1>1. WrapKeysShown' /\ KeysWithinReach'
  BY DEF YubihsmInv, world, WrapKeysShown, KeysWithinReach
<1>2. SealedKept' /\ NonExportableStays'
  BY DEF YubihsmInv, world, SealedKept, NonExportableStays
<1> QED BY <1>1, <1>2

\* A command that ends without status 0, or that makes no backup and is not
\* an approved setup.
LEMMA ExitStep ==
    ASSUME YubihsmInv, UNCHANGED world, NEW code \in {0, 1, 101, 137}, Exit(code),
           code = 0 => /\ job.cmd \notin {"generate", "export"} \/ job.path = None
                       /\ job.cmd # "setup" \/ ~ job.approved
    PROVE  YubihsmInv'
<1>0. job \in Job /\ NoJob \in Job
  BY DEF YubihsmInv, YubihsmTypeOK, Job, NoJob
<1>1. job' \in Job
  <2>1. CASE code = 0
    <3>1. job' = [job EXCEPT !.role = None, !.wrapped_bytes = None]
      BY <2>1 DEF Exit
    <3> QED BY <1>0, <3>1 DEF Job
  <2>2. CASE code # 0
    BY <1>0, <2>2 DEF Exit
  <2> QED BY <2>1, <2>2
<1>2. YubihsmTypeOK'
  BY <1>1 DEF YubihsmInv, YubihsmTypeOK, Exit, world, Ats
<1>3. code = 0 => job'.cmd = job.cmd /\ job'.path = job.path /\ job'.approved = job.approved
  BY <1>0 DEF Exit, Job
<1>4. Progress'
  BY <1>3, YubihsmAssumption DEF YubihsmInv, Exit, Progress, Provisioning, NoJob
<1>5. ReportedBackupIsComplete' /\ ReportedSetupIsComplete'
  BY <1>3 DEF Exit, ReportedBackupIsComplete, ReportedSetupIsComplete
<1> QED BY <1>2, <1>4, <1>5, WorldKept DEF YubihsmInv

LEMMA BeginStep ==
    ASSUME YubihsmInv,
           NEW cmd \in {"setup", "generate", "export", "import"},
           NEW d \in Devices, NEW role \in Role,
           NEW id \in Ids \cup {None}, NEW path \in Paths \cup {Foreign_backup, None},
           cmd = "generate" => path # Foreign_backup,
           Begin(cmd, d, role, id, path),
           cmd # "setup" => id \in Ids,
           cmd = "export" => path \in Paths
    PROVE  YubihsmInv'
<1>1. job' \in Job
  BY DEF Begin, Job, NoJob
<1>2. YubihsmTypeOK'
  BY <1>1 DEF YubihsmInv, YubihsmTypeOK, Begin, Ats
<1>3. device[d].admin # None
  BY YubihsmAssumption DEF YubihsmInv, YubihsmTypeOK, Begin, MayOpen
<1>4. Progress'
  BY <1>3 DEF Begin, Progress, Provisioning, NoJob, Dev
<1>5. ReportedBackupIsComplete' /\ ReportedSetupIsComplete'
  BY DEF Begin, ReportedBackupIsComplete, ReportedSetupIsComplete
<1>6. UNCHANGED world
  BY DEF Begin, world
<1> QED BY <1>2, <1>4, <1>5, <1>6, WorldKept DEF YubihsmInv

-----------------------------------------------------------------------------
(* `tmkms yubihsm setup`.                                                  *)

\* The phrase is known from the moment it is printed.
LEMMA ShowStep ==
    ASSUME YubihsmInv, NEW mnemonic \in Mnemonics, NEW print_only \in BOOLEAN,
           ShowSecrets(mnemonic, print_only)
    PROVE  YubihsmInv'
<1>0. at = "setup" /\ job \in Job /\ job.cmd = "setup" /\ ~ job.approved
      /\ job.dev \in Devices /\ job.role \in Role
  BY DEF YubihsmInv, YubihsmTypeOK, Progress, ShowSecrets
<1>1. UNCHANGED <<device, files, drawn, sealed>> /\ known' = known \cup {mnemonic}
  BY DEF ShowSecrets
<1>2. WrapKeysShown' /\ KeysWithinReach'
  BY <1>1 DEF YubihsmInv, WrapKeysShown, KeysWithinReach
<1>3. SealedKept' /\ NonExportableStays'
  BY <1>1 DEF YubihsmInv, SealedKept, NonExportableStays
<1>4. CASE print_only
  <2>1. Exit(0)
    BY <1>4 DEF ShowSecrets
  <2>2. job' \in Job /\ job'.cmd = "setup" /\ ~ job'.approved /\ at' = "ended" /\ status' = 0
    BY <1>0, <2>1 DEF Exit, Job
  <2>3. YubihsmTypeOK'
    BY <1>1, <2>2 DEF YubihsmInv, YubihsmTypeOK, Ats
  <2>4. Progress' /\ ReportedBackupIsComplete' /\ ReportedSetupIsComplete'
    BY <2>2 DEF Progress, Provisioning, ReportedBackupIsComplete, ReportedSetupIsComplete
  <2> QED BY <1>2, <1>3, <2>3, <2>4 DEF YubihsmInv
<1>5. CASE ~ print_only
  <2>1. job' = [job EXCEPT !.mnemonic = mnemonic] /\ at' = "approve" /\ status' = status
    BY <1>5 DEF ShowSecrets, Goto
  <2>2. job' \in Job /\ job'.cmd = "setup" /\ job'.mnemonic = mnemonic
        /\ job'.dev = job.dev /\ job'.role = job.role
    BY <1>0, <2>1 DEF Job
  <2>3. YubihsmTypeOK'
    BY <1>1, <2>1, <2>2 DEF YubihsmInv, YubihsmTypeOK, Ats
  <2>4. Progress' /\ ReportedBackupIsComplete' /\ ReportedSetupIsComplete'
    BY <1>0, <1>1, <2>1, <2>2
       DEF Progress, Provisioning, ReportedBackupIsComplete, ReportedSetupIsComplete
  <2> QED BY <1>2, <1>3, <2>3, <2>4 DEF YubihsmInv
<1> QED BY <1>4, <1>5

LEMMA ApproveStep ==
    ASSUME YubihsmInv, Approve
    PROVE  YubihsmInv'
<1>0. at = "approve" /\ job \in Job /\ job.cmd = "setup" /\ job.mnemonic \in known
      /\ job.dev \in Devices /\ job.role \in Role
  BY DEF YubihsmInv, YubihsmTypeOK, Progress, Approve
<1>1. job' = [job EXCEPT !.approved = TRUE] /\ at' = "reset" /\ status' = status /\ UNCHANGED world
  BY DEF Approve, Goto, world
<1>2. job' \in Job /\ job'.cmd = "setup" /\ job'.mnemonic = job.mnemonic /\ job'.approved
      /\ job'.dev = job.dev /\ job'.role = job.role
  BY <1>0, <1>1 DEF Job
<1>3. YubihsmTypeOK'
  BY <1>1, <1>2 DEF YubihsmInv, YubihsmTypeOK, Ats, Provisioning, world
<1>4. Progress' /\ ReportedBackupIsComplete' /\ ReportedSetupIsComplete'
  BY <1>0, <1>1, <1>2
     DEF Progress, Provisioning, world, ReportedBackupIsComplete, ReportedSetupIsComplete
<1> QED BY <1>1, <1>3, <1>4, WorldKept DEF YubihsmInv

\* Provisioning: the device holds no keys, and what opens it is known unless
\* it has neither the default key nor a role.
LEMMA ProvisionStep ==
    ASSUME YubihsmInv, at \in Provisioning, NEW dev \in Device,
           NEW step \in Provisioning \ {"reset"}, Provision(dev, step),
           dev.objects = NoObjects,
           dev.admin \in {Default, job.mnemonic} \/ (dev.admin = None /\ dev.wrap_key = None),
           step \in {"setup_key", "delete_default"} => dev.admin = Default,
           step \in {"setup_key", "delete_default", "roles", "wrap_key"} => dev.wrap_key = None,
           step \in {"wrap_key", "delete_setup_key", "report"} =>
              dev.admin = job.mnemonic /\ dev.roles = Role,
           step \in {"delete_setup_key", "report"} =>
              dev.wrap_key = derive_wrap_key_from_mnemonic(job.mnemonic, DEFAULT_WRAP_KEY),
           step = "report" => ~ dev.setup_key
    PROVE  YubihsmInv'
<1>0. /\ job.dev \in Devices /\ job.role \in Role /\ job.cmd = "setup" /\ job.approved
      /\ job.mnemonic \in known
  BY DEF YubihsmInv, Progress, Provisioning
<1>1. /\ device' = [device EXCEPT ![job.dev] = dev] /\ at' = step
      /\ UNCHANGED <<files, known, drawn, sealed, job, status>>
  BY DEF Provision, Goto
<1>2. \A e \in Devices : device'[e] = IF e = job.dev THEN dev ELSE device[e]
  BY <1>1 DEF YubihsmInv, YubihsmTypeOK
<1>3. device' \in [Devices -> Device]
  BY <1>1 DEF YubihsmInv, YubihsmTypeOK
<1>4. dev.wrap_key # None =>
        dev.wrap_key = derive_wrap_key_from_mnemonic(job.mnemonic, DEFAULT_WRAP_KEY)
  BY DEF Provisioning
<1>5. WrapKeysShown'
  BY <1>0, <1>1, <1>2, <1>4 DEF YubihsmInv, WrapKeysShown
<1>6. KeysWithinReach'
  BY <1>0, <1>1, <1>2 DEF YubihsmInv, KeysWithinReach
<1>7. SealedKept'
  BY <1>1, <1>2 DEF YubihsmInv, SealedKept, NoObjects
<1>8. NonExportableStays'
  BY <1>1, <1>2 DEF YubihsmInv, NonExportableStays, NoObjects
<1>9. YubihsmTypeOK'
  BY <1>1, <1>3 DEF YubihsmInv, YubihsmTypeOK, Ats
<1>10. Dev' = dev
  BY <1>0, <1>1, <1>2 DEF Dev
<1>11. Progress'
  BY <1>0, <1>1, <1>10 DEF YubihsmInv, Progress, Provisioning
<1>12. ReportedBackupIsComplete' /\ ReportedSetupIsComplete'
  BY <1>1 DEF Provisioning, ReportedBackupIsComplete, ReportedSetupIsComplete
<1> QED BY <1>5, <1>6, <1>7, <1>8, <1>9, <1>11, <1>12 DEF YubihsmInv

\* Each command that erase_device_and_init_with_profile sends.
LEMMA SetupStep ==
    ASSUME YubihsmInv,
           \/ ResetDevice \/ InstallSetupKey \/ DeleteDefaultKey
           \/ (\E role \in Role : InstallRole(role)) \/ InstallWrapKey \/ DeleteSetupKey
    PROVE  YubihsmInv'
<1>0. at \in Provisioning
  BY DEF ResetDevice, InstallSetupKey, DeleteDefaultKey, InstallRole, InstallWrapKey,
         DeleteSetupKey, Provisioning
<1>1. job.mnemonic \in Mnemonics /\ Dev \in Device
  BY <1>0 DEF YubihsmInv, YubihsmTypeOK, Progress, Provisioning, Dev
<1>2. derive_wrap_key_from_mnemonic(job.mnemonic, DEFAULT_WRAP_KEY) \in WrapKeys
  BY <1>1 DEF WrapKeys
<1>3. CASE ResetDevice
  <2>1. FactoryDevice \in Device /\ FactoryDevice.objects = NoObjects
        /\ FactoryDevice.admin = Default /\ FactoryDevice.wrap_key = None
    BY DEF FactoryDevice, Device, NoObjects
  <2> QED BY <1>0, <1>3, <2>1, ProvisionStep DEF ResetDevice, Provisioning
<1>4. CASE InstallSetupKey
  <2> DEFINE dev == [Dev EXCEPT !.setup_key = TRUE]
  <2>1. Provision(dev, "delete_default")
    BY <1>4 DEF InstallSetupKey
  <2>2. Dev.objects = NoObjects /\ Dev.wrap_key = None /\ Dev.admin = Default
    BY <1>4 DEF InstallSetupKey, YubihsmInv, Progress, Provisioning
  <2>3. dev \in Device /\ dev.objects = NoObjects /\ dev.wrap_key = None /\ dev.admin = Default
    BY <1>1, <2>2 DEF Device
  <2> HIDE DEF dev
  <2> QED BY <1>0, <2>1, <2>3, ProvisionStep DEF Provisioning
<1>5. CASE DeleteDefaultKey
  <2> DEFINE dev == [Dev EXCEPT !.admin = None]
  <2>1. Provision(dev, "roles")
    BY <1>5 DEF DeleteDefaultKey
  <2>2. Dev.objects = NoObjects /\ Dev.wrap_key = None
    BY <1>5 DEF DeleteDefaultKey, YubihsmInv, Progress, Provisioning
  <2>3. dev \in Device /\ dev.objects = NoObjects /\ dev.wrap_key = None /\ dev.admin = None
    BY <1>1, <2>2 DEF Device
  <2> HIDE DEF dev
  <2> QED BY <1>0, <2>1, <2>3, ProvisionStep DEF Provisioning
<1>6. ASSUME NEW role \in Role, InstallRole(role) PROVE YubihsmInv'
  <2> DEFINE dev == [Dev EXCEPT !.admin = job.mnemonic, !.roles = @ \cup {role}]
             step == IF role = "validator" THEN "wrap_key" ELSE "roles"
  <2>1. Provision(dev, step)
    BY <1>6 DEF InstallRole
  <2>2. Dev.objects = NoObjects /\ Dev.wrap_key = None
    BY <1>6 DEF InstallRole, YubihsmInv, Progress, Provisioning
  <2>3. dev \in Device /\ dev.objects = NoObjects /\ dev.wrap_key = None
        /\ dev.admin = job.mnemonic /\ dev.roles = Dev.roles \cup {role}
    BY <1>1, <2>2 DEF Device
  <2>4. role = "validator" => dev.roles = Role
    BY <1>6, <2>3 DEF InstallRole, RolesBefore, Role
  <2>5. step \in {"wrap_key", "roles"} /\ (step = "wrap_key" => role = "validator")
    OBVIOUS
  <2> HIDE DEF dev, step
  <2> QED BY <1>0, <2>1, <2>3, <2>4, <2>5, ProvisionStep DEF Provisioning
<1>7. CASE InstallWrapKey
  <2> DEFINE dev == [Dev EXCEPT !.wrap_key =
                        derive_wrap_key_from_mnemonic(job.mnemonic, DEFAULT_WRAP_KEY)]
  <2>1. Provision(dev, "delete_setup_key")
    BY <1>7 DEF InstallWrapKey
  <2>2. Dev.objects = NoObjects /\ Dev.admin = job.mnemonic /\ Dev.roles = Role
    BY <1>7 DEF InstallWrapKey, YubihsmInv, Progress, Provisioning
  <2>3. dev \in Device /\ dev.objects = NoObjects /\ dev.admin = job.mnemonic /\ dev.roles = Role
        /\ dev.wrap_key = derive_wrap_key_from_mnemonic(job.mnemonic, DEFAULT_WRAP_KEY)
    BY <1>1, <1>2, <2>2 DEF Device
  <2> HIDE DEF dev
  <2> QED BY <1>0, <2>1, <2>3, ProvisionStep DEF Provisioning
<1>8. CASE DeleteSetupKey
  <2> DEFINE dev == [Dev EXCEPT !.setup_key = FALSE]
  <2>1. Provision(dev, "report")
    BY <1>8 DEF DeleteSetupKey
  <2>2. Dev.objects = NoObjects /\ Dev.admin = job.mnemonic /\ Dev.roles = Role
        /\ Dev.wrap_key = derive_wrap_key_from_mnemonic(job.mnemonic, DEFAULT_WRAP_KEY)
    BY <1>8 DEF DeleteSetupKey, YubihsmInv, Progress, Provisioning
  <2>3. dev \in Device /\ dev.objects = NoObjects /\ dev.admin = job.mnemonic /\ dev.roles = Role
        /\ dev.wrap_key = derive_wrap_key_from_mnemonic(job.mnemonic, DEFAULT_WRAP_KEY)
        /\ ~ dev.setup_key
    BY <1>1, <2>2 DEF Device
  <2> HIDE DEF dev
  <2> QED BY <1>0, <2>1, <2>3, ProvisionStep DEF Provisioning
<1> QED BY <1>3, <1>4, <1>5, <1>6, <1>7, <1>8

\* setup reports success only from its last step.
LEMMA ReportStep ==
    ASSUME YubihsmInv, WriteReport(0)
    PROVE  YubihsmInv'
<1>1. /\ at = "report" /\ job \in Job /\ job.dev \in Devices /\ job.cmd = "setup"
      /\ job.mnemonic \in known /\ Exit(0) /\ UNCHANGED world
  BY DEF YubihsmInv, YubihsmTypeOK, Progress, Provisioning, WriteReport, world
<1>2. job' \in Job /\ job'.cmd = "setup" /\ job'.dev = job.dev /\ job'.mnemonic = job.mnemonic
      /\ at' = "ended" /\ status' = 0
  BY <1>1 DEF Exit, Job
<1>3. Dev \in Device /\ Dev' = Dev
  BY <1>1, <1>2 DEF YubihsmInv, YubihsmTypeOK, Dev, world
<1>4. Dev.admin = job.mnemonic /\ Dev.roles = Role /\ ~ Dev.setup_key
      /\ Dev.wrap_key = derive_wrap_key_from_mnemonic(job.mnemonic, DEFAULT_WRAP_KEY)
      /\ Dev.objects = NoObjects
  BY <1>1 DEF YubihsmInv, Progress, Provisioning
<1>5. Dev = ProvisionedDevice(job.mnemonic)
  BY <1>3, <1>4 DEF Device, ProvisionedDevice
<1>6. ReportedSetupIsComplete' /\ ReportedBackupIsComplete'
  BY <1>1, <1>2, <1>3, <1>5
     DEF world, ReportedSetupIsComplete, ReportedBackupIsComplete, ProvisionedDevice, NoObjects,
         derive_wrap_key_from_mnemonic, derive_secret_from_mnemonic, DEFAULT_WRAP_KEY
<1>7. YubihsmTypeOK' /\ Progress'
  BY <1>1, <1>2 DEF YubihsmInv, YubihsmTypeOK, Progress, Provisioning, Ats, world
<1> QED BY <1>1, <1>6, <1>7, WorldKept DEF YubihsmInv

-----------------------------------------------------------------------------
(* `tmkms yubihsm keys generate`, `export` and `import`.                   *)

\* A new object under a free ID: of a key that is drawn now, or of one that is
\* not sealed.
LEMMA PutStep ==
    ASSUME YubihsmInv, NEW d \in Devices, NEW id \in Ids, NEW object \in Object,
           device[d].objects[id] = None, device[d].admin # None,
           device' = [device EXCEPT ![d].objects[id] = object],
           UNCHANGED <<files, known>>,
           drawn \subseteq drawn', drawn' \subseteq Keys, object.key \in drawn',
           sealed \subseteq sealed', sealed' \subseteq sealed \cup (drawn' \ drawn),
           object.key \in sealed' =>
              object.key \notin drawn /\ "EXPORTABLE_UNDER_WRAP" \notin object.capabilities
    PROVE  /\ device' \in [Devices -> Device]
           /\ sealed' \subseteq drawn'
           /\ WrapKeysShown' /\ KeysWithinReach' /\ SealedKept' /\ NonExportableStays'
<1>1. /\ device \in [Devices -> Device]
      /\ sealed \subseteq drawn
  BY DEF YubihsmInv, YubihsmTypeOK
<1>2. \A e \in Devices : device'[e].admin = device[e].admin
                      /\ device'[e].wrap_key = device[e].wrap_key
  BY <1>1
<1>3. \A e \in Devices, i \in Ids :
        device'[e].objects[i] = IF e = d /\ i = id THEN object ELSE device[e].objects[i]
  BY <1>1 DEF Device
<1>4. device' \in [Devices -> Device]
  BY <1>1 DEF Device
<1>5. WrapKeysShown'
  BY <1>2 DEF YubihsmInv, WrapKeysShown
<1>8. KeysWithinReach'
  <2>1. \A e \in Devices : e # d => device'[e] = device[e]
    BY <1>1
  <2> QED BY <1>2, <2>1 DEF YubihsmInv, KeysWithinReach
<1>6. SealedKept'
  BY <1>3 DEF YubihsmInv, SealedKept
<1>7. NonExportableStays'
  BY <1>3 DEF YubihsmInv, SealedKept, NonExportableStays
<1> QED BY <1>1, <1>4, <1>5, <1>6, <1>7, <1>8

\* After generate or an import: the public key, the backup, or the end.
LEMMA AfterPut ==
    ASSUME YubihsmInv, job.cmd \in {"generate", "import"}, job.dev \in Devices,
           job.role \in Role, job.id \in Ids,
           (at' = "public_key" /\ UNCHANGED <<status, job>>) \/ Backed,
           at' = "ended" => job.cmd # "generate" \/ job.path = None,
           at' = "export" => job.cmd = "generate"
    PROVE  /\ job' \in Job /\ at' \in Ats /\ status' \in {0, 1, 101, 137, None}
           /\ Progress' /\ ReportedBackupIsComplete' /\ ReportedSetupIsComplete'
<1>1. job \in Job /\ (job.cmd = "generate" => job.path # Foreign_backup)
  BY DEF YubihsmInv, YubihsmTypeOK, Progress
<1>2. CASE at' = "public_key" /\ UNCHANGED <<status, job>>
  BY <1>1, <1>2 DEF YubihsmInv, YubihsmTypeOK, Progress, Provisioning,
                    ReportedBackupIsComplete, ReportedSetupIsComplete, Ats
<1>3. CASE Exit(0)
  <2>1. job' \in Job /\ job'.cmd = job.cmd /\ job'.path = job.path /\ at' = "ended" /\ status' = 0
    BY <1>1, <1>3 DEF Exit, Job
  <2>2. Progress' /\ ReportedBackupIsComplete' /\ ReportedSetupIsComplete'
    BY <1>1, <2>1 DEF Progress, Provisioning, ReportedBackupIsComplete, ReportedSetupIsComplete
  <2> QED BY <2>1, <2>2 DEF Ats
<1>4. CASE job.path # None /\ Goto("export") /\ UNCHANGED job
  <2>1. job.path \in Paths /\ at' = "export"
    BY <1>1, <1>4 DEF Job, Goto
  <2>2. Progress'
    BY <1>1, <1>4, <2>1 DEF Progress, Provisioning
  <2>3. ReportedBackupIsComplete' /\ ReportedSetupIsComplete' /\ at' \in Ats /\ status' = status
    BY <1>4 DEF Goto, ReportedBackupIsComplete, ReportedSetupIsComplete, Ats
  <2> QED BY <1>1, <1>4, <2>2, <2>3 DEF YubihsmInv, YubihsmTypeOK
<1> QED BY <1>2, <1>3, <1>4 DEF Backed

LEMMA GenerateStep ==
    ASSUME YubihsmInv, NEW key_type \in {"Account", "Consensus"}, NEW non_exportable \in BOOLEAN,
           NEW key \in Keys, Generate(key_type, non_exportable, key)
    PROVE  YubihsmInv'
<1> DEFINE object == [key          |-> key,
                      capabilities |-> KeyCapabilities(non_exportable)]
<1>1. at = "generate" /\ job.cmd = "generate" /\ job.dev \in Devices /\ job.role \in Role
      /\ job.id \in Ids /\ device[job.dev].admin # None
  BY DEF YubihsmInv, Progress, Generate, Dev
<1>2. object \in Object
  BY DEF Object, KeyCapabilities, DEFAULT_CAPABILITIES, KeyCapability
<1>3. /\ device[job.dev].objects[job.id] = None
      /\ device' = [device EXCEPT ![job.dev].objects[job.id] = object]
      /\ UNCHANGED <<files, known>>
      /\ key \notin drawn /\ drawn' = drawn \cup {key}
      /\ sealed' = IF non_exportable THEN sealed \cup {key} ELSE sealed
  BY DEF Generate, PutObject, Dev
<1>4. non_exportable => "EXPORTABLE_UNDER_WRAP" \notin object.capabilities
  BY DEF KeyCapabilities, DEFAULT_CAPABILITIES
<1>5. drawn \subseteq Keys /\ sealed \subseteq drawn /\ object.key = key
  BY DEF YubihsmInv, YubihsmTypeOK
<1>6. /\ device' \in [Devices -> Device]
      /\ sealed' \subseteq drawn'
      /\ WrapKeysShown' /\ KeysWithinReach' /\ SealedKept' /\ NonExportableStays'
  <2> HIDE DEF object
  <2> QED BY <1>1, <1>2, <1>3, <1>4, <1>5, PutStep
<1>7. (at' = "public_key" /\ UNCHANGED <<status, job>>) \/ Backed
  BY DEF Generate, Goto
<1>8. /\ job' \in Job /\ at' \in Ats /\ status' \in {0, 1, 101, 137, None}
      /\ Progress' /\ ReportedBackupIsComplete' /\ ReportedSetupIsComplete'
  <2>1. at' = "ended" => job.path = None
    BY <1>7 DEF Backed, Exit, Goto
  <2> QED BY <1>1, <1>7, <2>1, AfterPut
<1>9. YubihsmTypeOK'
  BY <1>3, <1>5, <1>6, <1>8 DEF YubihsmInv, YubihsmTypeOK
<1> QED BY <1>6, <1>8, <1>9 DEF YubihsmInv

LEMMA GetPublicKeyStep ==
    ASSUME YubihsmInv, GetPublicKey
    PROVE  YubihsmInv'
<1>1. /\ at = "public_key" /\ job.cmd \in {"generate", "import"} /\ job.dev \in Devices
      /\ job.role \in Role /\ job.id \in Ids
  BY DEF YubihsmInv, Progress, GetPublicKey
<1>2. UNCHANGED world
  BY DEF GetPublicKey, world
<1>3. CASE job.cmd = "import"
  BY <1>2, <1>3, ExitStep DEF GetPublicKey
<1>4. CASE job.cmd = "generate"
  <2>1. Backed
    BY <1>4 DEF GetPublicKey
  <2>2. at' = "ended" => job.path = None
    BY <2>1 DEF Backed, Goto
  <2>3. /\ job' \in Job /\ at' \in Ats /\ status' \in {0, 1, 101, 137, None}
        /\ Progress' /\ ReportedBackupIsComplete' /\ ReportedSetupIsComplete'
    BY <1>1, <1>4, <2>1, <2>2, AfterPut
  <2>4. YubihsmTypeOK'
    BY <1>2, <2>3 DEF YubihsmInv, YubihsmTypeOK, world
  <2> QED BY <1>2, <2>3, <2>4, WorldKept DEF YubihsmInv
<1> QED BY <1>1, <1>3, <1>4

\* Only an exportable key is wrapped, so no sealed one.
LEMMA ExportStep ==
    ASSUME YubihsmInv, ExportWrapped
    PROVE  YubihsmInv'
<1>1. /\ at = "export" /\ job.cmd \in {"generate", "export"} /\ job.path \in Paths
      /\ job.dev \in Devices /\ job.role \in Role /\ job.id \in Ids
  BY DEF YubihsmInv, Progress, ExportWrapped
<1>2. /\ Dev.wrap_key \in WrapKeys /\ Dev.objects[job.id] \in Object
      /\ Dev.objects[job.id] # None /\ Dev.wrap_key # None
  BY <1>1 DEF YubihsmInv, YubihsmTypeOK, ExportWrapped, Dev, Device
<1>3. Dev.objects[job.id].key \notin sealed
  BY <1>1, <1>2 DEF YubihsmInv, SealedKept, ExportWrapped, Dev
<1>4. Wrapped(Dev.wrap_key, job.id, Dev.objects[job.id]) \in Backup
  BY <1>1, <1>2 DEF Wrapped, Backup
<1>5. /\ job \in Job
      /\ job' = [job EXCEPT !.wrapped_bytes = Wrapped(Dev.wrap_key, job.id, Dev.objects[job.id])]
      /\ UNCHANGED world /\ UNCHANGED status /\ at' = "open"
  BY DEF YubihsmInv, YubihsmTypeOK, ExportWrapped, Goto, world
<1>6. /\ job' \in Job
      /\ job'.wrapped_bytes = Wrapped(Dev.wrap_key, job.id, Dev.objects[job.id])
      /\ job'.cmd = job.cmd /\ job'.path = job.path /\ job'.dev = job.dev /\ job'.id = job.id
      /\ job'.role = job.role
  <2> DEFINE wrapped == Wrapped(Dev.wrap_key, job.id, Dev.objects[job.id])
  <2>1. wrapped \in Backup /\ job' = [job EXCEPT !.wrapped_bytes = wrapped]
    BY <1>4, <1>5
  <2> HIDE DEF wrapped
  <2>2. /\ job' \in Job /\ job'.wrapped_bytes = wrapped
        /\ job'.cmd = job.cmd /\ job'.path = job.path /\ job'.dev = job.dev
        /\ job'.id = job.id /\ job'.role = job.role
    BY <1>5, <2>1 DEF Job
  <2> QED BY <2>2 DEF wrapped
<1>7. Dev' = Dev /\ sealed' = sealed
  BY <1>5, <1>6 DEF Dev, world
<1>8. YubihsmTypeOK'
  BY <1>5, <1>6 DEF YubihsmInv, YubihsmTypeOK, world, Ats
<1>9. Progress'
  BY <1>1, <1>2, <1>3, <1>5, <1>6, <1>7 DEF YubihsmInv, Progress, Provisioning
<1>10. ReportedBackupIsComplete' /\ ReportedSetupIsComplete'
  BY <1>5 DEF ReportedBackupIsComplete, ReportedSetupIsComplete
<1> QED BY <1>5, <1>8, <1>9, <1>10, WorldKept DEF YubihsmInv

\* write_base64_secret, with what was wrapped: of a known wrap key, and not
\* sealed.
LEMMA WriteStep ==
    ASSUME YubihsmInv, OpenTruncate \/ WriteAll
    PROVE  YubihsmInv'
<1> DEFINE bytes == IF at = "open" THEN Truncated ELSE job.wrapped_bytes
<1>1. /\ at \in {"open", "write"} /\ job.cmd \in {"generate", "export"} /\ job.path \in Paths
      /\ job.dev \in Devices /\ job.role \in Role /\ job.id \in Ids
      /\ Dev.wrap_key # None /\ Dev.objects[job.id] # None
      /\ Dev.objects[job.id].key \notin sealed
      /\ job.wrapped_bytes = Wrapped(Dev.wrap_key, job.id, Dev.objects[job.id])
  BY DEF YubihsmInv, Progress, OpenTruncate, WriteAll
<1>2. /\ files' = [files EXCEPT ![job.path] = bytes]
      /\ UNCHANGED <<device, known, drawn, sealed>>
  BY DEF OpenTruncate, WriteAll
<1>3. Dev.wrap_key \in WrapKeys /\ Dev.objects[job.id] \in Object
  BY <1>1 DEF YubihsmInv, YubihsmTypeOK, Dev, Device
<1>4. job.wrapped_bytes \in Backup
  BY <1>1, <1>3 DEF Wrapped, Backup
<1>5. /\ job.wrapped_bytes.format = "wrap" /\ job.wrapped_bytes.wrap_key = Dev.wrap_key
      /\ job.wrapped_bytes.object = Dev.objects[job.id]
  BY <1>1 DEF Wrapped
<1>6. bytes \in Backup \cup {Absent, Truncated} /\ bytes.format # "plain"
  BY <1>4, <1>5 DEF Truncated
<1>7. bytes.format = "wrap" => bytes = job.wrapped_bytes
  BY DEF Truncated
<1>8. \A p \in Paths : files'[p] = IF p = job.path THEN bytes ELSE files[p]
  BY <1>2 DEF YubihsmInv, YubihsmTypeOK
<1>9. files' \in [Paths -> Backup \cup {Absent, Truncated} \cup {PrivValidator(k) : k \in Keys}]
  <2> HIDE DEF bytes
  <2> QED BY <1>2, <1>6 DEF YubihsmInv, YubihsmTypeOK
<1>10. WrapKeysShown'
  BY <1>2 DEF YubihsmInv, WrapKeysShown
<1>11. KeysWithinReach'
  <2>1. \E m \in known : Dev.wrap_key = derive_wrap_key_from_mnemonic(m, DEFAULT_WRAP_KEY)
    BY <1>1 DEF YubihsmInv, WrapKeysShown, Dev
  <2> HIDE DEF bytes
  <2> QED BY <1>2, <1>5, <1>7, <1>8, <2>1 DEF YubihsmInv, KeysWithinReach
<1>12. SealedKept'
  <2>1. Dev.objects[job.id].key \in drawn
    BY <1>1 DEF YubihsmInv, SealedKept, Dev
  <2> HIDE DEF bytes
  <2> QED BY <1>1, <1>2, <1>5, <1>6, <1>7, <1>8, <2>1 DEF YubihsmInv, SealedKept
<1>13. NonExportableStays'
  <2> HIDE DEF bytes
  <2> QED BY <1>1, <1>2, <1>5, <1>7, <1>8 DEF YubihsmInv, NonExportableStays
<1>14. CASE OpenTruncate
  <2>1. UNCHANGED <<job, status, device, sealed>> /\ at' = "write"
    BY <1>14 DEF OpenTruncate, Goto
  <2>2. YubihsmTypeOK'
    BY <1>2, <1>9, <2>1 DEF YubihsmInv, YubihsmTypeOK, Ats
  <2>3. Progress'
    BY <1>1, <2>1 DEF YubihsmInv, Progress, Provisioning, Dev
  <2>4. ReportedBackupIsComplete' /\ ReportedSetupIsComplete'
    BY <2>1 DEF ReportedBackupIsComplete, ReportedSetupIsComplete
  <2> QED BY <1>10, <1>11, <1>12, <1>13, <2>2, <2>3, <2>4 DEF YubihsmInv
<1>15. CASE WriteAll
  <2>1. Exit(0) /\ UNCHANGED device /\ at = "write"
    BY <1>15 DEF WriteAll
  <2>2. job \in Job
    BY DEF YubihsmInv, YubihsmTypeOK
  <2>5. /\ job' \in Job /\ job'.dev = job.dev /\ job'.id = job.id /\ job'.path = job.path
        /\ job'.cmd = job.cmd /\ at' = "ended" /\ status' = 0
    BY <2>1, <2>2 DEF Exit, Job
  <2>3. YubihsmTypeOK'
    BY <1>2, <1>9, <2>5 DEF YubihsmInv, YubihsmTypeOK, Ats
  <2>4. Progress'
    BY <2>5 DEF YubihsmInv, Progress, Provisioning
  <2>6. files'[job'.path] = Wrapped(Dev.wrap_key, job.id, Dev.objects[job.id])
    BY <1>1, <1>8, <2>1, <2>5
  <2>7. Dev' = Dev
    BY <2>1, <2>5 DEF Dev
  <2>8. ReportedBackupIsComplete' /\ ReportedSetupIsComplete'
    BY <1>1, <2>5, <2>6, <2>7 DEF ReportedBackupIsComplete, ReportedSetupIsComplete
  <2> QED BY <1>10, <1>11, <1>12, <1>13, <2>3, <2>4, <2>8 DEF YubihsmInv
<1> QED BY <1>14, <1>15

\* What is imported comes from a file, so it is not sealed.
LEMMA ImportStep ==
    ASSUME YubihsmInv, ImportWrapped \/ ImportPlain
    PROVE  YubihsmInv'
<1>1. /\ at = "import" /\ job.cmd = "import" /\ job.path \in Paths /\ job.dev \in Devices
      /\ job.role \in Role /\ job.id \in Ids /\ device[job.dev].admin # None
  BY DEF YubihsmInv, Progress, ImportWrapped, ImportPlain, Dev
<1>2. files[job.path] \in Backup \cup {Absent, Truncated} \cup {PrivValidator(k) : k \in Keys}
  BY <1>1 DEF YubihsmInv, YubihsmTypeOK
<1>3. UNCHANGED <<files, known, drawn, sealed>>
  BY DEF ImportWrapped, ImportPlain
<1>4. drawn \subseteq Keys
  BY DEF YubihsmInv, YubihsmTypeOK
<1> DEFINE HoldsAfter ==
       /\ device' \in [Devices -> Device]
       /\ WrapKeysShown' /\ KeysWithinReach' /\ SealedKept' /\ NonExportableStays'
<1>5. ASSUME NEW id \in Ids, NEW object \in Object, PutObject(id, object),
             object.key \in drawn \ sealed
      PROVE  HoldsAfter
  BY <1>1, <1>3, <1>4, <1>5, PutStep DEF PutObject, Dev
<1>6. CASE ImportWrapped
  <2> DEFINE wrapped == files[job.path]
  <2>1. wrapped \in Backup
    <3>1. wrapped.format = "wrap"
      BY <1>6 DEF ImportWrapped
    <3>2. Absent.format # "wrap" /\ Truncated.format # "wrap"
          /\ \A k \in Keys : PrivValidator(k).format # "wrap"
      BY DEF Absent, Truncated, PrivValidator
    <3> QED BY <1>2, <3>1, <3>2
  <2>2. wrapped.id \in Ids /\ wrapped.object \in Object
    BY <2>1 DEF Backup
  <2>3. wrapped.object.key \in drawn \ sealed
    BY <1>1, <1>6 DEF YubihsmInv, SealedKept, ImportWrapped
  <2>4. PutObject(wrapped.id, wrapped.object) /\ at' = "public_key" /\ UNCHANGED <<status, job>>
    BY <1>6 DEF ImportWrapped, Goto
  <2>5. HoldsAfter
    <3> HIDE DEF HoldsAfter, wrapped
    <3> QED BY <1>5, <2>2, <2>3, <2>4
  <2>6. YubihsmTypeOK'
    BY <1>3, <2>4, <2>5 DEF YubihsmInv, YubihsmTypeOK, Ats
  <2>7. Progress' /\ ReportedBackupIsComplete' /\ ReportedSetupIsComplete'
    BY <1>1, <2>4 DEF Progress, Provisioning, ReportedBackupIsComplete, ReportedSetupIsComplete
  <2> QED BY <2>5, <2>6, <2>7 DEF YubihsmInv
<1>7. CASE ImportPlain
  <2> DEFINE object == [key          |-> files[job.path].key,
                        capabilities |-> KeyCapabilities(FALSE)]
  <2>1. files[job.path].key \in drawn \ sealed
    BY <1>1, <1>7 DEF YubihsmInv, SealedKept, ImportPlain
  <2>2. object \in Object /\ object.key \in drawn \ sealed
    BY <1>4, <2>1 DEF Object, KeyCapabilities, DEFAULT_CAPABILITIES, KeyCapability
  <2>3. PutObject(job.id, object) /\ Exit(0)
    BY <1>7 DEF ImportPlain
  <2>4. HoldsAfter
    <3> HIDE DEF HoldsAfter, object
    <3> QED BY <1>1, <1>5, <2>2, <2>3
  <2>5. job' \in Job /\ job'.cmd = "import" /\ at' = "ended" /\ status' = 0
    BY <1>1, <2>3 DEF YubihsmInv, YubihsmTypeOK, Exit, Job
  <2>6. YubihsmTypeOK'
    BY <1>3, <2>4, <2>5 DEF YubihsmInv, YubihsmTypeOK, Ats
  <2>7. Progress' /\ ReportedBackupIsComplete' /\ ReportedSetupIsComplete'
    BY <2>5 DEF Progress, Provisioning, ReportedBackupIsComplete, ReportedSetupIsComplete
  <2> QED BY <2>4, <2>6, <2>7 DEF YubihsmInv
<1> QED BY <1>6, <1>7

-----------------------------------------------------------------------------
(* All commands.                                                           *)

LEMMA InitHolds == Init => YubihsmInv
<1> SUFFICES ASSUME Init PROVE YubihsmInv
  OBVIOUS
<1>1. job \in Job
  BY DEF Init, Job, NoJob
<1>2. device \in [Devices -> Device]
  BY DEF Init, FactoryDevice, NoObjects, Device
<1>3. files \in [Paths -> Backup \cup {Absent, Truncated} \cup {PrivValidator(k) : k \in Keys}]
  BY YubihsmAssumption DEF Init
<1>4. YubihsmTypeOK
  BY <1>1, <1>2, <1>3, YubihsmAssumption DEF Init, YubihsmTypeOK, Ats
<1>5. \A p \in Paths : files[p].format # "wrap"
                    /\ (files[p].format = "plain" => files[p].key = Validator_key)
  BY DEF Init, Absent, PrivValidator
<1>6. \A d \in Devices : /\ device[d].wrap_key = None /\ device[d].admin = Default
                         /\ \A i \in Ids : device[d].objects[i] = None
  BY DEF Init, FactoryDevice, NoObjects
<1>7. WrapKeysShown /\ KeysWithinReach
  BY <1>5, <1>6 DEF WrapKeysShown, KeysWithinReach
<1>8. SealedKept /\ NonExportableStays
  BY <1>5, <1>6 DEF Init, SealedKept, NonExportableStays
<1>9. Progress /\ ReportedBackupIsComplete /\ ReportedSetupIsComplete
  BY YubihsmAssumption
     DEF Init, NoJob, Progress, Provisioning, ReportedBackupIsComplete, ReportedSetupIsComplete
<1> QED BY <1>4, <1>7, <1>8, <1>9 DEF YubihsmInv

LEMMA StepHolds == YubihsmInv /\ [Next]_vars => YubihsmInv'
<1> SUFFICES ASSUME YubihsmInv, [Next]_vars PROVE YubihsmInv'
  OBVIOUS
<1>1. CASE UNCHANGED vars
  <2>1. YubihsmTypeOK'
    BY <1>1 DEF YubihsmInv, YubihsmTypeOK, vars
  <2>4. Dev' = Dev /\ at' = at /\ job' = job /\ known' = known /\ sealed' = sealed
    BY <1>1 DEF vars, Dev
  <2>2. Progress'
    BY <2>4 DEF YubihsmInv, Progress
  <2>3. ReportedBackupIsComplete' /\ ReportedSetupIsComplete'
    BY <1>1 DEF YubihsmInv, ReportedBackupIsComplete, ReportedSetupIsComplete, Dev, vars
  <2> QED BY <1>1, <2>1, <2>2, <2>3, WorldKept DEF YubihsmInv, vars, world
<1>2. ASSUME NEW d \in Devices, NEW role \in Role,
             \/ RunSetup(d, role)
             \/ \E id \in Ids :
                \/ \E path \in Paths \cup {None} : RunGenerate(d, role, id, path)
                \/ \E path \in Paths : RunExport(d, role, id, path)
                \/ \E path \in Paths \cup {Foreign_backup} : RunImport(d, role, id, path)
      PROVE  YubihsmInv'
  BY <1>2, YubihsmAssumption, BeginStep DEF RunSetup, RunGenerate, RunExport, RunImport
<1>3. CASE NotOpened \/ SetupFails \/ ProvisioningFails \/ KeyFails \/ BackupFails \/ Killed
           \/ Abort \/ WriteReport(101)
  BY <1>3, ExitStep DEF NotOpened, SetupFails, ProvisioningFails, KeyFails, BackupFails, Killed,
                        Abort, WriteReport, world
<1>4. CASE ImportOther
  <2>1. job.cmd = "import"
    BY <1>4 DEF YubihsmInv, Progress, ImportOther
  <2> QED BY <1>4, <2>1, ExitStep DEF ImportOther, world
<1> QED
  BY <1>1, <1>2, <1>3, <1>4, ShowStep, ApproveStep, SetupStep, ReportStep, GenerateStep,
     GetPublicKeyStep, ExportStep, WriteStep, ImportStep DEF Next

\* The inductive invariant of the commands: where each of them is tells what
\* it has shown, asked and wrapped.
THEOREM YubihsmInvariance == Spec => []YubihsmInv
BY InitHolds, StepHolds, PTL DEF Spec

\* Whatever fails or is killed, also between two commands of the provisioning,
\* a device that the operator cannot open is empty, and the phrase behind
\* every backup was printed.
THEOREM KeysNeverLockedIn == Spec => []KeysWithinReach
<1>1. YubihsmInv => KeysWithinReach
  BY DEF YubihsmInv
<1> QED BY <1>1, YubihsmInvariance, PTL

\* A setup that was reported is whole: the roles and the wrap key of the
\* phrase, and no temporary key.
THEOREM SetupsWhole == Spec => []ReportedSetupIsComplete
<1>1. YubihsmInv => ReportedSetupIsComplete
  BY DEF YubihsmInv
<1> QED BY <1>1, YubihsmInvariance, PTL

\* No sequence of setup --restore, export and import moves a key that was
\* generated with --non-exportable.
THEOREM SealedNeverLeaves == Spec => []NonExportableStays
<1>1. YubihsmInv => NonExportableStays
  BY DEF YubihsmInv
<1> QED BY <1>1, YubihsmInvariance, PTL

\* A backup that was reported is the whole key of the device.
THEOREM BackupsWhole == Spec => []ReportedBackupIsComplete
<1>1. YubihsmInv => ReportedBackupIsComplete
  BY DEF YubihsmInv
<1> QED BY <1>1, YubihsmInvariance, PTL

-----------------------------------------------------------------------------
(* Keys are lost by approval only.                                         *)

KeyLost(d, id) ==
    device[d].objects[id] # None /\ device'[d].objects[id] # device[d].objects[id]

\* generate and import only fill free IDs.
LEMMA PutLosesNothing ==
    ASSUME YubihsmInv, NEW d \in Devices, NEW id \in Ids, KeyLost(d, id),
           NEW i \in Ids, NEW object, job.dev \in Devices, PutObject(i, object)
    PROVE  FALSE
<1>1. /\ device \in [Devices -> Device]
      /\ device[job.dev].objects[i] = None
      /\ device' = [device EXCEPT ![job.dev].objects[i] = object]
  BY DEF YubihsmInv, YubihsmTypeOK, PutObject, Dev
<1>2. device'[d].objects[id] = IF d = job.dev /\ id = i THEN object ELSE device[d].objects[id]
  BY <1>1 DEF Device
<1> QED BY <1>1, <1>2 DEF KeyLost

\* The device lets only an admin reset it, and setup resets the device it was
\* started for, once that was approved.
LEMMA LossApproved ==
    ASSUME YubihsmInv, [Next]_vars, NEW d \in Devices, NEW id \in Ids, KeyLost(d, id)
    PROVE  job.cmd = "setup" /\ job.dev = d /\ job.approved /\ job.role = "admin"
<1>1. device' # device
  BY DEF KeyLost
<1>2. CASE ResetDevice
  <2>1. /\ job.dev \in Devices /\ job.role \in Role /\ job.cmd = "setup" /\ job.approved
    BY <1>2 DEF YubihsmInv, Progress, Provisioning, ResetDevice
  <2>2. May("RESET_DEVICE") /\ device' = [device EXCEPT ![job.dev] = FactoryDevice]
    BY <1>2 DEF ResetDevice, Provision
  <2>3. job.role = "admin"
    BY <2>1, <2>2 DEF May, derive_roles_from_mnemonic, Role
  <2>4. job.dev = d
    BY <2>1, <2>2 DEF KeyLost, YubihsmInv, YubihsmTypeOK
  <2> QED BY <2>1, <2>3, <2>4
<1>6. CASE InstallSetupKey \/ DeleteDefaultKey \/ (\E role \in Role : InstallRole(role))
           \/ InstallWrapKey \/ DeleteSetupKey
  <2>1. Dev \in Device /\ Dev.objects = NoObjects /\ job.dev \in Devices
    BY <1>6 DEF InstallSetupKey, DeleteDefaultKey, InstallRole, InstallWrapKey, DeleteSetupKey,
                YubihsmInv, YubihsmTypeOK, Progress, Provisioning, Dev
  <2>2. \E dev : device' = [device EXCEPT ![job.dev] = dev]
    BY <1>6 DEF InstallSetupKey, DeleteDefaultKey, InstallRole, InstallWrapKey, DeleteSetupKey,
                Provision
  <2>3. d = job.dev
    BY <2>1, <2>2 DEF KeyLost, YubihsmInv, YubihsmTypeOK
  <2>4. device[d].objects[id] = None
    BY <2>1, <2>3 DEF Dev, NoObjects
  <2> QED BY <2>4 DEF KeyLost
<1>3. ASSUME NEW key_type \in {"Account", "Consensus"}, NEW non_exportable \in BOOLEAN,
             NEW key \in Keys, Generate(key_type, non_exportable, key)
      PROVE  FALSE
  BY <1>3, PutLosesNothing DEF YubihsmInv, Progress, Generate
<1>4. CASE ImportWrapped
  <2>1. files[job.path].id \in Ids
    <3>1. /\ files[job.path] \in Backup \cup {Absent, Truncated} \cup {PrivValidator(k) : k \in Keys}
          /\ files[job.path].format = "wrap"
      BY <1>4 DEF YubihsmInv, YubihsmTypeOK, Progress, ImportWrapped
    <3>2. Absent.format # "wrap" /\ Truncated.format # "wrap"
          /\ \A k \in Keys : PrivValidator(k).format # "wrap"
      BY DEF Absent, Truncated, PrivValidator
    <3> QED BY <3>1, <3>2 DEF Backup
  <2> QED BY <1>4, <2>1, PutLosesNothing DEF YubihsmInv, Progress, ImportWrapped
<1>5. CASE ImportPlain
  BY <1>5, PutLosesNothing DEF YubihsmInv, Progress, ImportPlain
<1> QED
  BY <1>1, <1>2, <1>3, <1>4, <1>5, <1>6
     DEF Next, vars, RunSetup, RunGenerate, RunExport, RunImport, Begin, ShowSecrets, Approve, Abort,
         WriteReport, GetPublicKey, ExportWrapped, OpenTruncate, WriteAll, ImportOther,
         NotOpened, SetupFails, ProvisioningFails, KeyFails, BackupFails, Killed

\* A key in a device is lost only by the approved setup of that device, run
\* with the admin's credentials.
THEOREM LostOnlyByApproval == Spec => KeysLostOnlyByApproval
<1>1. YubihsmInv /\ [Next]_vars =>
        [\A d \in Devices, id \in Ids :
            /\ device[d].objects[id] # None
            /\ device'[d].objects[id] # device[d].objects[id]
            => /\ job.cmd = "setup" /\ job.dev = d /\ job.approved
               /\ job.role = "admin"]_vars
  BY LossApproved DEF KeyLost
<1> QED BY <1>1, YubihsmInvariance, PTL DEF Spec, KeysLostOnlyByApproval
=============================================================================
