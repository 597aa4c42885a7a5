------------------------------ MODULE DataDir -------------------------------
(***************************************************************************)
(* The files of one account and its backup: accounts.koe and identity.koe  *)
(* (src/src/koe_account.c, koe_crypto.c, koe_identity.c), travel.koe and   *)
(* secret.koe (koe_ghost.c), and the .koebak archive (koe_backup.c).       *)
(*                                                                         *)
(* Every save opens its file with "wb", which truncates it, and writes the *)
(* new content afterwards.  So an operation is a list of writes, of which  *)
(* a crash may cut off the rest, and the content of a file is Absent, Torn *)
(* (truncated, or cut short) or whole.  Encryption is ideal: what is whole *)
(* opens with its passphrase and no other.  Writes succeed: the code does  *)
(* not look at the results of fwrite, and nothing here holds on a full     *)
(* disk.                                                                   *)
(* An operation that returns -1 before its first write is a stuttering     *)
(* step.  Operations run one at a time, in any order: nothing ties exports *)
(* and imports to a log-in.                                                *)
(***************************************************************************)
EXTENDS Naturals, Sequences

CONSTANTS
    Passphrases,
    Kept,           \* what the 256 bytes of koe_account_t keep of a passphrase
    Pins,           \* recovery PINs of the travel mode
    Absent,
    Torn,
    NoAccount,
    MaxCrashes      \* bound on the crashes and moves to another device

ASSUME DataDirAssumption ==
    /\ MaxCrashes \in Nat
    /\ {Absent, Torn, NoAccount} \cap (Passphrases \cup Pins \cup {"registry", "salt"}) = {}
    /\ Absent # Torn
    /\ \A pass \in Passphrases : Kept[pass] # NoAccount

DirFiles == {"accounts", "identity", "travel", "secret"}

(* What a file can hold when it is there.                                  *)
Contents == {Torn, "registry", "salt"} \cup Passphrases \cup Pins

Archives == UNION {[S -> Contents] : S \in SUBSET DirFiles}

ASSUME ArchiveAssumption == {Absent, Torn} \cap Archives = {}

VARIABLES
    files,          \* the content of the files of the data directory
    backup,         \* the archive: the files it holds, or Absent, or Torn
    nested,         \* the directory accounts/ exists
    inDir,          \* the working directory is <data_root>/accounts
    loaded,         \* the registry in memory lists the account
    account,        \* passphrase of the active account in memory, or NoAccount
    unlocked,       \* s_secret_unlocked
    op,             \* the operation under way
    crashes,
    imported,       \* history: an import since the registry was last loaded
    sound           \* history: the latest export found the account open and no
                    \* import behind it, and took every file

disk == <<files, backup, nested, inDir>>
memory == <<loaded, account, unlocked>>
histories == <<imported, sound>>
dirVars == <<disk, memory, op, crashes, histories>>

Whole(content) == content \notin {Absent, Torn}

(* fopen(path, "wb"), fwrite, fclose.                                      *)
Save(f, content) == << <<f, Torn>>, <<f, content>> >>

(* An operation with writes to do; a and u are what it leaves in memory,   *)
(* extract the files that an import has not come to yet.                   *)
Operation(writes, a, u) ==
    [busy |-> TRUE, writes |-> writes, account |-> a, unlocked |-> u, extract |-> {}]

NoOperation == [Operation(<< >>, NoAccount, FALSE) EXCEPT !.busy = FALSE]

Begin(writes, a, u) ==
    /\ ~op.busy
    /\ op' = Operation(writes, a, u)
    /\ UNCHANGED <<disk, memory, crashes, histories>>

DirInit ==
    /\ files = [f \in DirFiles |-> Absent]
    /\ backup = Absent
    /\ nested = FALSE
    /\ inDir \in BOOLEAN
    /\ loaded = FALSE
    /\ account = NoAccount
    /\ unlocked = FALSE
    /\ op = NoOperation
    /\ crashes = 0
    /\ imported = FALSE
    /\ sound = FALSE

-----------------------------------------------------------------------------
(* Accounts.                                                               *)

koe_identity_save(pass) == Save("identity", pass)

koe_account_registry_save == Save("accounts", "registry")

(* koe_identity_load *)
Opens(pass) == files["identity"] = pass

(* koe_init on an empty registry: a new directory, its identity file, then *)
(* the registry.  An identity file without an entry is not seen again.     *)
koe_account_create(pass) ==
    /\ ~op.busy
    /\ files["accounts"] = Absent
    /\ nested' = TRUE
    /\ files' = [files EXCEPT !["identity"] = Absent]
    /\ op' = Operation(koe_identity_save(pass) \o koe_account_registry_save,
                       Kept[pass], unlocked)
    /\ loaded' = TRUE /\ imported' = FALSE
    /\ UNCHANGED <<backup, inDir, account, unlocked, crashes, sound>>

(* By koe_init, which loads the registry first, or by koe_switch_account   *)
(* from the registry in memory.                                            *)
koe_account_activate(pass) ==
    /\ ~op.busy
    /\ \/ loaded /\ UNCHANGED imported
       \/ Whole(files["accounts"]) /\ imported' = FALSE
    /\ Opens(pass)
    /\ account' = Kept[pass] /\ loaded' = TRUE
    /\ UNCHANGED <<disk, unlocked, op, crashes, sound>>

koe_account_deactivate ==
    /\ ~op.busy /\ account # NoAccount
    /\ account' = NoAccount
    /\ UNCHANGED <<disk, loaded, unlocked, op, crashes, histories>>

koe_account_rename ==
    loaded /\ Begin(koe_account_registry_save, account, unlocked)

(* Mutant: the passphrase in memory is not replaced.                       *)
ChangeKeepsMemory(old, new) ==
    /\ account # NoAccount /\ inDir /\ Opens(old)
    /\ Begin(koe_identity_save(new), account, unlocked)

(* Of an active account.  The path lacks the data root, so the file is     *)
(* found only from within the accounts directory.                          *)
koe_account_change_passphrase(old, new) ==
    /\ account # NoAccount /\ inDir /\ Opens(old)
    /\ Begin(koe_identity_save(new), Kept[new], unlocked)

-----------------------------------------------------------------------------
(* Travel mode and the secret partition.                                   *)

koe_travel_mode_enable(pin) == Begin(Save("travel", pin), account, unlocked)

(* The PIN is compared with what was read; of a torn file nothing is read, *)
(* and the comparison is with uninitialised bytes.                         *)
koe_travel_mode_disable(pin) ==
    /\ files["travel"] \in {pin, Torn}
    /\ Begin(<< <<"travel", Absent>> >>, account, unlocked)

(* Any file will do; a missing one is created.                             *)
koe_secret_chat_unlock ==
    Begin(IF files["secret"] = Absent THEN Save("secret", "salt") ELSE << >>,
          account, TRUE)

koe_secret_chat_lock == unlocked /\ Begin(<< >>, account, FALSE)

(* Overwritten with zeros, which leave nothing to read, then removed.      *)
koe_secret_chat_wipe ==
    Begin(IF files["secret"] = Absent THEN << >>
          ELSE << <<"secret", Torn>>, <<"secret", Absent>> >>, account, FALSE)

-----------------------------------------------------------------------------
(* Backup.                                                                 *)

(* Mutant: subdirectories are left out.                                    *)
ArchivedTopLevel == {f \in DirFiles \ {"identity"} : files[f] # Absent}

(* archive_dir: the files that are there, torn ones too.                   *)
Archived == {f \in DirFiles : files[f] # Absent}

(* A file that cannot be opened, is too large or cannot be read is         *)
(* skipped, and the export goes on as if it were not there.  Nothing is    *)
(* written before the archive is truncated, so that is the first step.     *)
koe_backup_export ==
    \E skipped \in SUBSET Archived :
       /\ ~op.busy
       /\ backup' = Torn
       /\ op' = Operation(<< <<"backup", [f \in Archived \ skipped |-> files[f]]>> >>,
                          account, unlocked)
       /\ sound' = (account # NoAccount /\ ~imported /\ skipped = {})
       /\ UNCHANGED <<files, nested, inDir, memory, crashes, imported>>

(* The archive is read and decrypted first.  Memory stays as it is.        *)
koe_backup_import ==
    /\ ~op.busy
    /\ Whole(backup)
    /\ op' = [Operation(<< >>, account, unlocked) EXCEPT !.extract = DOMAIN backup]
    /\ imported' = TRUE
    /\ UNCHANGED <<disk, memory, crashes, sound>>

(* Mutant: a file that exists is not overwritten.                          *)
ExtractMissing(f) ==
    /\ op.busy /\ op.writes = << >> /\ f \in op.extract
    /\ op' = [op EXCEPT !.extract = @ \ {f},
                        !.writes = IF files[f] # Absent THEN << >> ELSE Save(f, backup[f])]
    /\ UNCHANGED <<disk, memory, crashes, histories>>

(* The next file of the archive, which is in the order of the directory.   *)
(* Only one directory is made for it, so without accounts/ the identity    *)
(* file cannot be opened and is skipped.                                   *)
ExtractFile(f) ==
    /\ op.busy /\ op.writes = << >> /\ f \in op.extract
    /\ op' = [op EXCEPT !.extract = @ \ {f},
                        !.writes = IF f = "identity" /\ ~nested THEN << >>
                                   ELSE Save(f, backup[f])]
    /\ UNCHANGED <<disk, memory, crashes, histories>>

-----------------------------------------------------------------------------
(* The steps of an operation.                                              *)

Write ==
    /\ op.busy /\ op.writes # << >>
    /\ LET f == Head(op.writes)[1]
           content == Head(op.writes)[2]
       IN IF f = "backup"
          THEN backup' = content /\ UNCHANGED files
          ELSE files' = [files EXCEPT ![f] = content] /\ UNCHANGED backup
    /\ op' = [op EXCEPT !.writes = Tail(@)]
    /\ UNCHANGED <<nested, inDir, memory, crashes, histories>>

Return ==
    /\ op.busy /\ op.writes = << >> /\ op.extract = {}
    /\ account' = op.account
    /\ unlocked' = op.unlocked
    /\ op' = NoOperation
    /\ UNCHANGED <<disk, loaded, crashes, histories>>

-----------------------------------------------------------------------------
(* Faults.                                                                 *)

(* Memory is lost, the writes that were still to come do not happen.       *)
DirCrash ==
    /\ crashes < MaxCrashes
    /\ loaded' = FALSE /\ account' = NoAccount /\ unlocked' = FALSE
    /\ op' = NoOperation
    /\ crashes' = crashes + 1
    /\ UNCHANGED <<disk, histories>>

(* The backup goes to a device whose data directory is empty.              *)
NewDevice ==
    /\ crashes < MaxCrashes
    /\ ~op.busy
    /\ Whole(backup)
    /\ files' = [f \in DirFiles |-> Absent]
    /\ nested' = FALSE
    /\ loaded' = FALSE /\ account' = NoAccount /\ unlocked' = FALSE
    /\ crashes' = crashes + 1
    /\ UNCHANGED <<backup, inDir, op, histories>>

-----------------------------------------------------------------------------

DirNext ==
    \/ \E pass \in Passphrases : koe_account_create(pass) \/ koe_account_activate(pass)
    \/ \E old, new \in Passphrases : koe_account_change_passphrase(old, new)
    \/ koe_account_deactivate \/ koe_account_rename
    \/ \E pin \in Pins : koe_travel_mode_enable(pin) \/ koe_travel_mode_disable(pin)
    \/ koe_secret_chat_unlock \/ koe_secret_chat_lock \/ koe_secret_chat_wipe
    \/ koe_backup_export
    \/ koe_backup_import
    \/ \E f \in DirFiles : ExtractFile(f)
    \/ Write \/ Return
    \/ DirCrash \/ NewDevice

DirSpec == DirInit /\ [][DirNext]_dirVars

(* koe_account_activate would succeed with some passphrase.                *)
Usable == Whole(files["accounts"]) /\ Whole(files["identity"])

(* An operation goes on unless the program crashes, and the application    *)
(* answers a log-in that fails by importing the backup.                    *)
FairDirSpec ==
    /\ DirSpec
    /\ WF_dirVars(Write \/ Return \/ \E f \in DirFiles : ExtractFile(f))
    /\ SF_dirVars(koe_backup_import /\ ~Usable)

-----------------------------------------------------------------------------

(* What koe_account_t can hold.                                            *)
Accounts == {Kept[pass] : pass \in Passphrases} \cup {NoAccount}

Writes ==
    (DirFiles \X (Contents \cup {Absent})) \cup ({"backup"} \X (Archives \cup {Torn}))

Operations ==
    [busy : BOOLEAN, writes : Seq(Writes), account : Accounts,
     unlocked : BOOLEAN, extract : SUBSET DirFiles]

DirTypeOK ==
    /\ files \in [DirFiles -> Contents \cup {Absent}]
    /\ backup \in Archives \cup {Absent, Torn}
    /\ account \in Accounts
    /\ op \in Operations
    /\ crashes \in 0..MaxCrashes
    /\ nested \in BOOLEAN /\ inDir \in BOOLEAN
    /\ loaded \in BOOLEAN /\ unlocked \in BOOLEAN
    /\ imported \in BOOLEAN /\ sound \in BOOLEAN

(* What is open in memory is on disk: between operations, and as long as   *)
(* no import has replaced the files under it, the registry file is whole   *)
(* and the identity file opens with a passphrase of which koe_account_t    *)
(* holds what fits, whatever passphrase changes, crashes and restores came *)
(* before.  An unlocked secret partition has its file.                     *)
MemoryMatchesFiles ==
    ~op.busy =>
       /\ loaded /\ ~imported => Whole(files["accounts"])
       /\ account # NoAccount /\ ~imported =>
             loaded /\ \E pass \in Passphrases : Opens(pass) /\ Kept[pass] = account
       /\ unlocked => files["secret"] # Absent

(* An archive is enough if it was made with the account open, from the     *)
(* files that the log-in read or later ones, and no file was skipped: it   *)
(* holds a whole identity file and registry, although an export copies     *)
(* whatever it finds.  And no single crash loses the identity once such an *)
(* export has begun and none that is not such follows, although each save  *)
(* truncates the only copy, or the old archive, before it writes.          *)
IdentityRecoverable ==
    sound =>
       /\ Whole(backup) =>
             \A f \in {"accounts", "identity"} : f \in DOMAIN backup /\ Whole(backup[f])
       /\ ~op.busy /\ crashes <= 1 => Whole(files["identity"]) \/ Whole(backup)

(* A restore ends well: on the device itself, an account that cannot be    *)
(* activated any more can be activated again, although crashes cut imports *)
(* off half-way and leave a mixture of old and restored files.  It takes   *)
(* an archive as above, and that no export overwrites it with a worse one. *)
RestoreCompletes ==
    Whole(backup) /\ sound /\ nested /\ ~Usable ~> Usable \/ ~nested \/ ~sound

=============================================================================
