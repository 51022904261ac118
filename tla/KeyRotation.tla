----------------------------- MODULE KeyRotation -----------------------------
(***************************************************************************)
(* The application vault: Fernet key files, the `current` pointer, the     *)
(* process's cached key, and the in-process rotation that re-encrypts      *)
(* every secret column (app/vault/encryption_key_store.py and              *)
(* app/vault/key_rotation_service.py), together with the request threads   *)
(* that store secrets meanwhile (encrypt_secret, then commit).             *)
(*                                                                         *)
(* Durable state (key files, pointer, database) survives ProcessCrash; the cached *)
(* key and every thread's local state do not.  Key material is a number:   *)
(* two keys are equal iff they are the same number, 0 means "no key".      *)
(* A ciphertext is [key, val]: the key it was made with and the secret it  *)
(* holds; key = 0 is an empty column.                                      *)
(***************************************************************************)
EXTENDS Naturals, FiniteSets

CONSTANTS
    Columns,           \* the encrypted columns of portal.db (_ENCRYPTED_COLUMNS)
    Rotators,          \* threads that may run the admin "rotate" route
    Writers,           \* threads that may store a secret
    EnvKeyPresent,     \* is PORTAL_SECRET_ENCRYPTION_KEY set in the environment?
    ActivationFaults,  \* may the pointer write or the activation commit fail?
    MaxVersion,        \* bound on key versions
    MaxKeys,           \* bound on generated key material
    MaxCrashes,        \* bound on process crashes
    MaxWrites          \* bound on stored secrets

ASSUME ConstantsAssumption ==
    /\ EnvKeyPresent \in BOOLEAN
    /\ ActivationFaults \in BOOLEAN
    /\ MaxVersion \in Nat \ {0}
    /\ MaxKeys \in Nat
    /\ MaxCrashes \in Nat
    /\ MaxWrites \in Nat

VARIABLES
    files,     \* key material in fernet_v{N}.key, 0 when the file is absent
    pointer,   \* the version named by keys/current, 0 when absent
    verRows,   \* status of each encryption_key_versions row
    rows,      \* committed ciphertext of each column
    phase,     \* "down", "seeding" (first boot), "up", "refused" (boot failed)
    cacheKey, cacheVer,                          \* _active_material, _active_version
    rotAt, oldKey, oldVer, newKey, newVer, buf,    \* rotate_application_key, per thread
    wpc, wcol, wct,                              \* a secret write, per thread
    keysMade,  \* key material generated so far
    crashes, writes,
    (* History: what was cut or overtaken, for the properties to name.      *)
    stranded,   \* a rotation was cut between re-encryption and activation, or met another
    doomedKeys, \* keys of rotations whose activation failed or that shared a number
    doomedVers, \* the numbers of their key files
    late,       \* per rotation: columns committed by others after it read them
    wlate,      \* per writer: it holds a key that the database has left
    straddled   \* columns whose last commit was made across a re-encryption

disk == <<files, pointer, verRows, rows>>
cache == <<cacheKey, cacheVer>>
rotation == <<rotAt, oldKey, oldVer, newKey, newVer, buf, late>>
writing == <<wpc, wcol, wct, wlate>>
overtaken == <<stranded, doomedKeys, doomedVers, straddled>>
rotationVars == <<disk, phase, cache, rotation, writing, keysMade, crashes, writes, overtaken>>

Versions == 1..MaxVersion
Empty == [key |-> 0, val |-> 0]
EnvKey == 1    \* the key delivered by the environment, when there is one
Ciphertext == [key: Nat, val: Nat]

(* What a rotation holds for a column it has not read yet.                  *)
Unread == [key |-> 0, val |-> MaxWrites + 1]
NothingRead == [c \in Columns |-> Unread]

RotationTypeOK ==
    /\ files \in [Versions -> Nat]
    /\ pointer \in 0..MaxVersion
    /\ verRows \in [Versions -> {"absent", "active", "retired", "pending"}]
    /\ rows \in [Columns -> Ciphertext]
    /\ phase \in {"down", "seeding", "up", "refused"}
    /\ cacheKey \in Nat /\ cacheVer \in 0..MaxVersion
    /\ rotAt \in [Rotators -> {"idle", "begun", "picked", "written", "reading",
                             "committed", "pointed", "failed"}]
    /\ oldKey \in [Rotators -> Nat] /\ newKey \in [Rotators -> Nat]
    /\ oldVer \in [Rotators -> 0..MaxVersion]
    /\ newVer \in [Rotators -> 0..MaxVersion]
    /\ buf \in [Rotators -> [Columns -> Ciphertext]]
    /\ wpc \in [Writers -> {"idle", "encrypted"}]
    /\ wcol \in [Writers -> Columns]
    /\ wct \in [Writers -> Ciphertext]
    /\ keysMade \in Nat
    /\ crashes \in 0..MaxCrashes
    /\ writes \in 0..MaxWrites
    /\ stranded \in BOOLEAN
    /\ doomedKeys \subseteq Nat /\ doomedVers \subseteq 0..MaxVersion
    /\ late \in [Rotators -> SUBSET Columns]
    /\ wlate \in [Writers -> BOOLEAN]
    /\ straddled \subseteq Columns

(* Before the first boot of this version: no key store yet.  Ciphertexts   *)
(* can only exist if a key came from the environment.                      *)
RotationInit ==
    /\ files = [v \in Versions |-> 0]
    /\ pointer = 0
    /\ verRows = [v \in Versions |-> "absent"]
    /\ rows \in [Columns -> IF EnvKeyPresent
                            THEN {Empty, [key |-> EnvKey, val |-> 0]}
                            ELSE {Empty}]
    /\ phase = "down"
    /\ cacheKey = 0 /\ cacheVer = 0
    /\ rotAt = [r \in Rotators |-> "idle"]
    /\ oldKey = [r \in Rotators |-> 0] /\ newKey = [r \in Rotators |-> 0]
    /\ oldVer = [r \in Rotators |-> 0] /\ newVer = [r \in Rotators |-> 0]
    /\ buf = [r \in Rotators |-> NothingRead]
    /\ wpc = [w \in Writers |-> "idle"]
    /\ wcol \in [Writers -> Columns]
    /\ wct = [w \in Writers |-> Empty]
    /\ keysMade = 1
    /\ crashes = 0 /\ writes = 0
    /\ stranded = FALSE /\ doomedKeys = {} /\ doomedVers = {}
    /\ late = [r \in Rotators |-> {}] /\ wlate = [w \in Writers |-> FALSE]
    /\ straddled = {}

-----------------------------------------------------------------------------
(* ensure_encryption_key: the three boot branches.                          *)

(* Mutant: status and source swapped in the _upsert_version_row call.       *)
BootLoadSwapped ==
    /\ phase = "down"
    /\ pointer # 0 /\ files[pointer] # 0
    /\ cacheKey' = files[pointer] /\ cacheVer' = pointer
    /\ verRows' = [verRows EXCEPT ![pointer] = "loaded"]
    /\ phase' = "up"
    /\ UNCHANGED <<files, pointer, rows, rotation, writing, keysMade, crashes,
                   writes, overtaken>>

(* 1. `current` names a key file: load it.                                  *)
BootLoad ==
    /\ phase = "down"
    /\ pointer # 0 /\ files[pointer] # 0
    /\ cacheKey' = files[pointer] /\ cacheVer' = pointer
    /\ verRows' = [verRows EXCEPT ![pointer] = "active"]
    /\ phase' = "up"
    /\ UNCHANGED <<files, pointer, rows, rotation, writing, keysMade, crashes,
                   writes, overtaken>>

(* `current` names a missing file: EncryptionKeyStoreError, startup fails.  *)
BootRefuse ==
    /\ phase = "down"
    /\ pointer # 0 /\ files[pointer] = 0
    /\ phase' = "refused"
    /\ UNCHANGED <<disk, cache, rotation, writing, keysMade, crashes, writes,
                   overtaken>>

(* 2. and 3. No pointer: version 1 takes the environment's key, or a fresh  *)
(* one.  The key file is written before the pointer.                        *)
BootWriteKey ==
    /\ phase = "down"
    /\ pointer = 0
    /\ keysMade' = IF EnvKeyPresent THEN keysMade ELSE keysMade + 1
    /\ files' = [files EXCEPT ![1] = IF EnvKeyPresent THEN EnvKey ELSE keysMade + 1]
    /\ phase' = "seeding"
    /\ UNCHANGED <<pointer, verRows, rows, cache, rotation, writing, crashes,
                   writes, overtaken>>

BootWritePointer ==
    /\ phase = "seeding"
    /\ pointer' = 1
    /\ cacheKey' = files[1] /\ cacheVer' = 1
    /\ verRows' = [verRows EXCEPT ![1] = "active"]
    /\ phase' = "up"
    /\ UNCHANGED <<files, rows, rotation, writing, keysMade, crashes, writes,
                   overtaken>>

(* The process dies: memory and the threads' open transactions are lost.    *)
ProcessCrash ==
    /\ phase \in {"up", "seeding"}
    /\ crashes < MaxCrashes
    /\ crashes' = crashes + 1
    /\ phase' = "down"
    /\ cacheKey' = 0 /\ cacheVer' = 0
    /\ stranded' = (stranded \/ \E r \in Rotators : rotAt[r] = "committed")
    /\ rotAt' = [r \in Rotators |-> "idle"]
    /\ oldKey' = [r \in Rotators |-> 0] /\ newKey' = [r \in Rotators |-> 0]
    /\ oldVer' = [r \in Rotators |-> 0] /\ newVer' = [r \in Rotators |-> 0]
    /\ buf' = [r \in Rotators |-> NothingRead] /\ late' = [r \in Rotators |-> {}]
    /\ wpc' = [w \in Writers |-> "idle"] /\ wct' = [w \in Writers |-> Empty]
    /\ wlate' = [w \in Writers |-> FALSE]
    /\ UNCHANGED <<disk, wcol, keysMade, writes, doomedKeys, doomedVers, straddled>>

-----------------------------------------------------------------------------
(* rotate_application_key.                                                  *)

(* The request is over: its local variables are gone.                       *)
EndRotation(r) ==
    /\ rotAt' = [rotAt EXCEPT ![r] = "idle"]
    /\ oldKey' = [oldKey EXCEPT ![r] = 0] /\ newKey' = [newKey EXCEPT ![r] = 0]
    /\ oldVer' = [oldVer EXCEPT ![r] = 0] /\ newVer' = [newVer EXCEPT ![r] = 0]
    /\ buf' = [buf EXCEPT ![r] = NothingRead]
    /\ late' = [late EXCEPT ![r] = {}]

RotateBegin(r) ==
    /\ phase = "up" /\ rotAt[r] = "idle"
    /\ oldKey' = [oldKey EXCEPT ![r] = cacheKey]
    /\ oldVer' = [oldVer EXCEPT ![r] = cacheVer]
    /\ rotAt' = [rotAt EXCEPT ![r] = "begun"]
    /\ UNCHANGED <<disk, phase, cache, newKey, newVer, buf, late, writing, keysMade,
                   crashes, writes, overtaken>>

(* next_key_version: one more than every version the process, the database *)
(* or the key directory knows.                                             *)
KnownVersions ==
    {cacheVer} \cup {v \in Versions : files[v] # 0 \/ verRows[v] # "absent"}

(* Mutant: the highest known version itself, without the + 1.               *)
LastKeyVersion(v) ==
    /\ \A k \in KnownVersions : k <= v
    /\ v \in KnownVersions

next_key_version(v) ==
    /\ \A k \in KnownVersions : k < v
    /\ v - 1 \in KnownVersions

(* Rotations that hold the number v without having written its file yet:   *)
(* nothing keeps two of them from taking the same one.                      *)
Rivals(r, v) == {q \in Rotators \ {r} : rotAt[q] = "picked" /\ newVer[q] = v}

SharedNumber(r, v) ==
    IF Rivals(r, v) # {} \/ v \in doomedVers
    THEN /\ stranded' = TRUE
         /\ doomedVers' = doomedVers \cup {v}
         /\ doomedKeys' = doomedKeys \cup {keysMade + 1} \cup {newKey[q] : q \in Rivals(r, v)}
    ELSE UNCHANGED <<stranded, doomedVers, doomedKeys>>

RotatePick(r) ==
    /\ rotAt[r] = "begun"
    /\ keysMade < MaxKeys
    /\ \E v \in Versions :
         /\ next_key_version(v)
         /\ newVer' = [newVer EXCEPT ![r] = v]
         /\ SharedNumber(r, v)
    /\ newKey' = [newKey EXCEPT ![r] = keysMade + 1]
    /\ keysMade' = keysMade + 1
    /\ rotAt' = [rotAt EXCEPT ![r] = "picked"]
    /\ UNCHANGED <<disk, phase, cache, oldKey, oldVer, buf, late, writing, crashes,
                   writes, straddled>>

(* write_pending_key: an atomic replace of fernet_v{N+1}.key.               *)
RotateWritePending(r) ==
    /\ rotAt[r] = "picked"
    /\ files' = [files EXCEPT ![newVer[r]] = newKey[r]]
    /\ rotAt' = [rotAt EXCEPT ![r] = "written"]
    /\ UNCHANGED <<pointer, verRows, rows, phase, cache, oldKey, oldVer, newKey,
                   newVer, buf, late, writing, keysMade, crashes, writes, overtaken>>

(* Mutant: the pointer is moved before the re-encryption.                   *)
RotateRegisterAndPoint(r) ==
    /\ rotAt[r] = "written"
    /\ verRows' = [verRows EXCEPT ![newVer[r]] = "pending"]
    /\ pointer' = newVer[r]
    /\ rotAt' = [rotAt EXCEPT ![r] = "reading"]
    /\ UNCHANGED <<files, rows, phase, cache, oldKey, oldVer, newKey,
                   newVer, buf, late, writing, keysMade, crashes, writes, overtaken>>

(* register_pending_version, outside the `try` as well.                     *)
RotateRegister(r) ==
    /\ rotAt[r] = "written"
    /\ verRows' = [verRows EXCEPT ![newVer[r]] = "pending"]
    /\ rotAt' = [rotAt EXCEPT ![r] = "reading"]
    /\ UNCHANGED <<files, pointer, rows, phase, cache, oldKey, oldVer, newKey,
                   newVer, buf, late, writing, keysMade, crashes, writes, overtaken>>

(* Writing the key file or registering the version raises before the `try`:*)
(* the request ends and nothing is cleaned up.                             *)
RotateSetupFails(r) ==
    /\ rotAt[r] \in {"picked", "written"}
    /\ EndRotation(r)
    /\ UNCHANGED <<disk, phase, cache, writing, keysMade, crashes, writes,
                   overtaken>>

(* _reencrypt_field on the value read now; an empty column is skipped.      *)
ReadColumn(r, c) ==
    IF rows[c].key = 0 THEN Empty ELSE [key |-> newKey[r], val |-> rows[c].val]

RotateRead(r, c) ==
    /\ rotAt[r] = "reading"
    /\ buf[r][c] = Unread
    /\ rows[c].key \in {0, oldKey[r]}
    /\ buf' = [buf EXCEPT ![r][c] = ReadColumn(r, c)]
    /\ UNCHANGED <<disk, phase, cache, rotAt, oldKey, oldVer, newKey, newVer, late,
                   writing, keysMade, crashes, writes, overtaken>>

(* A ciphertext that the old key does not open, or a commit that fails:    *)
(* the session rolls back and the clean-up path follows.                   *)
RotateFails(r) ==
    /\ rotAt[r] = "reading"
    /\ \/ \E c \in Columns : buf[r][c] = Unread /\ rows[c].key \notin {0, oldKey[r]}
       \/ \A c \in Columns : buf[r][c] # Unread
    /\ rotAt' = [rotAt EXCEPT ![r] = "failed"]
    /\ UNCHANGED <<disk, phase, cache, oldKey, oldVer, newKey, newVer, buf, late,
                   writing, keysMade, crashes, writes, overtaken>>

(* Mutant: a commit per column, cut after the first one.                    *)
PartialFlush(r, c) ==
    IF buf[r][c].key # 0 /\ c = CHOOSE d \in Columns : TRUE THEN buf[r][c] ELSE rows[c]

(* What the flush writes: every column that was re-encrypted, whatever has *)
(* been committed to it since it was read.                                 *)
Flushed(r, c) == IF buf[r][c].key # 0 THEN buf[r][c] ELSE rows[c]

(* A commit of c as the other rotations see it: it comes late for those     *)
(* that have read c.                                                        *)
LateFor(q, c) == rotAt[q] = "reading" /\ buf[q][c] # Unread

InActivation(q) == rotAt[q] \in {"committed", "pointed"}

RotateCommit(r) ==
    /\ rotAt[r] = "reading"
    /\ \A c \in Columns : buf[r][c] # Unread
    /\ rows' = [c \in Columns |-> Flushed(r, c)]
    /\ rotAt' = [rotAt EXCEPT ![r] = "committed"]
    /\ late' = [q \in Rotators |->
                  IF q = r THEN late[q] ELSE late[q] \cup {c \in Columns : LateFor(q, c)}]
    /\ wlate' = [w \in Writers |-> wlate[w] \/ wpc[w] = "encrypted"]
    /\ straddled' = {c \in straddled \cup late[r] : buf[r][c].key = 0}
    /\ stranded' = (stranded \/ \E q \in Rotators \ {r} : InActivation(q))
    /\ UNCHANGED <<files, pointer, verRows, phase, cache, oldKey, oldVer, newKey, newVer,
                   buf, wpc, wcol, wct, keysMade, crashes, writes, doomedKeys, doomedVers>>

(* activate_new_key_version: the pointer first ...                          *)
RotatePoint(r) ==
    /\ rotAt[r] = "committed"
    /\ pointer' = newVer[r]
    /\ rotAt' = [rotAt EXCEPT ![r] = "pointed"]
    /\ UNCHANGED <<files, verRows, rows, phase, cache, oldKey, oldVer, newKey,
                   newVer, buf, late, writing, keysMade, crashes, writes, overtaken>>

(* ... then the version rows, and the cache once they are committed.        *)
Activated(r) ==
    [v \in Versions |-> IF v = newVer[r] THEN "active"
                        ELSE IF v = oldVer[r] /\ verRows[v] # "absent" THEN "retired"
                        ELSE verRows[v]]

(* Mutant: _set_active_cache forgotten.                                     *)
RotateActivateNoCache(r) ==
    /\ rotAt[r] = "pointed"
    /\ verRows' = Activated(r)
    /\ EndRotation(r)
    /\ UNCHANGED <<files, pointer, rows, phase, cache, writing, keysMade, crashes,
                   writes, overtaken>>

RotateActivate(r) ==
    /\ rotAt[r] = "pointed"
    /\ verRows' = Activated(r)
    /\ cacheKey' = newKey[r] /\ cacheVer' = newVer[r]
    /\ EndRotation(r)
    /\ UNCHANGED <<files, pointer, rows, phase, writing, keysMade, crashes, writes,
                   overtaken>>

(* The pointer write (OSError) or the activation commit (SQLAlchemyError)  *)
(* raises; the same `except` clause as for a failed re-encryption follows. *)
RotateActivationFails(r) ==
    /\ ActivationFaults
    /\ InActivation(r)
    /\ rotAt' = [rotAt EXCEPT ![r] = "failed"]
    /\ stranded' = TRUE
    /\ doomedKeys' = doomedKeys \cup {newKey[r]} /\ doomedVers' = doomedVers \cup {newVer[r]}
    /\ UNCHANGED <<disk, phase, cache, oldKey, oldVer, newKey, newVer, buf, late,
                   writing, keysMade, crashes, writes, straddled>>

(* except Exception: delete_key_file(settings, new_version); raise          *)
RotateDeleteKeyFile(r) ==
    /\ rotAt[r] = "failed"
    /\ files' = [files EXCEPT ![newVer[r]] = 0]
    /\ EndRotation(r)
    /\ UNCHANGED <<pointer, verRows, rows, phase, cache, writing, keysMade, crashes,
                   writes, overtaken>>

-----------------------------------------------------------------------------
(* A request stores a secret: encrypt_secret with the cached key, then the *)
(* commit, with other threads running in between.                          *)

WriterEncrypt(w, c) ==
    /\ phase = "up" /\ wpc[w] = "idle"
    /\ writes < MaxWrites
    /\ writes' = writes + 1
    /\ wct' = [wct EXCEPT ![w] = [key |-> cacheKey, val |-> writes + 1]]
    /\ wcol' = [wcol EXCEPT ![w] = c]
    /\ wpc' = [wpc EXCEPT ![w] = "encrypted"]
    /\ wlate' = [wlate EXCEPT ![w] = stranded \/ \E q \in Rotators : InActivation(q)]
    /\ UNCHANGED <<disk, phase, cache, rotation, keysMade, crashes, overtaken>>

WriterCommit(w) ==
    /\ wpc[w] = "encrypted"
    /\ rows' = [rows EXCEPT ![wcol[w]] = wct[w]]
    /\ wpc' = [wpc EXCEPT ![w] = "idle"]
    /\ wct' = [wct EXCEPT ![w] = Empty]
    /\ late' = [q \in Rotators |->
                  IF LateFor(q, wcol[w]) THEN late[q] \cup {wcol[w]} ELSE late[q]]
    /\ straddled' = IF wlate[w] THEN straddled \cup {wcol[w]} ELSE straddled \ {wcol[w]}
    /\ UNCHANGED <<files, pointer, verRows, phase, cache, rotAt, oldKey, oldVer, newKey,
                   newVer, buf, wcol, wlate, keysMade, crashes, writes, stranded,
                   doomedKeys, doomedVers>>

-----------------------------------------------------------------------------
Boot == BootLoad \/ BootRefuse \/ BootWriteKey \/ BootWritePointer

Rotate(r) ==
    \/ RotateBegin(r) \/ RotatePick(r) \/ RotateWritePending(r)
    \/ RotateRegister(r) \/ RotateSetupFails(r)
    \/ \E c \in Columns : RotateRead(r, c)
    \/ RotateFails(r) \/ RotateCommit(r) \/ RotatePoint(r) \/ RotateActivate(r)
    \/ RotateActivationFails(r) \/ RotateDeleteKeyFile(r)

Write(w) == (\E c \in Columns : WriterEncrypt(w, c)) \/ WriterCommit(w)

RotationNext ==
    \/ Boot \/ ProcessCrash
    \/ \E r \in Rotators : Rotate(r)
    \/ \E w \in Writers : Write(w)

RotationSpec == RotationInit /\ [][RotationNext]_rotationVars

-----------------------------------------------------------------------------
(* Properties.                                                              *)

Known(k) == (EnvKeyPresent /\ k = EnvKey) \/ \E v \in Versions : files[v] = k

(* No secret is lost: every committed ciphertext can be opened with the    *)
(* key in some key file (or the environment's key), whatever writers,      *)
(* concurrent rotations, failed re-encryptions and crashes do.  The only   *)
(* keys that can go are those of an activation that failed, whose clean-up *)
(* deletes the file, and of two rotations that took the same number.       *)
RowsRecoverable ==
    \A c \in Columns : rows[c].key # 0 => Known(rows[c].key) \/ rows[c].key \in doomedKeys

(* The next boot finds its key: keys/current never names a missing file    *)
(* (ensure_encryption_key raises EncryptionKeyStoreError if it does),      *)
(* unless that is the file of such an activation or shared number.         *)
PointerResolves == pointer # 0 => files[pointer] # 0 \/ pointer \in doomedVers

(* The database is under one key at every instant, rotations, roll-back    *)
(* and crash included: the re-encryption is one transaction.  The          *)
(* exceptions are the columns whose last commit straddled a re-encryption: *)
(* a secret encrypted with the cached key of before it and committed       *)
(* after it, or committed after the rotation had read an empty column.     *)
SingleKey ==
    \A c, d \in Columns \ straddled :
        (rows[c].key # 0 /\ rows[d].key # 0) => rows[c].key = rows[d].key

(* Served and not rotating, the cached key opens every column but those,   *)
(* unless a rotation was cut between the re-encryption's commit and the    *)
(* activation, or another one was committed in that window.                *)
AtRestReadable ==
    (phase = "up" /\ ~stranded /\ \A r \in Rotators : rotAt[r] = "idle")
        => \A c \in Columns \ straddled : rows[c].key \in {0, cacheKey}

(* rotate_application_key: "delete orphan file on failure".  A clean-up    *)
(* only deletes a key file under which no committed ciphertext exists.     *)
DeletesOnlyOrphans ==
    [][\A v \in Versions :
          (files[v] # 0 /\ files'[v] = 0) => \A c \in Columns : rows[c].key # files[v]]_rotationVars

(* rotate_fernet_key: "Re-encrypt all Fernet columns with new_key".  The   *)
(* step changes the keys of the stored secrets and never the secrets, but  *)
(* for the columns committed by another thread after it had read them.     *)
RotationPreservesSecrets ==
    [][\A r \in Rotators : RotateCommit(r) =>
          \A c \in Columns \ late[r] : rows'[c].val = rows[c].val]_rotationVars
=============================================================================
