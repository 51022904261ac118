---------------------------- MODULE FileCatalogue ----------------------------
(***************************************************************************)
(* The file catalogue (app/files/service.py, blob_crypto.py and the routes  *)
(* of app/files and app/admin/files.py) in one folder: rows of              *)
(* file_resources and file_versions in SQLite, and one encrypted blob per   *)
(* version on disk.                                                        *)
(*                                                                         *)
(* Routes are coroutines of one event loop and run from one await to the    *)
(* next; an upload hashes, inserts and writes its blob in a thread, between *)
(* any two of their statements.  SQLite's write lock is taken by the first  *)
(* flush and kept until the commit; foreign keys are not enforced, and the  *)
(* next identifier is the highest one in use plus one.                     *)
(***************************************************************************)
EXTENDS Naturals, FiniteSetsExt

CONSTANTS
    Labels,        \* names of files
    Uploaders,     \* uploads at a time
    MaxFiles,      \* bound on the identifiers of files
    MaxVersions,   \* bound on the identifiers of versions
    MaxNumber,     \* bound on version numbers
    MaxCreated,    \* bound on the files ever created
    MaxEdits,      \* bound on what administrators do but to create and delete files
    MaxRekeys,     \* bound on the rotations of the vault's key
    MaxFileFaults  \* bound on crashes, failing writes and failing commits

ASSUME FilesAssumption ==
    /\ MaxFiles \in Nat \ {0} /\ MaxVersions \in Nat \ {0} /\ MaxNumber \in Nat \ {0}
    /\ MaxCreated \in Nat /\ MaxEdits \in Nat /\ MaxRekeys \in Nat /\ MaxFileFaults \in Nat
    /\ Labels # {} /\ "free" \notin Uploaders

VARIABLES
    catalogue,  \* file_resources
    versions,   \* file_versions
    grants,     \* access_grants on a file: the file they were meant for
    betas,      \* file_channel_assignments on a file, likewise
    blobs,      \* the storage directory: the key each blob is encrypted with
    fileKey,    \* the vault's active key, which get_fernet returns
    writeLock,  \* the upload that holds SQLite's write lock
    upAt, up,   \* the uploads
    del,        \* the loop: a route that deletes, or still has blobs to unlink
    created,    \* history: files created so far
    edits, fileFaults,  \* edits and faults so far
    crossed     \* history: paths written while the loop had them to unlink

fileTables == <<catalogue, versions, grants, betas>>
uploadVars == <<writeLock, upAt, up>>
fileCounts == <<created, edits, fileFaults>>
fileVars == <<fileTables, blobs, fileKey, uploadVars, del, fileCounts, crossed>>

FileIds == 1..MaxFiles
VersionIds == 1..MaxVersions
Channels == {"stable", "beta"}
Text == 0  \* a label that is not a number sorts below the numbers
Paths == FileIds \X VersionIds  \* f"{file.id}/{version.id}_{checksum}", one content

(* born is the file the row stands for: the birth-th one created.           *)
FileRow == [label: Labels, active: BOOLEAN, born: 1..MaxCreated]
NoFile == [born |-> 0]
Blind == MaxCreated + 1  \* a grant posted while no file had its identifier
VersionRow == [file: FileIds, no: 0..MaxNumber, ch: Channels, active: BOOLEAN,
               born: 0..MaxCreated]
NoVersion == [file |-> 0]

Upload == [kind: {"deposit", "version", "new"}, label: Labels, file: 0..MaxFiles,
           new: BOOLEAN, no: 0..MaxNumber, ch: Channels, id: 0..MaxVersions,
           born: 0..MaxCreated, renamed: BOOLEAN]
NoUpload == [kind |-> "deposit", label |-> CHOOSE l \in Labels : TRUE, file |-> 0,
             new |-> FALSE, no |-> 0, ch |-> "stable", id |-> 0, born |-> 0,
             renamed |-> FALSE]
Deletion == [at: {"none", "delete", "unlink"}, file: 0..MaxFiles,
             ids: SUBSET VersionIds, paths: SUBSET Paths]
NoDelete == [at |-> "none", file |-> 0, ids |-> {}, paths |-> {}]

FilesTypeOK ==
    /\ catalogue \in [FileIds -> FileRow \cup {NoFile}]
    /\ versions \in [VersionIds -> VersionRow \cup {NoVersion}]
    /\ grants \in [FileIds -> 0..Blind] /\ betas \in [FileIds -> 0..MaxCreated]
    /\ blobs \in [Paths -> 0..(MaxRekeys + 1)]
    /\ fileKey \in 1..(MaxRekeys + 1)
    /\ writeLock \in Uploaders \cup {"free"}
    /\ upAt \in [Uploaders -> {"idle", "find", "create", "number", "store", "write",
                               "stored", "committing", "failed"}]
    /\ up \in [Uploaders -> Upload]
    /\ del \in Deletion
    /\ created \in 0..MaxCreated
    /\ edits \in 0..MaxEdits /\ fileFaults \in 0..MaxFileFaults
    /\ crossed \subseteq Paths

FilesInit ==
    /\ catalogue = [f \in FileIds |-> NoFile]
    /\ versions = [v \in VersionIds |-> NoVersion]
    /\ grants = [f \in FileIds |-> 0] /\ betas = [f \in FileIds |-> 0]
    /\ blobs = [p \in Paths |-> 0]
    /\ fileKey = 1
    /\ writeLock = "free"
    /\ upAt = [t \in Uploaders |-> "idle"]
    /\ up = [t \in Uploaders |-> NoUpload]
    /\ del = NoDelete
    /\ created = 0 /\ edits = 0 /\ fileFaults = 0 /\ crossed = {}

-----------------------------------------------------------------------------
(* Reading the catalogue.                                                   *)

Exists(f) == catalogue[f] # NoFile
VersionsOf(f) == {v \in VersionIds : versions[v].file = f}
Named(l) == {f \in FileIds : Exists(f) /\ catalogue[f].label = l}

(* SQLite's next rowid.                                                     *)
NextFile == Max({0} \cup {f \in FileIds : Exists(f)}) + 1
NextVersion == Max({0} \cup {v \in VersionIds : versions[v] # NoVersion}) + 1

(* Mutant: only stable versions are numbered.                               *)
max_stable_label(f) ==
    Max({0} \cup {versions[v].no : v \in {w \in VersionsOf(f) : versions[w].ch = "stable"}})
max_numeric_version_label(f) == Max({0} \cup {versions[v].no : v \in VersionsOf(f)})

HasLabel(f, n) == \E v \in VersionsOf(f) : versions[v].no = n

(* get_effective_file_version: beta readers choose among both channels.     *)
Candidates(f, ch) ==
    {v \in VersionsOf(f) : versions[v].active /\ (ch = "beta" \/ versions[v].ch = "stable")}
Served(f, ch, v) ==
    /\ v \in Candidates(f, ch)
    /\ \A w \in Candidates(f, ch) : versions[w].no <= versions[v].no

(* A route that writes; with the lock taken by an upload, which needs the   *)
(* loop to finish, it waits five seconds and fails without effect.          *)
LoopWrites == del.at = "none" /\ writeLock = "free"
Edits == LoopWrites /\ edits < MaxEdits /\ edits' = edits + 1
KeepUploads == UNCHANGED <<blobs, fileKey, uploadVars, del, fileFaults, crossed>>

-----------------------------------------------------------------------------
(* Routes that run to their commit without an await.                        *)

NewFile(l, active) == [label |-> l, active |-> active, born |-> created + 1]

admin_files_create(l, active) ==
    /\ LoopWrites /\ Named(l) = {}
    /\ NextFile <= MaxFiles /\ created < MaxCreated
    /\ catalogue' = [catalogue EXCEPT ![NextFile] = NewFile(l, active)]
    /\ created' = created + 1
    /\ UNCHANGED <<versions, grants, betas, edits>> /\ KeepUploads

(* admin_files_edit, files_rename, files_archive: the first relies on the   *)
(* unique constraint where the second looks for the name.                   *)
EditFile(f, l, active) ==
    /\ Edits /\ Exists(f) /\ Named(l) \subseteq {f}
    /\ catalogue' = [catalogue EXCEPT ![f].label = l, ![f].active = active]
    /\ UNCHANGED <<versions, grants, betas, created>> /\ KeepUploads

(* Nothing looks for the file: a grant posted on an identifier that is not  *)
(* in use waits for the file that takes it.                                 *)
create_grant(f) ==
    /\ Edits
    /\ grants' = [grants EXCEPT ![f] = IF Exists(f) THEN catalogue[f].born ELSE Blind]
    /\ UNCHANGED <<catalogue, versions, betas, created>> /\ KeepUploads

delete_grant(f) ==
    /\ Edits /\ grants[f] # 0
    /\ grants' = [grants EXCEPT ![f] = 0]
    /\ UNCHANGED <<catalogue, versions, betas, created>> /\ KeepUploads

assign_beta_channel(f) ==
    /\ Edits /\ Exists(f) /\ betas[f] = 0
    /\ betas' = [betas EXCEPT ![f] = catalogue[f].born]
    /\ UNCHANGED <<catalogue, versions, grants, created>> /\ KeepUploads

delete_channel_assignment(f) ==
    /\ Edits /\ Exists(f) /\ betas[f] # 0
    /\ betas' = [betas EXCEPT ![f] = 0]
    /\ UNCHANGED <<catalogue, versions, grants, created>> /\ KeepUploads

(* Also promote_file_version.                                               *)
set_version_channel(v, ch) ==
    /\ Edits /\ versions[v] # NoVersion /\ versions[v].active
    /\ versions' = [versions EXCEPT ![v].ch = ch]
    /\ UNCHANGED <<catalogue, grants, betas, created>> /\ KeepUploads

archive_file_version(v) ==
    /\ Edits /\ versions[v] # NoVersion
    /\ versions' = [versions EXCEPT ![v].active = FALSE]
    /\ UNCHANGED <<catalogue, grants, betas, created>> /\ KeepUploads

(* History: the uploads of a file of which somebody has set a label by hand *)
(* since they took their number; one of them may have taken a number that   *)
(* an upload after it finds free below its own, and so passes this on.      *)
Renamed(f) == [t \in Uploaders |-> IF up[t].file = f THEN [up[t] EXCEPT !.renamed = TRUE]
                                   ELSE up[t]]

rename_version_label(v, n) ==
    /\ Edits /\ versions[v] # NoVersion
    /\ ~\E w \in VersionsOf(versions[v].file) \ {v} : versions[w].no = n
    /\ versions' = [versions EXCEPT ![v].no = n]
    /\ up' = Renamed(versions[v].file)
    /\ UNCHANGED <<catalogue, grants, betas, created, blobs, fileKey, writeLock, upAt, del,
                   fileFaults, crossed>>

-----------------------------------------------------------------------------
(* admin_files_delete: the versions are loaded, the rows deleted in one     *)
(* transaction, then the blobs are unlinked.                                *)

PathsOf(ids) == {<<versions[v].file, v>> : v \in ids}

(* Mutant: the blobs go first.                                              *)
UnlinkFirst(f) ==
    /\ del.at = "none" /\ Exists(f)
    /\ del' = [at |-> "delete", file |-> f, ids |-> VersionsOf(f), paths |-> {}]
    /\ blobs' = [p \in Paths |-> IF p \in PathsOf(VersionsOf(f)) THEN 0 ELSE blobs[p]]
    /\ UNCHANGED <<fileTables, fileKey, uploadVars, crossed, fileCounts>>

DeleteReads(f) ==
    /\ del.at = "none" /\ Exists(f)
    /\ del' = [at |-> "delete", file |-> f, ids |-> VersionsOf(f),
               paths |-> PathsOf(VersionsOf(f))]
    /\ UNCHANGED <<fileTables, blobs, fileKey, uploadVars, crossed, fileCounts>>

(* Mutant: the grants are left to the foreign key.                          *)
DeleteKeepsGrants ==
    /\ del.at = "delete" /\ writeLock = "free"
    /\ catalogue' = [catalogue EXCEPT ![del.file] = NoFile]
    /\ versions' = [v \in VersionIds |-> IF v \in del.ids THEN NoVersion ELSE versions[v]]
    /\ betas' = [betas EXCEPT ![del.file] = 0]
    /\ del' = IF del.paths = {} THEN NoDelete ELSE [del EXCEPT !.at = "unlink"]
    /\ UNCHANGED <<grants, blobs, fileKey, uploadVars, crossed, fileCounts>>

(* delete_file_resource and the commit: the grants in bulk, the versions    *)
(* and assignments by the cascade of the ORM.                               *)
DeleteCommits ==
    /\ del.at = "delete" /\ writeLock = "free"
    /\ catalogue' = [catalogue EXCEPT ![del.file] = NoFile]
    /\ versions' = [v \in VersionIds |-> IF v \in del.ids THEN NoVersion ELSE versions[v]]
    /\ grants' = [grants EXCEPT ![del.file] = 0]
    /\ betas' = [betas EXCEPT ![del.file] = 0]
    /\ del' = IF del.paths = {} THEN NoDelete ELSE [del EXCEPT !.at = "unlink"]
    /\ UNCHANGED <<blobs, fileKey, uploadVars, crossed, fileCounts>>

(* The upload that has the lock waits for the loop: "database is locked".   *)
DeleteIsLocked ==
    /\ del.at = "delete" /\ writeLock # "free" /\ upAt[writeLock] # "committing"
    /\ del' = NoDelete
    /\ UNCHANGED <<fileTables, blobs, fileKey, uploadVars, crossed, fileCounts>>

_unlink_blob(p) ==
    /\ del.at = "unlink" /\ p \in del.paths
    /\ blobs' = [blobs EXCEPT ![p] = 0]
    /\ del' = IF del.paths = {p} THEN NoDelete ELSE [del EXCEPT !.paths = @ \ {p}]
    /\ UNCHANGED <<fileTables, fileKey, uploadVars, crossed, fileCounts>>

-----------------------------------------------------------------------------
(* Uploads.                                                                 *)

Goes(t, at) == upAt' = [upAt EXCEPT ![t] = at]
KeepCatalogue == UNCHANGED <<fileTables, fileKey>>

(* POST /files/upload.                                                      *)
UploadBegins(t, l) ==
    /\ upAt[t] = "idle" /\ del.at = "none"
    /\ Goes(t, "find")
    /\ up' = [up EXCEPT ![t] = [NoUpload EXCEPT !.label = l]]
    /\ KeepCatalogue /\ UNCHANGED <<blobs, writeLock, del, crossed, fileCounts>>

(* admin_files_upload_version, admin_files_deposit on an existing file: the *)
(* file is read before the upload is.                                       *)
VersionBegins(t, f, n, ch) ==
    /\ upAt[t] = "idle" /\ del.at = "none" /\ Exists(f)
    /\ edits < MaxEdits /\ edits' = edits + 1
    /\ Goes(t, "store")
    /\ up' = [up EXCEPT ![t] = [NoUpload EXCEPT !.kind = "version", !.file = f, !.no = n,
                                !.ch = ch, !.born = catalogue[f].born]]
    /\ KeepCatalogue /\ UNCHANGED <<blobs, writeLock, del, created, fileFaults, crossed>>

(* admin_files_deposit of a new file, which it inserts on the loop.         *)
NewBegins(t, l, n, ch) ==
    /\ upAt[t] = "idle" /\ Edits /\ Named(l) = {}
    /\ NextFile <= MaxFiles /\ created < MaxCreated
    /\ Goes(t, "store")
    /\ writeLock' = t
    /\ created' = created + 1
    /\ up' = [up EXCEPT ![t] = [NoUpload EXCEPT !.kind = "new", !.label = l,
                                !.file = NextFile, !.new = TRUE, !.no = n, !.ch = ch,
                                !.born = created + 1]]
    /\ KeepCatalogue /\ UNCHANGED <<blobs, del, fileFaults, crossed>>

(* deposit_file, in the thread: the active file of that name ...            *)
DepositFinds(t) ==
    /\ upAt[t] = "find"
    /\ \/ \E f \in Named(up[t].label) :
             /\ catalogue[f].active
             /\ up' = [up EXCEPT ![t].file = f, ![t].born = catalogue[f].born]
             /\ Goes(t, "number")
       \/ /\ ~\E f \in Named(up[t].label) : catalogue[f].active
          /\ Goes(t, "create") /\ UNCHANGED up
    /\ KeepCatalogue /\ UNCHANGED <<blobs, writeLock, del, crossed, fileCounts>>

(* ... or a new one; an archived file keeps its name.                       *)
DepositCreates(t) ==
    /\ upAt[t] = "create"
    /\ \/ /\ Named(up[t].label) # {}
          /\ Goes(t, "failed") /\ UNCHANGED <<writeLock, created, up>>
       \/ /\ Named(up[t].label) = {} /\ writeLock = "free"
          /\ NextFile <= MaxFiles /\ created < MaxCreated
          /\ writeLock' = t
          /\ created' = created + 1
          /\ up' = [up EXCEPT ![t].file = NextFile, ![t].new = TRUE, ![t].no = 1,
                                 ![t].born = created + 1]
          /\ Goes(t, "store")
    /\ KeepCatalogue /\ UNCHANGED <<edits, blobs, del, fileFaults, crossed>>

DepositNumbers(t) ==
    /\ upAt[t] = "number"
    /\ max_numeric_version_label(up[t].file) < MaxNumber
    /\ up' = [up EXCEPT ![t].no = max_numeric_version_label(up[t].file) + 1,
                        ![t].renamed = FALSE]
    /\ Goes(t, "store")
    /\ KeepCatalogue /\ UNCHANGED <<blobs, writeLock, del, crossed, fileCounts>>

(* store_file_version up to its first flush.                                *)
StoreInserts(t) ==
    /\ upAt[t] = "store"
    /\ \/ /\ HasLabel(up[t].file, up[t].no)
          /\ Goes(t, "failed") /\ UNCHANGED <<writeLock, up>>
       \/ /\ ~HasLabel(up[t].file, up[t].no) /\ writeLock \in {"free", t}
          /\ NextVersion <= MaxVersions
          /\ writeLock' = t
          /\ up' = [up EXCEPT ![t].id = NextVersion]
          /\ Goes(t, "write")
    /\ KeepCatalogue /\ UNCHANGED <<blobs, del, crossed, fileCounts>>

(* Another upload keeps the lock for longer than the busy timeout.          *)
StoreIsLocked(t) ==
    /\ upAt[t] \in {"create", "store"} /\ writeLock \notin {"free", t}
    /\ Goes(t, "failed")
    /\ KeepCatalogue /\ UNCHANGED <<blobs, writeLock, up, del, crossed, fileCounts>>

(* write_encrypted_blob with the active key, and the flush of its path.     *)
StoreWrites(t) ==
    LET p == <<up[t].file, up[t].id>>
    IN /\ upAt[t] = "write"
       /\ blobs' = [blobs EXCEPT ![p] = fileKey]
       /\ crossed' = crossed \cup ({p} \cap del.paths)
       /\ Goes(t, "stored")
       /\ KeepCatalogue /\ UNCHANGED <<writeLock, up, del, fileCounts>>

StoreFails(t) ==
    /\ upAt[t] = "write" /\ fileFaults < MaxFileFaults
    /\ fileFaults' = fileFaults + 1
    /\ Goes(t, "failed")
    /\ KeepCatalogue /\ UNCHANGED <<edits, blobs, writeLock, up, del, created, crossed>>

(* The loop commits, or has a thread do it for a deposit.                   *)
DepositReturns(t) ==
    /\ upAt[t] = "stored" /\ up[t].kind = "deposit" /\ del.at = "none"
    /\ Goes(t, "committing")
    /\ KeepCatalogue /\ UNCHANGED <<blobs, writeLock, up, del, crossed, fileCounts>>

CommitTurn(t) ==
    \/ upAt[t] = "committing"
    \/ upAt[t] = "stored" /\ up[t].kind # "deposit" /\ del.at = "none"

UploadCommits(t) ==
    LET u == up[t]
    IN /\ CommitTurn(t)
       /\ catalogue' = IF u.new THEN [catalogue EXCEPT ![u.file] =
                                     [label |-> u.label, active |-> TRUE, born |-> u.born]]
                   ELSE catalogue
       /\ versions' = [versions EXCEPT ![u.id] =
                          [file |-> u.file, no |-> u.no, ch |-> u.ch, active |-> TRUE,
                           born |-> u.born]]
       /\ writeLock' = "free"
       /\ Goes(t, "idle")
       /\ up' = [(IF u.kind = "version" \/ u.renamed THEN Renamed(u.file) ELSE up)
                    EXCEPT ![t] = NoUpload]
       /\ UNCHANGED <<grants, betas, fileKey, blobs, del, crossed, fileCounts>>

(* A failed commit is rolled back on the loop.  admin_files_deposit then    *)
(* unlinks the blob; the other routes leave it.                             *)
CommitFails(t) ==
    /\ CommitTurn(t) /\ fileFaults < MaxFileFaults
    /\ fileFaults' = fileFaults + 1
    /\ \/ /\ upAt[t] = "committing"
          /\ Goes(t, "failed") /\ UNCHANGED <<del, writeLock, up>>
       \/ /\ upAt[t] = "stored"
          /\ \/ del' = [NoDelete EXCEPT !.at = "unlink",
                                         !.paths = {<<up[t].file, up[t].id>>}]
             \/ up[t].kind = "version" /\ UNCHANGED del
          /\ writeLock' = "free" /\ Goes(t, "idle") /\ up' = [up EXCEPT ![t] = NoUpload]
    /\ KeepCatalogue /\ UNCHANGED <<edits, blobs, created, crossed>>

(* The except clauses: the rollback runs on the loop.                       *)
UploadRollsBack(t) ==
    /\ upAt[t] = "failed" /\ del.at = "none"
    /\ writeLock' = IF writeLock = t THEN "free" ELSE writeLock
    /\ Goes(t, "idle") /\ up' = [up EXCEPT ![t] = NoUpload]
    /\ KeepCatalogue /\ UNCHANGED <<blobs, del, crossed, fileCounts>>

-----------------------------------------------------------------------------
(* The process stops: what was not committed is gone, blobs stay.           *)
FilesCrash ==
    /\ fileFaults < MaxFileFaults
    /\ fileFaults' = fileFaults + 1
    /\ writeLock' = "free" /\ del' = NoDelete
    /\ upAt' = [t \in Uploaders |-> "idle"] /\ up' = [t \in Uploaders |-> NoUpload]
    /\ UNCHANGED <<fileTables, blobs, fileKey, created, edits, crossed>>

(* rotate_application_key (KeyRotation) re-encrypts the columns of the      *)
(* database and gives get_fernet the new key; of the storage directory it   *)
(* makes a backup.                                                          *)
KeyRotated ==
    /\ fileKey <= MaxRekeys
    /\ fileKey' = fileKey + 1
    /\ UNCHANGED <<fileTables, blobs, uploadVars, del, crossed, fileCounts>>

UploadStep(t) ==
    \/ \E l \in Labels : UploadBegins(t, l)
    \/ \E n \in 0..MaxNumber, ch \in Channels :
          \/ \E f \in FileIds : VersionBegins(t, f, n, ch)
          \/ \E l \in Labels : NewBegins(t, l, n, ch)
    \/ DepositFinds(t) \/ DepositCreates(t) \/ DepositNumbers(t)
    \/ StoreInserts(t) \/ StoreIsLocked(t) \/ StoreWrites(t) \/ StoreFails(t)
    \/ DepositReturns(t) \/ UploadCommits(t) \/ CommitFails(t) \/ UploadRollsBack(t)

FilesNext ==
    \/ \E l \in Labels, active \in BOOLEAN :
          admin_files_create(l, active) \/ \E f \in FileIds : EditFile(f, l, active)
    \/ \E f \in FileIds :
          \/ create_grant(f) \/ delete_grant(f)
          \/ assign_beta_channel(f) \/ delete_channel_assignment(f)
          \/ DeleteReads(f)
    \/ \E v \in VersionIds :
          \/ archive_file_version(v)
          \/ \E ch \in Channels : set_version_channel(v, ch)
          \/ \E n \in 0..MaxNumber : rename_version_label(v, n)
    \/ DeleteCommits \/ DeleteIsLocked
    \/ \E p \in Paths : _unlink_blob(p)
    \/ \E t \in Uploaders : UploadStep(t)
    \/ FilesCrash \/ KeyRotated

FilesSpec == FilesInit /\ [][FilesNext]_fileVars

-----------------------------------------------------------------------------
(* Properties.                                                              *)

(* delete_file_resource: grants "would otherwise survive the delete and     *)
(* reattach to a future id".  A grant or a beta assignment given on a file  *)
(* counts for that file alone, also after it is deleted and its identifier  *)
(* is used again; what opens a file it was not given on is only a grant     *)
(* that was posted on an identifier no file had.                            *)
GrantsMeant ==
    \A f \in FileIds : /\ grants[f] \in {0, catalogue[f].born, Blind}
                       /\ betas[f] \in {0, catalogue[f].born}

(* A version that is in the catalogue has its blob, whatever failed or      *)
(* stopped between the two, except when an upload wrote it while the loop   *)
(* still had that path to unlink.                                           *)
BlobPresent ==
    \A v \in VersionIds : versions[v] # NoVersion =>
        LET p == <<versions[v].file, v>> IN blobs[p] # 0 \/ p \in crossed

(* The versions of another file that had the same identifier.               *)
Inherited(t) == {v \in VersionsOf(up[t].file) : versions[v].born # up[t].born}

(* What POST /files/upload has published is what every reader of the file   *)
(* is served, on both channels, unless the file is deleted meanwhile or an  *)
(* administrator sets a version's label, or uploads one under a label,      *)
(* between the number and the commit of the deposit or of one that commits  *)
(* before it.                                                               *)
LatestServed ==
    [][\A t \in Uploaders, f \in FileIds, v \in VersionIds :
         (/\ upAt[t] = "committing" /\ up[t].file = f /\ up[t].id = v
          /\ versions[v] = NoVersion /\ versions'[v] # NoVersion
          /\ catalogue'[f].born = up[t].born
          /\ ~up[t].renamed /\ Inherited(t) = {})
         => \A ch \in Channels : Served(f, ch, v)']_fileVars

(* tests/test_file_versioning.py:312: a stored version can be read.         *)
StoredFilesOpen ==
    \A v \in VersionIds : versions[v] # NoVersion =>
        LET p == <<versions[v].file, v>> IN blobs[p] = fileKey \/ p \in crossed
=============================================================================
