----------------------------- MODULE Stores_proofs -----------------------------
(***************************************************************************)
(* What is proved of the file catalogue (FileCatalogue), for any number of *)
(* uploads, files and versions, of the hot store (HotStore), for any       *)
(* number of endpoints, requests and rows, and of what a user sees of the  *)
(* files (FileAccess), for any tree of folders, files and grants.          *)
(***************************************************************************)
EXTENDS FileCatalogue, HotStore, FileAccess, FiniteSetTheorems, WellFoundedInduction, TLAPS

(* A set of naturals that is not empty has a least element.                 *)
LEMMA LeastOfSet ==
    ASSUME NEW S, S \subseteq Nat, S # {}
    PROVE  \E m \in S : \A n \in S : m <= n
<1>1. PICK m \in S : \A n \in S : <<n, m>> \notin OpToRel(<, Nat)
  BY WFMin, NatLessThanWellFounded, Zenon
<1>2. \A n \in S : ~(n < m)
  BY <1>1 DEF OpToRel
<1> QED BY <1>2

(* One that is bounded has a greatest one.                                  *)
LEMMA GreatestOfSet ==
    ASSUME NEW S, S # {}, NEW N \in Nat, S \subseteq 0..N
    PROVE  \E m \in S : \A n \in S : n <= m
<1> DEFINE Bounds == {k \in Nat : \A n \in S : n <= k}
<1>1. N \in Bounds
  OBVIOUS
<1>2. PICK m \in Bounds : \A k \in Bounds : m <= k
  <2> HIDE DEF Bounds
  <2>1. Bounds \subseteq Nat
    BY DEF Bounds
  <2>2. Bounds # {}
    BY <1>1
  <2> QED BY <2>1, <2>2, LeastOfSet
<1>3. m \in Nat /\ \A n \in S : n <= m
  BY <1>2
<1>4. m \in S
  <2> SUFFICES ASSUME m \notin S PROVE FALSE
    OBVIOUS
  <2>1. \A n \in S : n < m
    BY <1>3
  <2>2. m # 0 /\ m - 1 \in Nat
    <3>1. PICK n \in S : TRUE
      OBVIOUS
    <3>2. n \in Nat /\ n < m
      BY <3>1, <2>1
    <3> QED BY <3>2, <1>3
  <2>3. m - 1 \in Bounds
    BY <2>1, <2>2
  <2> QED BY <2>3, <1>2, <1>3
<1> QED BY <1>3, <1>4

-----------------------------------------------------------------------------
(* The file catalogue: the invariant.                                       *)

(* What an upload holds: the write lock from its first flush on, a place    *)
(* for its version and for its file, the blob once it is written.           *)
UpFits(t) ==
    LET u == up[t]
        p == <<up[t].file, up[t].id>>
    IN /\ upAt[t] \in {"number", "store", "write", "stored", "committing"} => u.file \in FileIds
       /\ upAt[t] \in {"write", "stored", "committing"} =>
             writeLock = t /\ u.id \in VersionIds /\ versions[u.id] = NoVersion
       /\ upAt[t] \in {"find", "create"} => ~u.new
       /\ u.new => /\ writeLock = t /\ u.file \in FileIds /\ catalogue[u.file] = NoFile
                   /\ u.born # 0
       /\ upAt[t] \in {"stored", "committing"} =>
             /\ blobs[p] # 0 \/ p \in crossed
             /\ del.at = "unlink" /\ p \in del.paths => p \in crossed
UploadsFit == \A t \in Uploaders : UpFits(t)

(* The loop unlinks the blobs of versions that it has found, and that are   *)
(* gone, or written again.                                                  *)
DeletesFound ==
    /\ del.at = "delete" =>
          /\ del.file \in FileIds
          /\ \A p \in del.paths : \E v \in del.ids :
                versions[v] # NoVersion /\ p = <<versions[v].file, v>>
    /\ del.at = "unlink" =>
          \A v \in VersionIds : versions[v] # NoVersion /\ <<versions[v].file, v>> \in del.paths
                                   => <<versions[v].file, v>> \in crossed

FilesInv == FilesTypeOK /\ GrantsMeant /\ BlobPresent /\ UploadsFit /\ DeletesFound

LEMMA FileRowsDiffer ==
    /\ NoFile.born = 0 /\ NoVersion.file = 0 /\ NoUpload.new = FALSE
    /\ NoDelete.at = "none"
    /\ \A a \in FileRow : a # NoFile /\ a.born \in 1..MaxCreated /\ a.label \in Labels
    /\ \A r \in VersionRow : r # NoVersion /\ r.file \in FileIds /\ r.no \in 0..MaxNumber
    /\ NoUpload \in Upload /\ NoDelete \in Deletion
<1>1. \A a \in FileRow : a.born \in 1..MaxCreated /\ a.label \in Labels
  BY DEF FileRow
<1>2. \A r \in VersionRow : r.file \in FileIds /\ r.no \in 0..MaxNumber
  BY DEF VersionRow
<1>3. NoFile.born = 0 /\ NoVersion.file = 0 /\ NoUpload.new = FALSE /\ NoDelete.at = "none"
  BY DEF NoFile, NoVersion, NoUpload, NoDelete
<1>4. NoUpload \in Upload
  <2>1. (CHOOSE l \in Labels : TRUE) \in Labels
    BY FilesAssumption
  <2> QED BY <2>1, FilesAssumption DEF NoUpload, Upload, Channels
<1>5. NoDelete \in Deletion
  BY FilesAssumption DEF NoDelete, Deletion
<1>6. 0 \notin 1..MaxCreated /\ 0 \notin FileIds
  BY FilesAssumption DEF FileIds
<1> QED BY <1>1, <1>2, <1>3, <1>4, <1>5, <1>6

(* One above the largest of some identifiers is none of them.               *)
LEMMA OneAbove ==
    ASSUME NEW S, NEW N \in Nat, S \subseteq 1..N
    PROVE  \E m \in Nat : /\ Max({0} \cup S) = m
                          /\ m + 1 \notin S
                          /\ m + 1 <= N => m + 1 \in 1..N
<1> DEFINE Z == {0} \cup S
<1>1. PICK m \in Z : \A n \in Z : n <= m
  <2>1. Z # {} /\ Z \subseteq 0..N
    OBVIOUS
  <2> HIDE DEF Z
  <2> QED BY <2>1, GreatestOfSet
<1>2. m \in Nat /\ Z \subseteq Nat
  OBVIOUS
<1>3. Max(Z) = m
  <2>1. \A n \in Z : m >= n
    BY <1>1, <1>2
  <2>2. \A k \in Z : (\A n \in Z : k >= n) => k = m
    BY <1>1, <1>2
  <2> HIDE DEF Z
  <2> QED BY <2>1, <2>2 DEF Max
<1>4. m + 1 \notin S
  BY <1>1, <1>2
<1>5. m + 1 <= N => m + 1 \in 1..N
  BY <1>2
<1> QED BY <1>2, <1>3, <1>4, <1>5

LEMMA NextFileFree ==
    ASSUME FilesTypeOK, NextFile <= MaxFiles
    PROVE  NextFile \in FileIds /\ catalogue[NextFile] = NoFile
<1> DEFINE S == {f \in FileIds : Exists(f)}
<1>1. S \subseteq 1..MaxFiles /\ MaxFiles \in Nat
  BY FilesAssumption DEF FileIds
<1>2. NextFile = Max({0} \cup S) + 1
  BY DEF NextFile
<1> HIDE DEF S
<1>3. NextFile \in FileIds /\ NextFile \notin S
  BY <1>1, <1>2, OneAbove DEF FileIds
<1> QED BY <1>3 DEF S, Exists

LEMMA NextVersionFree ==
    ASSUME FilesTypeOK, NextVersion <= MaxVersions
    PROVE  NextVersion \in VersionIds /\ versions[NextVersion] = NoVersion
<1> DEFINE S == {v \in VersionIds : versions[v] # NoVersion}
<1>1. S \subseteq 1..MaxVersions /\ MaxVersions \in Nat
  BY FilesAssumption DEF VersionIds
<1>2. NextVersion = Max({0} \cup S) + 1
  BY DEF NextVersion
<1> HIDE DEF S
<1>3. NextVersion \in VersionIds /\ NextVersion \notin S
  BY <1>1, <1>2, OneAbove DEF VersionIds
<1> QED BY <1>3 DEF S

LEMMA NumberTyped ==
    ASSUME FilesTypeOK, NEW f \in FileIds, max_numeric_version_label(f) < MaxNumber
    PROVE  max_numeric_version_label(f) + 1 \in 0..MaxNumber
<1> DEFINE S == {versions[v].no : v \in VersionsOf(f)} \ {0}
<1>1. S \subseteq 1..MaxNumber /\ MaxNumber \in Nat
  <2> SUFFICES ASSUME NEW v \in VersionIds, versions[v].file = f
               PROVE  versions[v].no \in 0..MaxNumber
    BY FilesAssumption DEF VersionsOf
  <2>1. versions[v] # NoVersion
    BY FileRowsDiffer DEF FileIds
  <2> QED BY <2>1, FileRowsDiffer DEF FilesTypeOK
<1>2. max_numeric_version_label(f) = Max({0} \cup S)
  <2>1. {0} \cup S = {0} \cup {versions[v].no : v \in VersionsOf(f)}
    OBVIOUS
  <2> QED BY <2>1 DEF max_numeric_version_label
<1> HIDE DEF S
<1>3. PICK m \in Nat : Max({0} \cup S) = m
  BY <1>1, OneAbove
<1> QED BY <1>1, <1>2, <1>3

-----------------------------------------------------------------------------
(* The routes of the loop that only edit rows.                              *)

(* Nobody holds the lock: no upload has a version or a file to commit.      *)
LEMMA LoopAlone ==
    ASSUME FilesInv, writeLock = "free", NEW t \in Uploaders
    PROVE  upAt[t] \notin {"write", "stored", "committing"} /\ ~up[t].new
BY FilesAssumption DEF FilesInv, UploadsFit, UpFits

LEMMA BlindNumber == Blind \in 0..Blind /\ 0..MaxCreated \subseteq 0..Blind
BY FilesAssumption DEF Blind

(* An edit changes neither which versions there are nor whose they are, and *)
(* gives no grant for another file.                                         *)
LEMMA EditKeeps ==
    ASSUME FilesInv, LoopWrites, KeepUploads,
           catalogue' \in [FileIds -> FileRow \cup {NoFile}],
           grants' \in [FileIds -> 0..Blind], betas' \in [FileIds -> 0..MaxCreated],
           GrantsMeant',
           created' \in 0..MaxCreated, edits' \in 0..MaxEdits, UNCHANGED versions
    PROVE  FilesInv'
<1> USE DEF KeepUploads, uploadVars, LoopWrites
<1>1. FilesTypeOK'
  BY DEF FilesInv, FilesTypeOK
<1>2. BlobPresent'
  BY DEF FilesInv, BlobPresent
<1>3. ASSUME NEW t \in Uploaders PROVE UpFits(t)'
  BY <1>3, LoopAlone DEF FilesInv, UploadsFit, UpFits
<1>4. DeletesFound'
  BY DEF FilesInv, DeletesFound
<1> QED BY <1>1, <1>2, <1>3, <1>4 DEF FilesInv, UploadsFit

LEMMA EditsCounted ==
    ASSUME FilesTypeOK, edits < MaxEdits, edits' = edits + 1 PROVE edits' \in 0..MaxEdits
BY FilesAssumption DEF FilesTypeOK

LEMMA FaultsCounted ==
    ASSUME FilesTypeOK, fileFaults < MaxFileFaults, fileFaults' = fileFaults + 1
    PROVE  fileFaults' \in 0..MaxFileFaults
BY FilesAssumption DEF FilesTypeOK

LEMMA NewFileTyped ==
    ASSUME FilesTypeOK, created < MaxCreated, NEW l \in Labels, NEW active \in BOOLEAN
    PROVE  /\ NewFile(l, active) \in FileRow /\ NewFile(l, active).born = created + 1
           /\ created + 1 \in 1..MaxCreated
BY FilesAssumption DEF FilesTypeOK, NewFile, FileRow

LEMMA CreateInv ==
    ASSUME FilesInv, NEW l \in Labels, NEW active \in BOOLEAN, admin_files_create(l, active)
    PROVE  FilesInv'
<1> USE DEF FilesInv
<1> DEFINE f == NextFile
           row == NewFile(l, active)
<1>1. f \in FileIds /\ catalogue[f] = NoFile
  BY NextFileFree DEF admin_files_create
<1>2. row \in FileRow /\ created + 1 \in 0..MaxCreated
  BY NewFileTyped DEF admin_files_create
<1>3. catalogue' = [catalogue EXCEPT ![f] = row] /\ created' = created + 1
      /\ UNCHANGED <<versions, grants, betas, edits>> /\ KeepUploads /\ LoopWrites
  BY DEF admin_files_create
<1> HIDE DEF f, row
<1>4. catalogue' \in [FileIds -> FileRow \cup {NoFile}]
  BY <1>1, <1>2, <1>3 DEF FilesTypeOK
<1>5. GrantsMeant'
  BY <1>1, <1>3, FileRowsDiffer DEF GrantsMeant, FilesTypeOK
<1> QED BY <1>2, <1>3, <1>4, <1>5, EditKeeps DEF FilesTypeOK

LEMMA EditFileInv ==
    ASSUME FilesInv, NEW f \in FileIds, NEW l \in Labels, NEW active \in BOOLEAN,
           EditFile(f, l, active)
    PROVE  FilesInv'
<1> USE DEF FilesInv
<1> DEFINE row == [catalogue[f] EXCEPT !.label = l, !.active = active]
<1>1. catalogue[f] \in FileRow
  BY DEF EditFile, Exists, FilesTypeOK
<1>2. row \in FileRow /\ row.born = catalogue[f].born
  BY <1>1 DEF FileRow
<1>3. catalogue' = [catalogue EXCEPT ![f] = row] /\ KeepUploads /\ LoopWrites
      /\ UNCHANGED <<versions, grants, betas, created>> /\ edits' \in 0..MaxEdits
  BY EditsCounted DEF EditFile, Edits
<1> HIDE DEF row
<1>4. catalogue' \in [FileIds -> FileRow \cup {NoFile}]
  BY <1>2, <1>3 DEF FilesTypeOK
<1>5. GrantsMeant'
  BY <1>2, <1>3, <1>4 DEF GrantsMeant, FilesTypeOK
<1> QED BY <1>3, <1>4, <1>5, EditKeeps DEF FilesTypeOK

LEMMA GrantingInv ==
    ASSUME FilesInv, NEW f \in FileIds,
           create_grant(f) \/ delete_grant(f) \/ assign_beta_channel(f)
              \/ delete_channel_assignment(f)
    PROVE  FilesInv'
<1> USE DEF FilesInv
<1>0. Exists(f) => catalogue[f].born \in 0..MaxCreated
  BY FileRowsDiffer DEF Exists, FilesTypeOK
<1>1. LoopWrites /\ KeepUploads /\ edits' \in 0..MaxEdits
      /\ UNCHANGED <<catalogue, versions, created>>
  BY EditsCounted
     DEF Edits, create_grant, delete_grant, assign_beta_channel, delete_channel_assignment
<1>2. ASSUME NEW n, n \in {0, catalogue[f].born, Blind}, n \in 0..Blind,
             grants' = [grants EXCEPT ![f] = n], UNCHANGED betas
      PROVE  grants' \in [FileIds -> 0..Blind] /\ betas' \in [FileIds -> 0..MaxCreated]
             /\ GrantsMeant'
  BY <1>1, <1>2 DEF GrantsMeant, FilesTypeOK
<1>3. ASSUME NEW n, n \in {0, catalogue[f].born}, n \in 0..MaxCreated,
             betas' = [betas EXCEPT ![f] = n], UNCHANGED grants
      PROVE  grants' \in [FileIds -> 0..Blind] /\ betas' \in [FileIds -> 0..MaxCreated]
             /\ GrantsMeant'
  BY <1>1, <1>3 DEF GrantsMeant, FilesTypeOK
<1>4. grants' \in [FileIds -> 0..Blind] /\ betas' \in [FileIds -> 0..MaxCreated]
      /\ GrantsMeant'
  <2>1. CASE create_grant(f)
    <3>1. CASE Exists(f)
      BY <2>1, <3>1, <1>0, <1>2, BlindNumber DEF create_grant
    <3>2. CASE ~Exists(f)
      BY <2>1, <3>2, <1>2, BlindNumber DEF create_grant
    <3> QED BY <3>1, <3>2
  <2>2. CASE delete_grant(f)
    <3>1. 0 \in 0..Blind
      BY FilesAssumption DEF Blind
    <3>2. grants' = [grants EXCEPT ![f] = 0] /\ UNCHANGED betas
      BY <2>2 DEF delete_grant
    <3> QED BY <3>1, <3>2, <1>2
  <2>3. CASE assign_beta_channel(f)
    <3>1. /\ betas' = [betas EXCEPT ![f] = catalogue[f].born] /\ UNCHANGED grants
          /\ catalogue[f].born \in 0..MaxCreated
      BY <2>3, <1>0 DEF assign_beta_channel
    <3> QED BY <3>1, <1>3
  <2>4. CASE delete_channel_assignment(f)
    <3>1. betas' = [betas EXCEPT ![f] = 0] /\ UNCHANGED grants /\ 0 \in 0..MaxCreated
      BY <2>4, FilesAssumption DEF delete_channel_assignment
    <3> QED BY <3>1, <1>3
  <2> QED BY <2>1, <2>2, <2>3, <2>4
<1> QED BY <1>1, <1>4, EditKeeps DEF FilesTypeOK

(* A version's row changes, but not its file.                               *)
LEMMA VersionEdited ==
    ASSUME FilesInv, LoopWrites, NEW v \in VersionIds, NEW row \in VersionRow,
           versions[v] # NoVersion, row.file = versions[v].file,
           versions' = [versions EXCEPT ![v] = row],
           up' \in [Uploaders -> Upload],
           \A t \in Uploaders : /\ up'[t].file = up[t].file /\ up'[t].new = up[t].new
                                /\ up'[t].id = up[t].id /\ up'[t].born = up[t].born,
           UNCHANGED <<catalogue, grants, betas, created, blobs, fileKey, writeLock, upAt, del,
                       fileFaults, crossed>>,
           edits' \in 0..MaxEdits
    PROVE  FilesInv'
<1> USE DEF LoopWrites
<1>0. \A w \in VersionIds : /\ versions'[w] # NoVersion <=> versions[w] # NoVersion
                            /\ versions[w] # NoVersion => versions'[w].file = versions[w].file
  BY FileRowsDiffer DEF FilesInv, FilesTypeOK
<1>1. FilesTypeOK'
  BY DEF FilesInv, FilesTypeOK
<1>2. BlobPresent'
  BY <1>0 DEF FilesInv, BlobPresent
<1>3. ASSUME NEW t \in Uploaders PROVE UpFits(t)'
  BY <1>3, LoopAlone DEF FilesInv, UploadsFit, UpFits
<1>4. DeletesFound'
  BY DEF FilesInv, DeletesFound
<1>5. GrantsMeant'
  BY DEF FilesInv, GrantsMeant
<1> QED BY <1>1, <1>2, <1>3, <1>4, <1>5 DEF FilesInv, UploadsFit

LEMMA RenamedTyped ==
    ASSUME FilesTypeOK, NEW f
    PROVE  /\ Renamed(f) \in [Uploaders -> Upload]
           /\ \A t \in Uploaders : /\ Renamed(f)[t].file = up[t].file
                                   /\ Renamed(f)[t].new = up[t].new
                                   /\ Renamed(f)[t].id = up[t].id
                                   /\ Renamed(f)[t].born = up[t].born
<1>1. \A u \in Upload : /\ [u EXCEPT !.renamed = TRUE] \in Upload
                        /\ [u EXCEPT !.renamed = TRUE].file = u.file
                        /\ [u EXCEPT !.renamed = TRUE].new = u.new
                        /\ [u EXCEPT !.renamed = TRUE].id = u.id
                        /\ [u EXCEPT !.renamed = TRUE].born = u.born
  BY DEF Upload
<1>2. \A t \in Uploaders : up[t] \in Upload
  BY DEF FilesTypeOK
<1> QED BY <1>1, <1>2 DEF Renamed

LEMMA EditVersionInv ==
    ASSUME FilesInv, NEW v \in VersionIds,
           \/ archive_file_version(v)
           \/ \E ch \in Channels : set_version_channel(v, ch)
           \/ \E n \in 0..MaxNumber : rename_version_label(v, n)
    PROVE  FilesInv'
<1> USE DEF FilesInv
<1>0. FilesTypeOK /\ up \in [Uploaders -> Upload]
  BY DEF FilesTypeOK
<1>1. versions[v] \in VersionRow /\ versions[v] # NoVersion
  BY DEF archive_file_version, set_version_channel, rename_version_label, FilesTypeOK
<1>2. LoopWrites /\ edits' \in 0..MaxEdits
      /\ UNCHANGED <<catalogue, grants, betas, created, blobs, fileKey, writeLock, upAt, del,
                     fileFaults, crossed>>
  BY EditsCounted DEF Edits, archive_file_version, set_version_channel, rename_version_label,
                      KeepUploads, uploadVars
<1>3. /\ up' \in [Uploaders -> Upload]
      /\ \A t \in Uploaders : /\ up'[t].file = up[t].file /\ up'[t].new = up[t].new
                              /\ up'[t].id = up[t].id /\ up'[t].born = up[t].born
  BY <1>0, RenamedTyped
     DEF archive_file_version, set_version_channel, rename_version_label, KeepUploads, uploadVars
<1>4. \E row \in VersionRow : /\ row.file = versions[v].file
                              /\ versions' = [versions EXCEPT ![v] = row]
  <2>1. CASE archive_file_version(v)
    <3> DEFINE row == [versions[v] EXCEPT !.active = FALSE]
    <3>1. row \in VersionRow /\ row.file = versions[v].file
      BY <1>1 DEF VersionRow
    <3>2. versions' = [versions EXCEPT ![v] = row]
      BY <2>1 DEF archive_file_version
    <3> QED BY <3>1, <3>2
  <2>2. ASSUME NEW ch \in Channels, set_version_channel(v, ch)
        PROVE  \E row \in VersionRow : /\ row.file = versions[v].file
                                       /\ versions' = [versions EXCEPT ![v] = row]
    <3> DEFINE row == [versions[v] EXCEPT !.ch = ch]
    <3>1. row \in VersionRow /\ row.file = versions[v].file
      BY <1>1 DEF VersionRow
    <3>2. versions' = [versions EXCEPT ![v] = row]
      BY <2>2 DEF set_version_channel
    <3> QED BY <3>1, <3>2
  <2>3. ASSUME NEW n \in 0..MaxNumber, rename_version_label(v, n)
        PROVE  \E row \in VersionRow : /\ row.file = versions[v].file
                                       /\ versions' = [versions EXCEPT ![v] = row]
    <3> DEFINE row == [versions[v] EXCEPT !.no = n]
    <3>1. row \in VersionRow /\ row.file = versions[v].file
      BY <1>1 DEF VersionRow
    <3>2. versions' = [versions EXCEPT ![v] = row]
      BY <2>3 DEF rename_version_label
    <3> QED BY <3>1, <3>2
  <2> QED BY <2>1, <2>2, <2>3
<1> QED BY <1>1, <1>2, <1>3, <1>4, VersionEdited

-----------------------------------------------------------------------------
(* The uploads.                                                             *)

UploadStages == {"idle", "find", "create", "number", "store", "write", "stored", "committing",
                 "failed"}

(* An upload goes on; it touches the lock only when nobody else has it.     *)
LEMMA UploadMoves ==
    ASSUME FilesInv, NEW t \in Uploaders, NEW at \in UploadStages, NEW u \in Upload,
           upAt' = [upAt EXCEPT ![t] = at], up' = [up EXCEPT ![t] = u],
           \/ UNCHANGED writeLock
           \/ writeLock \in {"free", t} /\ writeLock' \in {"free", t},
           UpFits(t)',
           UNCHANGED <<fileTables, fileKey, blobs, del, crossed>>,
           created' \in 0..MaxCreated, edits' \in 0..MaxEdits,
           fileFaults' \in 0..MaxFileFaults
    PROVE  FilesInv'
<1> USE DEF fileTables
<1>1. FilesTypeOK'
  BY DEF FilesInv, FilesTypeOK, UploadStages
<1>2. BlobPresent' /\ DeletesFound' /\ GrantsMeant'
  BY DEF FilesInv, BlobPresent, DeletesFound, GrantsMeant
<1>3. ASSUME NEW s \in Uploaders \ {t} PROVE UpFits(s)'
  <2>1. upAt'[s] = upAt[s] /\ up'[s] = up[s]
    BY DEF FilesInv, FilesTypeOK
  <2>2. writeLock = s => writeLock' = s
    BY FilesAssumption
  <2>3. UpFits(s)
    BY DEF FilesInv, UploadsFit
  <2> QED BY <2>1, <2>2, <2>3 DEF UpFits
<1> QED BY <1>1, <1>2, <1>3 DEF FilesInv, UploadsFit

(* The fields that an upload sets.                                          *)
LEMMA UploadFields ==
    ASSUME NEW u \in Upload
    PROVE  /\ \A l \in Labels : /\ [NoUpload EXCEPT !.label = l] \in Upload
                                /\ [NoUpload EXCEPT !.label = l].new = FALSE
           /\ \A i \in 0..MaxVersions :
                 /\ [u EXCEPT !.id = i] \in Upload /\ [u EXCEPT !.id = i].id = i
                 /\ [u EXCEPT !.id = i].new = u.new /\ [u EXCEPT !.id = i].file = u.file
           /\ \A n \in 0..MaxNumber :
                 /\ [u EXCEPT !.no = n, !.renamed = FALSE] \in Upload
                 /\ [u EXCEPT !.no = n, !.renamed = FALSE].new = u.new
                 /\ [u EXCEPT !.no = n, !.renamed = FALSE].file = u.file
           /\ \A f \in FileIds, b \in 0..MaxCreated :
                 /\ [u EXCEPT !.file = f, !.new = TRUE, !.no = 1, !.born = b] \in Upload
                 /\ [u EXCEPT !.file = f, !.new = TRUE, !.no = 1, !.born = b].file = f
<1>1. \A l \in Labels : /\ [NoUpload EXCEPT !.label = l] \in Upload
                        /\ [NoUpload EXCEPT !.label = l].new = FALSE
  <2>1. \A l \in Labels : [NoUpload EXCEPT !.label = l] \in Upload
    <3>1. \A w \in Upload, l \in Labels : [w EXCEPT !.label = l] \in Upload
      BY DEF Upload
    <3> QED BY <3>1, FileRowsDiffer
  <2>2. \A l \in Labels : [NoUpload EXCEPT !.label = l].new = FALSE
    BY DEF NoUpload
  <2> QED BY <2>1, <2>2
<1>2. 1 \in 0..MaxNumber /\ FileIds \subseteq 0..MaxFiles
  BY FilesAssumption DEF FileIds
<1> QED BY <1>1, <1>2 DEF Upload

(* What an upload of a version, of a new file, and a deposit are about.     *)
LEMMA VersionUpload ==
    ASSUME NEW w \in Upload, NEW f \in FileIds, NEW n \in 0..MaxNumber, NEW ch \in Channels,
           NEW b \in 0..MaxCreated
    PROVE  [w EXCEPT !.kind = "version", !.file = f, !.no = n, !.ch = ch, !.born = b]
              \in Upload
<1>1. FileIds \subseteq 0..MaxFiles
  BY FilesAssumption DEF FileIds
<1>2. [w EXCEPT !.kind = "version", !.file = f, !.no = n, !.ch = ch, !.born = b] \in Upload
  BY <1>1 DEF Upload
<1> QED BY <1>2 DEF Upload

LEMMA NewUpload ==
    ASSUME NEW w \in Upload, NEW l \in Labels, NEW f \in FileIds, NEW n \in 0..MaxNumber,
           NEW ch \in Channels, NEW b \in 0..MaxCreated
    PROVE  [w EXCEPT !.kind = "new", !.label = l, !.file = f, !.new = TRUE, !.no = n,
                     !.ch = ch, !.born = b] \in Upload
<1>1. FileIds \subseteq 0..MaxFiles
  BY FilesAssumption DEF FileIds
<1>2. [w EXCEPT !.kind = "new", !.label = l, !.file = f, !.new = TRUE, !.no = n,
                !.ch = ch, !.born = b] \in Upload
  BY <1>1 DEF Upload
<1> QED BY <1>2 DEF Upload

LEMMA DepositUpload ==
    ASSUME NEW w \in Upload, NEW f \in FileIds, NEW b \in 0..MaxCreated
    PROVE  /\ [w EXCEPT !.file = f, !.born = b] \in Upload
           /\ [w EXCEPT !.file = f, !.born = b].new = w.new
<1>1. FileIds \subseteq 0..MaxFiles
  BY FilesAssumption DEF FileIds
<1>2. [w EXCEPT !.file = f, !.born = b] \in Upload
  BY <1>1 DEF Upload
<1> QED BY <1>2 DEF Upload

(* An upload that begins holds no lock.                                     *)
LEMMA UploadBeginsInv ==
    ASSUME FilesInv, NEW t \in Uploaders, NEW l \in Labels, UploadBegins(t, l)
    PROVE  FilesInv'
<1> DEFINE u == [NoUpload EXCEPT !.label = l]
<1>1. u \in Upload /\ u.new = FALSE
  BY UploadFields, FileRowsDiffer
<1>2. upAt' = [upAt EXCEPT ![t] = "find"] /\ up' = [up EXCEPT ![t] = u]
      /\ UNCHANGED <<writeLock, fileTables, fileKey, blobs, del, crossed, created, edits,
                     fileFaults>>
  BY DEF UploadBegins, Goes, KeepCatalogue, fileCounts
<1> HIDE DEF u
<1>3. upAt'[t] = "find" /\ up'[t] = u
  BY <1>2 DEF FilesInv, FilesTypeOK
<1>4. UpFits(t)'
  BY <1>1, <1>3 DEF UpFits
<1>5. created' \in 0..MaxCreated /\ edits' \in 0..MaxEdits /\ fileFaults' \in 0..MaxFileFaults
  BY <1>2 DEF FilesInv, FilesTypeOK
<1> QED BY <1>1, <1>2, <1>4, <1>5, UploadMoves DEF UploadStages

LEMMA VersionBeginsInv ==
    ASSUME FilesInv, NEW t \in Uploaders, NEW f \in FileIds, NEW n \in 0..MaxNumber,
           NEW ch \in Channels, VersionBegins(t, f, n, ch)
    PROVE  FilesInv'
<1> DEFINE u == [NoUpload EXCEPT !.kind = "version", !.file = f, !.no = n,
                                !.ch = ch, !.born = catalogue[f].born]
<1>1. u \in Upload /\ u.new = FALSE /\ u.file = f
  <2>1. catalogue[f].born \in 0..MaxCreated
    BY FileRowsDiffer, FilesAssumption DEF FilesInv, FilesTypeOK, VersionBegins, Exists
  <2>2. NoUpload \in Upload
    BY FileRowsDiffer
  <2>3. u \in Upload
    BY <2>1, <2>2, VersionUpload
  <2>4. u.file = f /\ u.new = NoUpload.new
    BY <2>2 DEF Upload
  <2> QED BY <2>3, <2>4, FileRowsDiffer
<1>2. upAt' = [upAt EXCEPT ![t] = "store"] /\ up' = [up EXCEPT ![t] = u]
      /\ UNCHANGED <<writeLock, fileTables, fileKey, blobs, del, crossed, created,
                     fileFaults>>
      /\ edits < MaxEdits /\ edits' = edits + 1
  BY DEF VersionBegins, Goes, KeepCatalogue
<1> HIDE DEF u
<1>3. upAt'[t] = "store" /\ up'[t] = u
  BY <1>2 DEF FilesInv, FilesTypeOK
<1>4. UpFits(t)'
  BY <1>1, <1>3 DEF UpFits
<1>5. created' \in 0..MaxCreated /\ edits' \in 0..MaxEdits /\ fileFaults' \in 0..MaxFileFaults
  BY <1>2, EditsCounted DEF FilesInv, FilesTypeOK
<1> QED BY <1>1, <1>2, <1>4, <1>5, UploadMoves DEF UploadStages

LEMMA NewBeginsInv ==
    ASSUME FilesInv, NEW t \in Uploaders, NEW l \in Labels, NEW n \in 0..MaxNumber,
           NEW ch \in Channels, NewBegins(t, l, n, ch)
    PROVE  FilesInv'
<1> DEFINE f == NextFile
           u == [NoUpload EXCEPT !.kind = "new", !.label = l, !.file = f, !.new = TRUE,
                                 !.no = n, !.ch = ch, !.born = created + 1]
<1>0. f \in FileIds /\ catalogue[f] = NoFile
  BY NextFileFree DEF NewBegins, FilesInv
<1>1. created + 1 \in 0..MaxCreated
  BY FilesAssumption DEF NewBegins, FilesInv, FilesTypeOK
<1>2. upAt' = [upAt EXCEPT ![t] = "store"] /\ up' = [up EXCEPT ![t] = u]
      /\ writeLock = "free" /\ writeLock' = t /\ created' = created + 1
      /\ UNCHANGED <<fileTables, fileKey, blobs, del, crossed, fileFaults>>
      /\ edits < MaxEdits /\ edits' = edits + 1
  BY DEF NewBegins, Goes, KeepCatalogue, Edits, LoopWrites
<1> HIDE DEF f
<1>3. u \in Upload /\ u.file = f /\ u.born # 0
  <2>1. u \in Upload
    BY <1>0, <1>1, FileRowsDiffer, NewUpload
  <2>2. u.file = f /\ u.born = created + 1 /\ created \in Nat
    BY FileRowsDiffer DEF Upload, FilesInv, FilesTypeOK
  <2> QED BY <2>1, <2>2
<1> HIDE DEF u
<1>4. upAt'[t] = "store" /\ up'[t] = u /\ catalogue' = catalogue
  BY <1>2 DEF FilesInv, FilesTypeOK, fileTables
<1>5. UpFits(t)'
  BY <1>0, <1>2, <1>3, <1>4 DEF UpFits
<1>6. created' \in 0..MaxCreated /\ edits' \in 0..MaxEdits /\ fileFaults' \in 0..MaxFileFaults
  BY <1>1, <1>2, EditsCounted DEF FilesInv, FilesTypeOK
<1> QED BY <1>2, <1>3, <1>5, <1>6, UploadMoves DEF UploadStages

(* A stage that changes neither the upload's row nor the lock, and asks for *)
(* no more than the one before it.                                          *)
LEMMA UploadStays ==
    ASSUME FilesInv, NEW t \in Uploaders, NEW at \in {"create", "failed", "committing"},
           at = "committing" => upAt[t] = "stored",
           at = "create" => upAt[t] = "find",
           upAt' = [upAt EXCEPT ![t] = at],
           UNCHANGED <<up, writeLock, fileTables, fileKey, blobs, del, crossed, created, edits>>,
           fileFaults' \in 0..MaxFileFaults
    PROVE  FilesInv'
<1>1. up[t] \in Upload /\ up' = [up EXCEPT ![t] = up[t]] /\ upAt'[t] = at
  BY DEF FilesInv, FilesTypeOK
<1>2. UpFits(t)'
  BY <1>1 DEF FilesInv, UploadsFit, UpFits, fileTables
<1>3. created' \in 0..MaxCreated /\ edits' \in 0..MaxEdits
  BY DEF FilesInv, FilesTypeOK
<1> QED BY <1>1, <1>2, <1>3, UploadMoves DEF UploadStages

LEMMA DepositFindsInv ==
    ASSUME FilesInv, NEW t \in Uploaders, DepositFinds(t)
    PROVE  FilesInv'
<1>0. up[t] \in Upload /\ fileFaults \in 0..MaxFileFaults
  BY DEF FilesInv, FilesTypeOK
<1>1. UNCHANGED <<writeLock, fileTables, fileKey, blobs, del, crossed, created, edits, fileFaults>>
      /\ upAt[t] = "find"
  BY DEF DepositFinds, KeepCatalogue, fileCounts
<1>2. CASE Goes(t, "create") /\ UNCHANGED up
  BY <1>0, <1>1, <1>2, UploadStays DEF Goes
<1>3. ASSUME NEW f \in Named(up[t].label), Goes(t, "number"),
             up' = [up EXCEPT ![t].file = f, ![t].born = catalogue[f].born]
      PROVE  FilesInv'
  <2> DEFINE u == [up[t] EXCEPT !.file = f, !.born = catalogue[f].born]
  <2>1. f \in FileIds /\ catalogue[f].born \in 0..MaxCreated
    BY FileRowsDiffer DEF Named, Exists, FilesInv, FilesTypeOK
  <2>2. u \in Upload /\ u.new = up[t].new /\ u.file = f
    <3>1. u \in Upload /\ u.new = up[t].new
      BY <1>0, <2>1, DepositUpload
    <3>2. u.file = f
      BY <1>0 DEF Upload
    <3> QED BY <3>1, <3>2
  <2>3. up' = [up EXCEPT ![t] = u] /\ upAt' = [upAt EXCEPT ![t] = "number"]
    BY <1>3 DEF Goes
  <2> HIDE DEF u
  <2>4. upAt'[t] = "number" /\ up'[t] = u
    BY <2>3 DEF FilesInv, FilesTypeOK
  <2>5. ~up[t].new
    BY <1>1 DEF FilesInv, UploadsFit, UpFits
  <2>6. UpFits(t)'
    BY <2>1, <2>2, <2>4, <2>5 DEF UpFits
  <2>7. created' \in 0..MaxCreated /\ edits' \in 0..MaxEdits /\ fileFaults' \in 0..MaxFileFaults
    BY <1>1 DEF FilesInv, FilesTypeOK
  <2> QED BY <1>1, <2>2, <2>3, <2>6, <2>7, UploadMoves DEF UploadStages
<1> QED BY <1>2, <1>3 DEF DepositFinds

LEMMA DepositCreatesInv ==
    ASSUME FilesInv, NEW t \in Uploaders, DepositCreates(t)
    PROVE  FilesInv'
<1>0. up[t] \in Upload /\ fileFaults \in 0..MaxFileFaults
  BY DEF FilesInv, FilesTypeOK
<1>1. UNCHANGED <<fileTables, fileKey, blobs, del, crossed, edits, fileFaults>>
  BY DEF DepositCreates, KeepCatalogue
<1>2. CASE Goes(t, "failed") /\ UNCHANGED <<writeLock, created, up>>
  BY <1>0, <1>1, <1>2, UploadStays DEF Goes
<1>3. ASSUME writeLock = "free", NextFile <= MaxFiles, created < MaxCreated,
             writeLock' = t, created' = created + 1, Goes(t, "store"),
             up' = [up EXCEPT ![t].file = NextFile, ![t].new = TRUE, ![t].no = 1,
                              ![t].born = created + 1]
      PROVE  FilesInv'
  <2> DEFINE f == NextFile
             u == [up[t] EXCEPT !.file = f, !.new = TRUE, !.no = 1, !.born = created + 1]
  <2>0. f \in FileIds /\ catalogue[f] = NoFile
    BY <1>3, NextFileFree DEF FilesInv
  <2>1. created + 1 \in 0..MaxCreated
    BY <1>3, FilesAssumption DEF FilesInv, FilesTypeOK
  <2>2. up' = [up EXCEPT ![t] = u] /\ upAt' = [upAt EXCEPT ![t] = "store"]
    BY <1>3 DEF Goes
  <2> HIDE DEF f
  <2>3. u \in Upload
    BY <1>0, <2>0, <2>1, UploadFields
  <2>4. u.file = f /\ u.born # 0
    <3>1. u.file = f /\ u.born = created + 1 /\ created \in Nat
      BY <1>0 DEF Upload, FilesInv, FilesTypeOK
    <3> QED BY <3>1
  <2> HIDE DEF u
  <2>5. upAt'[t] = "store" /\ up'[t] = u /\ catalogue' = catalogue
    BY <1>1, <2>2 DEF FilesInv, FilesTypeOK, fileTables
  <2>6. UpFits(t)'
    BY <1>3, <2>0, <2>4, <2>5 DEF UpFits
  <2>7. created' \in 0..MaxCreated /\ edits' \in 0..MaxEdits /\ fileFaults' \in 0..MaxFileFaults
    BY <1>1, <1>3, <2>1 DEF FilesInv, FilesTypeOK
  <2> QED BY <1>1, <1>3, <2>2, <2>3, <2>6, <2>7, UploadMoves DEF UploadStages
<1> QED BY <1>2, <1>3 DEF DepositCreates

LEMMA DepositNumbersInv ==
    ASSUME FilesInv, NEW t \in Uploaders, DepositNumbers(t)
    PROVE  FilesInv'
<1> DEFINE n == max_numeric_version_label(up[t].file) + 1
           u == [up[t] EXCEPT !.no = n, !.renamed = FALSE]
<1>0. up[t] \in Upload /\ UpFits(t) /\ FilesTypeOK /\ upAt[t] = "number"
  BY DEF FilesInv, FilesTypeOK, UploadsFit, DepositNumbers
<1>1. up[t].file \in FileIds
  BY <1>0 DEF UpFits
<1>2. n \in 0..MaxNumber
  BY <1>0, <1>1, NumberTyped DEF DepositNumbers
<1>3. up' = [up EXCEPT ![t] = u] /\ upAt' = [upAt EXCEPT ![t] = "store"]
      /\ UNCHANGED <<writeLock, fileTables, fileKey, blobs, del, crossed, created, edits,
                     fileFaults>>
  BY DEF DepositNumbers, Goes, KeepCatalogue, fileCounts
<1> HIDE DEF n
<1>4. u \in Upload
  BY <1>0, <1>2, UploadFields
<1>5. u.file = up[t].file /\ u.new = up[t].new /\ u.born = up[t].born
  BY <1>0 DEF Upload
<1> HIDE DEF u
<1>6. upAt'[t] = "store" /\ up'[t] = u
  BY <1>3 DEF FilesInv, FilesTypeOK
<1>7. UpFits(t)'
  BY <1>0, <1>1, <1>3, <1>5, <1>6 DEF UpFits, fileTables
<1>8. created' \in 0..MaxCreated /\ edits' \in 0..MaxEdits /\ fileFaults' \in 0..MaxFileFaults
  BY <1>3 DEF FilesInv, FilesTypeOK
<1> QED BY <1>3, <1>4, <1>7, <1>8, UploadMoves DEF UploadStages

LEMMA StoreInsertsInv ==
    ASSUME FilesInv, NEW t \in Uploaders, StoreInserts(t)
    PROVE  FilesInv'
<1>0. up[t] \in Upload /\ UpFits(t) /\ upAt[t] = "store" /\ fileFaults \in 0..MaxFileFaults
      /\ up[t].file \in FileIds
  BY DEF FilesInv, FilesTypeOK, UploadsFit, UpFits, StoreInserts
<1>1. UNCHANGED <<fileTables, fileKey, blobs, del, crossed, created, edits, fileFaults>>
  BY DEF StoreInserts, KeepCatalogue, fileCounts
<1>2. CASE Goes(t, "failed") /\ UNCHANGED <<writeLock, up>>
  BY <1>0, <1>1, <1>2, UploadStays DEF Goes
<1>3. ASSUME writeLock \in {"free", t}, NextVersion <= MaxVersions, writeLock' = t,
             up' = [up EXCEPT ![t].id = NextVersion], Goes(t, "write")
      PROVE  FilesInv'
  <2> DEFINE v == NextVersion
             u == [up[t] EXCEPT !.id = v]
  <2>0. v \in VersionIds /\ versions[v] = NoVersion
    BY <1>3, NextVersionFree DEF FilesInv
  <2>1. up' = [up EXCEPT ![t] = u] /\ upAt' = [upAt EXCEPT ![t] = "write"]
    BY <1>3 DEF Goes
  <2> HIDE DEF v
  <2>2. u \in Upload
    <3>1. v \in 0..MaxVersions
      BY <2>0, FilesAssumption DEF VersionIds
    <3> QED BY <1>0, <3>1, UploadFields
  <2>3. u.file = up[t].file /\ u.new = up[t].new /\ u.id = v /\ u.born = up[t].born
    BY <1>0 DEF Upload
  <2> HIDE DEF u
  <2>4. upAt'[t] = "write" /\ up'[t] = u /\ catalogue' = catalogue /\ versions' = versions
    BY <1>1, <2>1 DEF FilesInv, FilesTypeOK, fileTables
  <2>5. UpFits(t)'
    BY <1>0, <1>3, <2>0, <2>3, <2>4 DEF UpFits
  <2>6. created' \in 0..MaxCreated /\ edits' \in 0..MaxEdits /\ fileFaults' \in 0..MaxFileFaults
    BY <1>1 DEF FilesInv, FilesTypeOK
  <2> QED BY <1>1, <1>3, <2>1, <2>2, <2>5, <2>6, UploadMoves DEF UploadStages
<1> QED BY <1>2, <1>3 DEF StoreInserts

LEMMA StageOnlyInv ==
    ASSUME FilesInv, NEW t \in Uploaders,
           \/ StoreIsLocked(t) \/ StoreFails(t) \/ DepositReturns(t)
    PROVE  FilesInv'
<1>0. FilesTypeOK /\ fileFaults \in 0..MaxFileFaults
  BY DEF FilesInv, FilesTypeOK
<1>1. CASE StoreIsLocked(t)
  BY <1>0, <1>1, UploadStays DEF StoreIsLocked, Goes, KeepCatalogue, fileCounts
<1>2. CASE StoreFails(t)
  BY <1>0, <1>2, UploadStays, FaultsCounted DEF StoreFails, Goes, KeepCatalogue
<1>3. CASE DepositReturns(t)
  BY <1>0, <1>3, UploadStays DEF DepositReturns, Goes, KeepCatalogue, fileCounts
<1> QED BY <1>1, <1>2, <1>3

(* Only the holder of the lock is writing, so the blob that it writes is no *)
(* other upload's, and a version of that path is written in the loop's time *)
(* or not at all.                                                           *)
LEMMA StoreWritesInv ==
    ASSUME FilesInv, NEW t \in Uploaders, StoreWrites(t)
    PROVE  FilesInv'
<1> DEFINE p == <<up[t].file, up[t].id>>
<1>0. UpFits(t) /\ upAt[t] = "write" /\ up[t] \in Upload
  BY DEF FilesInv, FilesTypeOK, UploadsFit, StoreWrites
<1>1. p \in Paths /\ writeLock = t
  BY <1>0 DEF UpFits, Paths
<1>2. blobs' = [blobs EXCEPT ![p] = fileKey] /\ crossed' = crossed \cup ({p} \cap del.paths)
      /\ upAt' = [upAt EXCEPT ![t] = "stored"]
      /\ UNCHANGED <<catalogue, versions, grants, betas, fileKey, writeLock, up, del, created,
                     edits, fileFaults>>
  BY DEF StoreWrites, Goes, KeepCatalogue, fileTables, fileCounts
<1>3. fileKey \in 1..(MaxRekeys + 1) /\ MaxRekeys \in Nat
  BY FilesAssumption DEF FilesInv, FilesTypeOK
<1> HIDE DEF p
<1>4. FilesTypeOK'
  BY <1>1, <1>2, <1>3 DEF FilesInv, FilesTypeOK
<1>5. \A q \in Paths : (blobs[q] # 0 \/ q \in crossed) => (blobs'[q] # 0 \/ q \in crossed')
  BY <1>1, <1>2, <1>3 DEF FilesInv, FilesTypeOK
<1>6. BlobPresent'
  <2> SUFFICES ASSUME NEW v \in VersionIds, versions[v] # NoVersion
               PROVE  LET q == <<versions[v].file, v>> IN blobs'[q] # 0 \/ q \in crossed'
    BY <1>2 DEF BlobPresent
  <2>1. <<versions[v].file, v>> \in Paths
    BY FileRowsDiffer DEF FilesInv, FilesTypeOK, Paths
  <2> QED BY <1>5, <2>1 DEF FilesInv, BlobPresent
<1>7. UpFits(t)'
  <2>1. upAt'[t] = "stored" /\ blobs'[p] # 0 /\ (p \in del.paths => p \in crossed')
    BY <1>1, <1>2, <1>3 DEF FilesInv, FilesTypeOK
  <2> QED BY <1>0, <1>2, <2>1 DEF UpFits, p
<1>8. ASSUME NEW s \in Uploaders \ {t} PROVE UpFits(s)'
  <2>1. upAt'[s] = upAt[s] /\ up'[s] = up[s]
    BY <1>2 DEF FilesInv, FilesTypeOK
  <2>2. UpFits(s)
    BY DEF FilesInv, UploadsFit
  <2>3. upAt[s] \notin {"write", "stored", "committing"} /\ ~up[s].new
    BY <1>1, <2>2 DEF UpFits
  <2> QED BY <1>2, <2>1, <2>2, <2>3 DEF UpFits
<1>9. DeletesFound' /\ GrantsMeant'
  BY <1>2 DEF FilesInv, DeletesFound, GrantsMeant
<1> QED BY <1>4, <1>6, <1>7, <1>8, <1>9 DEF FilesInv, UploadsFit

(* An upload ends: nobody else is writing when it gives the lock back.      *)
LEMMA UploadEnds ==
    ASSUME FilesInv, NEW t \in Uploaders, FilesTypeOK', GrantsMeant', BlobPresent', DeletesFound',
           upAt' = [upAt EXCEPT ![t] = "idle"], up'[t] = NoUpload,
           \A s \in Uploaders \ {t} :
              /\ up'[s].file = up[s].file /\ up'[s].new = up[s].new
              /\ up'[s].id = up[s].id /\ up'[s].born = up[s].born,
           \/ /\ UNCHANGED <<writeLock, catalogue, versions>> /\ del' = del
           \/ writeLock = t,
           UNCHANGED <<blobs, crossed>>
    PROVE  FilesInv'
<1>1. UpFits(t)'
  <2>1. upAt'[t] = "idle" /\ ~up'[t].new
    BY FileRowsDiffer DEF FilesInv, FilesTypeOK
  <2> QED BY <2>1 DEF UpFits
<1>2. ASSUME NEW s \in Uploaders \ {t} PROVE UpFits(s)'
  <2>1. UpFits(s) /\ upAt'[s] = upAt[s]
    BY DEF FilesInv, UploadsFit, FilesTypeOK
  <2>2. CASE writeLock = t
    <3>1. upAt[s] \notin {"write", "stored", "committing"} /\ ~up[s].new
      BY <2>1, <2>2 DEF UpFits
    <3> QED BY <2>1, <3>1 DEF UpFits
  <2>3. CASE UNCHANGED <<writeLock, catalogue, versions>> /\ del' = del
    BY <2>1, <2>3 DEF UpFits
  <2> QED BY <2>2, <2>3
<1> QED BY <1>1, <1>2 DEF FilesInv, UploadsFit

LEMMA UploadRollsBackInv ==
    ASSUME FilesInv, NEW t \in Uploaders, UploadRollsBack(t)
    PROVE  FilesInv'
<1>1. upAt' = [upAt EXCEPT ![t] = "idle"] /\ up' = [up EXCEPT ![t] = NoUpload]
      /\ UNCHANGED <<catalogue, versions, grants, betas, fileKey, blobs, del, crossed, created,
                     edits, fileFaults>>
      /\ writeLock' = IF writeLock = t THEN "free" ELSE writeLock
  BY DEF UploadRollsBack, Goes, KeepCatalogue, fileTables, fileCounts
<1>2. FilesTypeOK'
  BY <1>1, FileRowsDiffer DEF FilesInv, FilesTypeOK
<1>3. GrantsMeant' /\ BlobPresent' /\ DeletesFound'
  BY <1>1 DEF FilesInv, GrantsMeant, BlobPresent, DeletesFound
<1>4. up'[t] = NoUpload /\ \A s \in Uploaders \ {t} : up'[s] = up[s]
  BY <1>1 DEF FilesInv, FilesTypeOK
<1> QED BY <1>1, <1>2, <1>3, <1>4, UploadEnds

(* What an upload that can commit holds.                                    *)
LEMMA Committing ==
    ASSUME FilesInv, NEW t \in Uploaders, CommitTurn(t)
    PROVE  /\ writeLock = t /\ up[t] \in Upload
           /\ up[t].file \in FileIds /\ up[t].id \in VersionIds
           /\ versions[up[t].id] = NoVersion
           /\ up[t].new => catalogue[up[t].file] = NoFile /\ up[t].born \in 1..MaxCreated
           /\ LET p == <<up[t].file, up[t].id>>
              IN /\ p \in Paths
                 /\ blobs[p] # 0 \/ p \in crossed
                 /\ del.at = "unlink" /\ p \in del.paths => p \in crossed
<1>1. up[t] \in Upload /\ UpFits(t) /\ upAt[t] \in {"stored", "committing"}
  BY DEF FilesInv, FilesTypeOK, UploadsFit, CommitTurn
<1>2. up[t].born \in 0..MaxCreated
  BY <1>1 DEF Upload
<1> QED BY <1>1, <1>2, FilesAssumption DEF UpFits, Paths

LEMMA UploadCommitsInv ==
    ASSUME FilesInv, NEW t \in Uploaders, UploadCommits(t)
    PROVE  FilesInv'
<1> DEFINE f == up[t].file
           v == up[t].id
           p == <<f, v>>
           new == [label |-> up[t].label, active |-> TRUE, born |-> up[t].born]
           row == [file |-> f, no |-> up[t].no, ch |-> up[t].ch, active |-> TRUE,
                   born |-> up[t].born]
           ups == IF up[t].kind = "version" \/ up[t].renamed THEN Renamed(f) ELSE up
<1>0. CommitTurn(t)
  BY DEF UploadCommits
<1>1. /\ catalogue' = IF up[t].new THEN [catalogue EXCEPT ![f] = new] ELSE catalogue
      /\ versions' = [versions EXCEPT ![v] = row]
      /\ writeLock' = "free" /\ upAt' = [upAt EXCEPT ![t] = "idle"]
      /\ up' = [ups EXCEPT ![t] = NoUpload]
      /\ UNCHANGED <<grants, betas, fileKey, blobs, del, crossed, created, edits, fileFaults>>
  BY DEF UploadCommits, Goes, fileCounts
<1>2. /\ writeLock = t /\ up[t] \in Upload /\ f \in FileIds /\ v \in VersionIds
      /\ versions[v] = NoVersion
      /\ up[t].new => catalogue[f] = NoFile /\ up[t].born \in 1..MaxCreated
      /\ p \in Paths /\ (blobs[p] # 0 \/ p \in crossed)
      /\ del.at = "unlink" /\ p \in del.paths => p \in crossed
  BY <1>0, Committing
<1>3. row \in VersionRow /\ row.file = f
  BY <1>2 DEF Upload, VersionRow
<1>4. up[t].new => new \in FileRow
  BY <1>2 DEF Upload, FileRow
<1>5. /\ ups \in [Uploaders -> Upload]
      /\ \A s \in Uploaders : /\ ups[s].file = up[s].file /\ ups[s].new = up[s].new
                              /\ ups[s].id = up[s].id /\ ups[s].born = up[s].born
  <2>1. up \in [Uploaders -> Upload] /\ FilesTypeOK
    BY DEF FilesInv, FilesTypeOK
  <2> QED BY <2>1, RenamedTyped
<1> HIDE DEF f, v, new, row, ups
<1>6. FilesTypeOK'
  <2>1. catalogue' \in [FileIds -> FileRow \cup {NoFile}]
    BY <1>1, <1>2, <1>4 DEF FilesInv, FilesTypeOK
  <2>2. versions' \in [VersionIds -> VersionRow \cup {NoVersion}]
    BY <1>1, <1>2, <1>3 DEF FilesInv, FilesTypeOK
  <2>3. up' \in [Uploaders -> Upload]
    BY <1>1, <1>5, FileRowsDiffer
  <2> QED BY <1>1, <2>1, <2>2, <2>3 DEF FilesInv, FilesTypeOK
<1>7. GrantsMeant'
  BY <1>1, <1>2, FileRowsDiffer DEF FilesInv, FilesTypeOK, GrantsMeant
<1>8. /\ versions'[v].file = f
      /\ \A w \in VersionIds \ {v} : versions'[w] = versions[w]
  BY <1>1, <1>2, <1>3 DEF FilesInv, FilesTypeOK
<1>9. BlobPresent'
  <2> SUFFICES ASSUME NEW w \in VersionIds, versions'[w] # NoVersion
               PROVE  blobs[<<versions'[w].file, w>>] # 0 \/ <<versions'[w].file, w>> \in crossed
    BY <1>1 DEF BlobPresent
  <2>1. CASE w = v
    BY <1>2, <1>8, <2>1
  <2>2. CASE w # v
    BY <1>8, <2>2 DEF FilesInv, BlobPresent
  <2> QED BY <2>1, <2>2
<1>10. DeletesFound'
  <2>1. ASSUME del.at = "delete", NEW q \in del.paths
        PROVE  \E w \in del.ids : versions'[w] # NoVersion /\ q = <<versions'[w].file, w>>
    <3>1. PICK w \in del.ids : versions[w] # NoVersion /\ q = <<versions[w].file, w>>
      BY <2>1 DEF FilesInv, DeletesFound
    <3>2. w \in VersionIds \ {v}
      BY <1>2, <3>1 DEF FilesInv, FilesTypeOK, Deletion
    <3> QED BY <1>8, <3>1, <3>2
  <2>2. ASSUME del.at = "unlink", NEW w \in VersionIds, versions'[w] # NoVersion,
               <<versions'[w].file, w>> \in del.paths
        PROVE  <<versions'[w].file, w>> \in crossed
    <3>1. CASE w = v
      BY <1>2, <1>8, <2>2, <3>1
    <3>2. CASE w # v
      BY <1>8, <2>2, <3>2 DEF FilesInv, DeletesFound
    <3> QED BY <3>1, <3>2
  <2>3. del' = del /\ crossed' = crossed /\ (del.at = "delete" => del.file \in FileIds)
    BY <1>1 DEF FilesInv, DeletesFound
  <2> QED BY <2>1, <2>2, <2>3 DEF DeletesFound
<1>11. up'[t] = NoUpload /\ \A s \in Uploaders \ {t} : up'[s] = ups[s]
  BY <1>1, <1>5
<1> QED BY <1>1, <1>2, <1>5, <1>6, <1>7, <1>9, <1>10, <1>11, UploadEnds

LEMMA CommitFailsInv ==
    ASSUME FilesInv, NEW t \in Uploaders, CommitFails(t)
    PROVE  FilesInv'
<1> DEFINE p == <<up[t].file, up[t].id>>
           own == [NoDelete EXCEPT !.at = "unlink", !.paths = {p}]
<1>0. CommitTurn(t) /\ fileFaults' \in 0..MaxFileFaults /\ FilesTypeOK
  BY FaultsCounted DEF CommitFails, FilesInv
<1>1. UNCHANGED <<catalogue, versions, grants, betas, fileKey, blobs, crossed, created, edits>>
  BY DEF CommitFails, KeepCatalogue, fileTables
<1>2. CASE upAt[t] = "committing" /\ Goes(t, "failed") /\ UNCHANGED <<del, writeLock, up>>
  BY <1>0, <1>1, <1>2, UploadStays DEF Goes, fileTables
<1>3. ASSUME upAt[t] = "stored", del' = own \/ UNCHANGED del, writeLock' = "free",
             Goes(t, "idle"), up' = [up EXCEPT ![t] = NoUpload]
      PROVE  FilesInv'
  <2>1. /\ writeLock = t /\ p \in Paths /\ up[t].id \in VersionIds
        /\ versions[up[t].id] = NoVersion
    BY <1>0, Committing
  <2>2. own \in Deletion /\ own.at = "unlink" /\ own.paths = {p}
    <3>1. NoDelete \in Deletion
      BY FileRowsDiffer
    <3> QED BY <2>1, <3>1 DEF Deletion
  <2>3. \A v \in VersionIds : versions[v] # NoVersion => <<versions[v].file, v>> # p
    BY <2>1
  <2> HIDE DEF own, p
  <2>4. FilesTypeOK'
    BY <1>0, <1>1, <1>3, <2>2, FileRowsDiffer DEF FilesTypeOK, Goes
  <2>5. GrantsMeant' /\ BlobPresent'
    BY <1>1 DEF FilesInv, GrantsMeant, BlobPresent
  <2>6. DeletesFound'
    <3>1. CASE del' = own
      BY <1>1, <2>2, <2>3, <3>1 DEF DeletesFound
    <3>2. CASE del' = del
      BY <1>1, <3>2 DEF FilesInv, DeletesFound
    <3> QED BY <1>3, <3>1, <3>2
  <2>7. up'[t] = NoUpload /\ \A s \in Uploaders \ {t} : up'[s] = up[s]
    BY <1>3 DEF FilesInv, FilesTypeOK
  <2> QED BY <1>1, <1>3, <2>1, <2>4, <2>5, <2>6, <2>7, UploadEnds DEF Goes
<1> QED BY <1>2, <1>3 DEF CommitFails

-----------------------------------------------------------------------------
(* The route that deletes, and the loop that unlinks.                       *)

LEMMA DeleteReadsInv ==
    ASSUME FilesInv, NEW f \in FileIds, DeleteReads(f)
    PROVE  FilesInv'
<1> DEFINE ids == VersionsOf(f)
           d == [at |-> "delete", file |-> f, ids |-> ids, paths |-> PathsOf(ids)]
<1>1. /\ del' = d /\ del.at = "none"
      /\ UNCHANGED <<catalogue, versions, grants, betas, blobs, fileKey, writeLock, upAt, up,
                     crossed, created, edits, fileFaults>>
  BY DEF DeleteReads, fileTables, uploadVars, fileCounts
<1>2. ids \subseteq VersionIds /\ \A v \in ids : versions[v] # NoVersion
  BY FileRowsDiffer, FilesAssumption DEF VersionsOf, FileIds
<1>3. PathsOf(ids) \subseteq Paths
  BY DEF PathsOf, VersionsOf, Paths
<1>4. d \in Deletion
  BY <1>2, <1>3, FilesAssumption DEF Deletion, FileIds
<1>5. DeletesFound'
  BY <1>1, <1>2 DEF DeletesFound, PathsOf
<1> HIDE DEF d
<1>6. FilesTypeOK' /\ GrantsMeant' /\ BlobPresent'
  BY <1>1, <1>4 DEF FilesInv, FilesTypeOK, GrantsMeant, BlobPresent
<1>7. d.at = "delete"
  BY DEF d
<1>8. UploadsFit'
  BY <1>1, <1>7 DEF FilesInv, UploadsFit, UpFits
<1> QED BY <1>5, <1>6, <1>8 DEF FilesInv

(* Rows go that were found, with their grants; their blobs stay to unlink.  *)
LEMMA DeleteCommitsInv ==
    ASSUME FilesInv, DeleteCommits
    PROVE  FilesInv'
<1> DEFINE d == IF del.paths = {} THEN NoDelete ELSE [del EXCEPT !.at = "unlink"]
<1>1. /\ del.at = "delete" /\ writeLock = "free" /\ del \in Deletion
      /\ catalogue' = [catalogue EXCEPT ![del.file] = NoFile]
      /\ versions' = [v \in VersionIds |-> IF v \in del.ids THEN NoVersion ELSE versions[v]]
      /\ grants' = [grants EXCEPT ![del.file] = 0] /\ betas' = [betas EXCEPT ![del.file] = 0]
      /\ del' = d
      /\ UNCHANGED <<blobs, fileKey, writeLock, upAt, up, crossed, created, edits, fileFaults>>
  BY DEF DeleteCommits, uploadVars, fileCounts, FilesInv, FilesTypeOK
<1>2. del.file \in FileIds /\ del.paths \subseteq Paths
  BY <1>1 DEF FilesInv, DeletesFound, Deletion
<1>3. /\ d \in Deletion
      /\ \/ d = NoDelete
         \/ d.at = "unlink" /\ d.paths = del.paths
  BY <1>1, FileRowsDiffer DEF Deletion
<1> HIDE DEF d
<1>4. FilesTypeOK'
  <2>1. /\ catalogue' \in [FileIds -> FileRow \cup {NoFile}]
        /\ versions' \in [VersionIds -> VersionRow \cup {NoVersion}]
        /\ grants' \in [FileIds -> 0..Blind] /\ betas' \in [FileIds -> 0..MaxCreated]
    BY <1>1, <1>2, FilesAssumption, BlindNumber DEF FilesInv, FilesTypeOK, Blind
  <2> QED BY <1>1, <1>3, <2>1 DEF FilesInv, FilesTypeOK
<1>5. GrantsMeant'
  BY <1>1, <1>2 DEF FilesInv, FilesTypeOK, GrantsMeant
<1>6. \A v \in VersionIds : versions'[v] # NoVersion =>
         v \notin del.ids /\ versions'[v] = versions[v]
  BY <1>1
<1>7. BlobPresent'
  BY <1>1, <1>6 DEF FilesInv, BlobPresent
<1>8. DeletesFound'
  <2>1. ASSUME NEW v \in VersionIds, versions'[v] # NoVersion
        PROVE  <<versions'[v].file, v>> \notin del.paths
    BY <1>1, <1>6, <2>1 DEF FilesInv, DeletesFound
  <2> QED BY <1>1, <1>3, <2>1, FileRowsDiffer DEF DeletesFound
<1>9. ASSUME NEW t \in Uploaders PROVE UpFits(t)'
  <2>1. UpFits(t) /\ upAt[t] \notin {"write", "stored", "committing"} /\ ~up[t].new
    BY <1>1, LoopAlone DEF FilesInv, UploadsFit
  <2> QED BY <1>1, <2>1 DEF UpFits
<1> QED BY <1>4, <1>5, <1>7, <1>8, <1>9 DEF FilesInv, UploadsFit

(* Nothing is left to delete or to unlink.                                  *)
LEMMA LoopIdle ==
    ASSUME FilesInv, del' = NoDelete,
           UNCHANGED <<catalogue, versions, grants, betas, blobs, fileKey, writeLock, upAt, up,
                       crossed, created, edits, fileFaults>>
    PROVE  FilesInv'
<1>1. FilesTypeOK' /\ GrantsMeant' /\ BlobPresent'
  BY FileRowsDiffer DEF FilesInv, FilesTypeOK, GrantsMeant, BlobPresent
<1>2. DeletesFound' /\ UploadsFit'
  BY FileRowsDiffer DEF FilesInv, DeletesFound, UploadsFit, UpFits
<1> QED BY <1>1, <1>2 DEF FilesInv

LEMMA UnlinkInv ==
    ASSUME FilesInv, NEW p \in Paths, _unlink_blob(p)
    PROVE  FilesInv'
<1> DEFINE d == IF del.paths = {p} THEN NoDelete ELSE [del EXCEPT !.paths = del.paths \ {p}]
<1>1. /\ del.at = "unlink" /\ p \in del.paths /\ del \in Deletion
      /\ blobs' = [blobs EXCEPT ![p] = 0] /\ del' = d
      /\ UNCHANGED <<catalogue, versions, grants, betas, fileKey, writeLock, upAt, up,
                     crossed, created, edits, fileFaults>>
  BY DEF _unlink_blob, fileTables, uploadVars, fileCounts, FilesInv, FilesTypeOK
<1>2. /\ d \in Deletion
      /\ \/ d = NoDelete
         \/ d.at = "unlink" /\ d.paths \subseteq del.paths
  BY <1>1, FileRowsDiffer DEF Deletion
<1> HIDE DEF d
<1>3. FilesTypeOK' /\ GrantsMeant'
  BY <1>1, <1>2, FilesAssumption DEF FilesInv, FilesTypeOK, GrantsMeant
<1>4. \A q \in Paths \ {p} : blobs'[q] = blobs[q]
  BY <1>1 DEF FilesInv, FilesTypeOK
<1>5. BlobPresent'
  <2> SUFFICES ASSUME NEW v \in VersionIds, versions[v] # NoVersion
               PROVE  blobs'[<<versions[v].file, v>>] # 0 \/ <<versions[v].file, v>> \in crossed
    BY <1>1 DEF BlobPresent
  <2>1. <<versions[v].file, v>> \in Paths
    BY FileRowsDiffer DEF FilesInv, FilesTypeOK, Paths
  <2>2. CASE <<versions[v].file, v>> = p
    BY <1>1, <2>2 DEF FilesInv, DeletesFound
  <2>3. CASE <<versions[v].file, v>> # p
    BY <1>4, <2>1, <2>3 DEF FilesInv, BlobPresent
  <2> QED BY <2>2, <2>3
<1>6. DeletesFound'
  BY <1>1, <1>2, FileRowsDiffer DEF FilesInv, DeletesFound
<1>7. ASSUME NEW t \in Uploaders PROVE UpFits(t)'
  <2> DEFINE q == <<up[t].file, up[t].id>>
  <2>1. UpFits(t)
    BY DEF FilesInv, UploadsFit
  <2>2. ASSUME upAt[t] \in {"stored", "committing"} PROVE blobs'[q] # 0 \/ q \in crossed
    <3>1. q \in Paths /\ (blobs[q] # 0 \/ q \in crossed) /\ (q \in del.paths => q \in crossed)
      BY <1>1, <2>1, <2>2 DEF UpFits, Paths
    <3> HIDE DEF q
    <3> QED BY <1>1, <1>4, <3>1
  <2>3. del'.at = "unlink" => del'.paths \subseteq del.paths
    BY <1>1, <1>2, FileRowsDiffer
  <2> QED BY <1>1, <2>1, <2>2, <2>3 DEF UpFits
<1> QED BY <1>3, <1>5, <1>6, <1>7 DEF FilesInv, UploadsFit

LEMMA FilesCrashInv ==
    ASSUME FilesInv, FilesCrash
    PROVE  FilesInv'
<1>1. /\ writeLock' = "free" /\ del' = NoDelete /\ fileFaults' \in 0..MaxFileFaults
      /\ upAt' = [t \in Uploaders |-> "idle"] /\ up' = [t \in Uploaders |-> NoUpload]
      /\ UNCHANGED <<catalogue, versions, grants, betas, blobs, fileKey, created, edits, crossed>>
  BY FaultsCounted DEF FilesCrash, fileTables, FilesInv
<1>2. FilesTypeOK' /\ GrantsMeant' /\ BlobPresent'
  BY <1>1, FileRowsDiffer DEF FilesInv, FilesTypeOK, GrantsMeant, BlobPresent
<1>3. DeletesFound'
  BY <1>1, FileRowsDiffer DEF DeletesFound
<1>4. UploadsFit'
  BY <1>1, FileRowsDiffer DEF UploadsFit, UpFits
<1> QED BY <1>2, <1>3, <1>4 DEF FilesInv

LEMMA KeyRotatedInv ==
    ASSUME FilesInv, KeyRotated
    PROVE  FilesInv'
<1>1. /\ fileKey' \in 1..(MaxRekeys + 1)
      /\ UNCHANGED <<catalogue, versions, grants, betas, blobs, writeLock, upAt, up, del, crossed,
                     created, edits, fileFaults>>
  BY FilesAssumption
     DEF KeyRotated, fileTables, uploadVars, fileCounts, FilesInv, FilesTypeOK
<1> QED BY <1>1 DEF FilesInv, FilesTypeOK, GrantsMeant, BlobPresent, DeletesFound, UploadsFit,
                    UpFits

-----------------------------------------------------------------------------
LEMMA FilesInitInv == FilesInit => FilesInv
<1> SUFFICES ASSUME FilesInit PROVE FilesInv
  OBVIOUS
<1>1. FilesTypeOK
  BY FilesAssumption, FileRowsDiffer, BlindNumber DEF FilesInit, FilesTypeOK, Blind
<1>2. GrantsMeant /\ BlobPresent /\ DeletesFound /\ UploadsFit
  BY FileRowsDiffer DEF FilesInit, GrantsMeant, BlobPresent, DeletesFound, UploadsFit, UpFits
<1> QED BY <1>1, <1>2 DEF FilesInv

LEMMA UploadStepInv ==
    ASSUME FilesInv, NEW t \in Uploaders, UploadStep(t)
    PROVE  FilesInv'
BY UploadBeginsInv, VersionBeginsInv, NewBeginsInv, DepositFindsInv, DepositCreatesInv,
   DepositNumbersInv, StoreInsertsInv, StageOnlyInv, StoreWritesInv, UploadCommitsInv,
   CommitFailsInv, UploadRollsBackInv
DEF UploadStep

LEMMA FilesNextInv == FilesInv /\ [FilesNext]_fileVars => FilesInv'
<1> SUFFICES ASSUME FilesInv, [FilesNext]_fileVars PROVE FilesInv'
  OBVIOUS
<1>1. ASSUME NEW l \in Labels, NEW active \in BOOLEAN, admin_files_create(l, active)
      PROVE  FilesInv'
  BY <1>1, CreateInv
<1>2. ASSUME NEW l \in Labels, NEW active \in BOOLEAN, NEW f \in FileIds, EditFile(f, l, active)
      PROVE  FilesInv'
  BY <1>2, EditFileInv
<1>3. ASSUME NEW f \in FileIds,
             \/ create_grant(f) \/ delete_grant(f) \/ assign_beta_channel(f)
             \/ delete_channel_assignment(f)
      PROVE  FilesInv'
  BY <1>3, GrantingInv
<1>4. ASSUME NEW f \in FileIds, DeleteReads(f) PROVE FilesInv'
  BY <1>4, DeleteReadsInv
<1>5. ASSUME NEW v \in VersionIds,
             \/ archive_file_version(v)
             \/ \E ch \in Channels : set_version_channel(v, ch)
             \/ \E n \in 0..MaxNumber : rename_version_label(v, n)
      PROVE  FilesInv'
  BY <1>5, EditVersionInv
<1>6. CASE DeleteCommits
  BY <1>6, DeleteCommitsInv
<1>7. CASE DeleteIsLocked
  BY <1>7, LoopIdle DEF DeleteIsLocked, fileTables, uploadVars, fileCounts
<1>8. ASSUME NEW p \in Paths, _unlink_blob(p) PROVE FilesInv'
  BY <1>8, UnlinkInv
<1>9. ASSUME NEW t \in Uploaders, UploadStep(t) PROVE FilesInv'
  BY <1>9, UploadStepInv
<1>10. CASE FilesCrash
  BY <1>10, FilesCrashInv
<1>11. CASE KeyRotated
  BY <1>11, KeyRotatedInv
<1>12. CASE UNCHANGED fileVars
  <2>1. UNCHANGED <<catalogue, versions, grants, betas, blobs, fileKey, writeLock, upAt, up, del,
                    crossed, created, edits, fileFaults>>
    BY <1>12 DEF fileVars, fileTables, uploadVars, fileCounts
  <2> QED BY <2>1 DEF FilesInv, FilesTypeOK, GrantsMeant, BlobPresent, DeletesFound, UploadsFit,
                      UpFits
<1> QED BY <1>1, <1>2, <1>3, <1>4, <1>5, <1>6, <1>7, <1>8, <1>9, <1>10, <1>11, <1>12
        DEF FilesNext

LEMMA FilesInvHolds == FilesSpec => []FilesInv
BY FilesInitInv, FilesNextInv, PTL DEF FilesSpec

(* The catalogue, the blobs, the uploads and the loop are well formed.      *)
THEOREM FilesTypeCorrect == FilesSpec => []FilesTypeOK
<1>1. FilesInv => FilesTypeOK
  BY DEF FilesInv
<1> QED BY FilesInvHolds, <1>1, PTL

(* A grant or a beta assignment counts for the file that it was given on,   *)
(* whatever is deleted, created again under the same rowid, or rolled back. *)
THEOREM GrantsStayMeant == FilesSpec => []GrantsMeant
<1>1. FilesInv => GrantsMeant
  BY DEF FilesInv
<1> QED BY FilesInvHolds, <1>1, PTL

(* Every version in the catalogue has its blob, at each step of any number  *)
(* of uploads, deletions, crashes and failed commits, but for a blob that   *)
(* was written while the loop still had its path to unlink.                 *)
THEOREM VersionsKeepBlobs == FilesSpec => []BlobPresent
<1>1. FilesInv => BlobPresent
  BY DEF FilesInv
<1> QED BY FilesInvHolds, <1>1, PTL

-----------------------------------------------------------------------------
(* What a deposit publishes is what is served: the numbers of the uploads.  *)

(* Files are numbered by their creation: whatever stands in the catalogue   *)
(* or with an upload was born before now ...                                *)
Births ==
    /\ \A f \in FileIds : catalogue[f].born <= created
    /\ \A v \in VersionIds : versions[v] # NoVersion => versions[v].born <= created
    /\ \A t \in Uploaders : up[t].born <= created

(* ... and what an upload is about to create is nobody else's.              *)
NewBirth(t) ==
    up[t].new =>
        /\ \A f \in FileIds : catalogue[f].born # up[t].born
        /\ \A v \in VersionIds : versions[v] # NoVersion => versions[v].born # up[t].born
        /\ \A s \in Uploaders \ {t} : up[s].born # up[t].born

(* The versions that the route has loaded are those of its file.            *)
DeletesOwn == del.at = "delete" => \A v \in del.ids : versions[v].file = del.file

(* What the routes ask of an upload: a deposit is stable, and only it       *)
(* commits in a thread; a file that is created has a number of creation.    *)
Posted(t) ==
    /\ up[t].kind = "deposit" => up[t].ch = "stable"
    /\ up[t].kind = "new" => up[t].new
    /\ upAt[t] = "committing" => up[t].kind = "deposit"
    /\ upAt[t] \in {"number", "store", "write", "stored", "committing"} => up[t].born # 0

(* A deposit to an existing file, since it has its number, as long as that  *)
(* file is there and nobody has set a label of it by hand.                  *)
Numbered(t) ==
    /\ upAt[t] \in {"store", "write", "stored", "committing"} /\ up[t].kind = "deposit"
    /\ ~up[t].new /\ ~up[t].renamed
    /\ catalogue[up[t].file].born = up[t].born /\ Inherited(t) = {}

Tops(f, n) == \A v \in VersionsOf(f) : versions[v].no < n

(* Its number follows one of the file's, and tops them all, unless another  *)
(* has taken it before this one took the lock.                              *)
NumberTop(t) ==
    Numbered(t) =>
        /\ up[t].no = 1 \/ HasLabel(up[t].file, up[t].no - 1)
        /\ \/ Tops(up[t].file, up[t].no)
           \/ upAt[t] = "store" /\ HasLabel(up[t].file, up[t].no)

UploadNumbered(t) == NewBirth(t) /\ Posted(t) /\ NumberTop(t)
LatestInv == Births /\ DeletesOwn /\ \A t \in Uploaders : UploadNumbered(t)

LEMMA NumbersTyped ==
    ASSUME FilesInv
    PROVE  /\ created \in Nat
           /\ \A f \in FileIds : catalogue[f].born \in Nat
           /\ \A v \in VersionIds : versions[v] # NoVersion =>
                 versions[v].born \in Nat /\ versions[v].no \in Nat
           /\ \A t \in Uploaders : up[t] \in Upload /\ up[t].born \in Nat /\ up[t].no \in Nat
<1>1. \A a \in FileRow \cup {NoFile} : a.born \in Nat
  BY FilesAssumption DEF FileRow, NoFile
<1>2. \A r \in VersionRow : r.born \in Nat /\ r.no \in Nat
  BY FilesAssumption DEF VersionRow
<1>3. \A u \in Upload : u.born \in Nat /\ u.no \in Nat
  BY FilesAssumption DEF Upload
<1>4. created \in Nat
  BY FilesAssumption DEF FilesInv, FilesTypeOK
<1> QED BY <1>1, <1>2, <1>3, <1>4 DEF FilesInv, FilesTypeOK

(* The number of an upload stays what it is as long as the upload and the   *)
(* versions of its file do.                                                 *)
LEMMA NumberKept ==
    ASSUME NEW t \in Uploaders, NumberTop(t),
           up'[t].kind = up[t].kind, up'[t].file = up[t].file, up'[t].new = up[t].new,
           up'[t].no = up[t].no, up'[t].born = up[t].born, up'[t].renamed = up[t].renamed,
           \/ upAt'[t] = upAt[t]
           \/ upAt'[t] \notin {"store", "write", "stored", "committing"}
           \/ /\ upAt[t] \in {"store", "write", "stored"}
              /\ upAt'[t] \in {"write", "stored", "committing"}
              /\ upAt[t] = "store" => ~HasLabel(up[t].file, up[t].no),
           catalogue'[up[t].file].born = up[t].born => catalogue[up[t].file].born = up[t].born,
           \A v \in VersionIds :
              /\ versions'[v].file = up[t].file <=> versions[v].file = up[t].file
              /\ versions[v].file = up[t].file =>
                    versions'[v].no = versions[v].no /\ versions'[v].born = versions[v].born
    PROVE  NumberTop(t)'
<1> SUFFICES ASSUME Numbered(t)'
             PROVE  /\ up[t].no = 1 \/ HasLabel(up[t].file, up[t].no - 1)'
                    /\ \/ Tops(up[t].file, up[t].no)'
                       \/ upAt'[t] = "store" /\ HasLabel(up[t].file, up[t].no)'
  BY DEF NumberTop
<1>1. VersionsOf(up[t].file)' = VersionsOf(up[t].file)
  BY DEF VersionsOf
<1>2. \A v \in VersionsOf(up[t].file) :
         versions'[v].no = versions[v].no /\ versions'[v].born = versions[v].born
  BY DEF VersionsOf
<1>3. Inherited(t)' = Inherited(t)
  BY <1>1, <1>2 DEF Inherited
<1>4. Numbered(t)
  BY <1>3 DEF Numbered
<1>5. /\ up[t].no = 1 \/ HasLabel(up[t].file, up[t].no - 1)
      /\ \/ Tops(up[t].file, up[t].no)
         \/ upAt[t] = "store" /\ HasLabel(up[t].file, up[t].no)
  BY <1>4 DEF NumberTop
<1>6. \A n : HasLabel(up[t].file, n)' <=> HasLabel(up[t].file, n)
  BY <1>1, <1>2 DEF HasLabel
<1>7. Tops(up[t].file, up[t].no) => Tops(up[t].file, up[t].no)'
  BY <1>1, <1>2 DEF Tops
<1>8. upAt'[t] \in {"store", "write", "stored", "committing"}
  BY DEF Numbered
<1> QED BY <1>5, <1>6, <1>7, <1>8

(* Steps of the loop that leave alone which file and number is whose.       *)
LEMMA LoopNumbered ==
    ASSUME FilesInv, LatestInv, DeletesOwn', UNCHANGED <<upAt, up, created>>,
           \A f \in FileIds : catalogue'[f].born = catalogue[f].born,
           \A v \in VersionIds :
              /\ versions'[v] # NoVersion <=> versions[v] # NoVersion
              /\ versions'[v].file = versions[v].file
              /\ versions[v] # NoVersion =>
                    versions'[v].no = versions[v].no /\ versions'[v].born = versions[v].born
    PROVE  LatestInv'
<1>1. Births'
  BY DEF LatestInv, Births
<1>2. ASSUME NEW t \in Uploaders PROVE UploadNumbered(t)'
  <2>1. UploadNumbered(t)
    BY DEF LatestInv
  <2>2. NewBirth(t)' /\ Posted(t)'
    BY <2>1 DEF UploadNumbered, NewBirth, Posted
  <2>3. CASE up[t].file \in FileIds
    <3>1. \A v \in VersionIds : versions[v].file = up[t].file => versions[v] # NoVersion
      BY <2>3, FileRowsDiffer, FilesAssumption DEF FileIds
    <3>2. NumberTop(t)'
      BY <2>1, <2>3, <3>1, NumberKept DEF UploadNumbered
    <3> QED BY <2>2, <3>2 DEF UploadNumbered
  <2>4. CASE up[t].file \notin FileIds
    <3>1. upAt[t] \notin {"store", "write", "stored", "committing"}
      BY <2>4 DEF FilesInv, UploadsFit, UpFits
    <3> QED BY <2>2, <3>1 DEF UploadNumbered, NumberTop, Numbered
  <2> QED BY <2>3, <2>4
<1> QED BY <1>1, <1>2 DEF LatestInv

(* An upload goes on, or another begins: it is still that of an existing    *)
(* file, or of the new one it was of.                                       *)
LEMMA UploadNumberMoves ==
    ASSUME FilesInv, LatestInv, DeletesOwn', UNCHANGED <<catalogue, versions, created>>,
           NEW t \in Uploaders, NEW at, NEW u,
           upAt' = [upAt EXCEPT ![t] = at], up' = [up EXCEPT ![t] = u],
           \/ u.new = up[t].new /\ u.born = up[t].born
           \/ ~u.new /\ u.born = 0
           \/ ~u.new /\ \E f \in FileIds : u.born = catalogue[f].born,
           Posted(t)', NumberTop(t)'
    PROVE  LatestInv'
<1>1. upAt'[t] = at /\ up'[t] = u
      /\ \A s \in Uploaders \ {t} : upAt'[s] = upAt[s] /\ up'[s] = up[s]
  BY DEF FilesInv, FilesTypeOK
<1>2. Births'
  <2>1. u.born <= created
    BY NumbersTyped DEF LatestInv, Births
  <2> QED BY <1>1, <2>1 DEF LatestInv, Births
<1>3. \A s \in Uploaders : up[s].new => up[s].born # 0
  BY DEF FilesInv, UploadsFit, UpFits
<1>4. ASSUME NEW s \in Uploaders PROVE NewBirth(s)'
  <2>1. NewBirth(s)
    BY DEF LatestInv, UploadNumbered
  <2>2. CASE s = t
    <3>1. CASE u.new = up[t].new /\ u.born = up[t].born
      BY <1>1, <2>1, <2>2, <3>1 DEF NewBirth
    <3>2. CASE ~u.new
      BY <1>1, <2>2, <3>2 DEF NewBirth
    <3> QED BY <3>1, <3>2
  <2>3. CASE s # t
    <3>1. up[s].new => u.born # up[s].born
      BY <1>3, <2>1, <2>3 DEF NewBirth
    <3> QED BY <1>1, <2>1, <2>3, <3>1 DEF NewBirth
  <2> QED BY <2>2, <2>3
<1>5. ASSUME NEW s \in Uploaders \ {t} PROVE Posted(s)' /\ NumberTop(s)'
  <2>1. Posted(s) /\ NumberTop(s)
    BY DEF LatestInv, UploadNumbered
  <2>2. Posted(s)'
    BY <1>1, <2>1 DEF Posted
  <2>3. NumberTop(s)'
    BY <1>1, <2>1, NumberKept
  <2> QED BY <2>2, <2>3
<1> QED BY <1>2, <1>4, <1>5 DEF LatestInv, UploadNumbered

(* An upload that has ended or failed, or has no number yet.                *)
LEMMA Unnumbered ==
    ASSUME NEW t \in Uploaders,
           upAt'[t] \notin {"store", "write", "stored", "committing"} \/ up'[t].kind # "deposit"
    PROVE  NumberTop(t)'
BY DEF NumberTop, Numbered

(* An upload that ends leaves nothing behind.                               *)
LEMMA NoUploadFields ==
    /\ NoUpload.new = FALSE /\ NoUpload.born = 0 /\ NoUpload.kind = "deposit"
    /\ NoUpload.ch = "stable"
BY DEF NoUpload

LEMMA EndNumbered ==
    ASSUME FilesInv, LatestInv, DeletesOwn', UNCHANGED <<catalogue, versions, created>>,
           NEW t \in Uploaders,
           upAt' = [upAt EXCEPT ![t] = "idle"], up' = [up EXCEPT ![t] = NoUpload]
    PROVE  LatestInv'
<1>1. upAt'[t] = "idle" /\ up'[t] = NoUpload
  BY DEF FilesInv, FilesTypeOK
<1>2. Posted(t)' /\ NumberTop(t)'
  BY <1>1, NoUploadFields, Unnumbered DEF Posted
<1> QED BY <1>2, NoUploadFields, UploadNumberMoves

(* A stage in which nothing of the upload changes.                          *)
LEMMA StageNumbered ==
    ASSUME FilesInv, LatestInv, DeletesOwn', UNCHANGED <<catalogue, versions, created, up>>,
           NEW t \in Uploaders, NEW at, upAt' = [upAt EXCEPT ![t] = at],
           \/ at \in {"create", "failed"}
           \/ upAt[t] = "write" /\ at = "stored"
           \/ upAt[t] = "stored" /\ at = "committing" /\ up[t].kind = "deposit"
    PROVE  LatestInv'
<1>1. upAt'[t] = at /\ up' = [up EXCEPT ![t] = up[t]] /\ UploadNumbered(t)
  BY DEF FilesInv, FilesTypeOK, LatestInv
<1>2. Posted(t)'
  BY <1>1 DEF Posted, UploadNumbered
<1>3. NumberTop(t)'
  BY <1>1, NumberKept DEF UploadNumbered
<1> QED BY <1>1, <1>2, <1>3, UploadNumberMoves

LEMMA UploadBeginsNumbered ==
    ASSUME FilesInv, LatestInv, NEW t \in Uploaders, NEW l \in Labels, UploadBegins(t, l)
    PROVE  LatestInv'
<1> DEFINE u == [NoUpload EXCEPT !.label = l]
<1>1. upAt' = [upAt EXCEPT ![t] = "find"] /\ up' = [up EXCEPT ![t] = u]
      /\ UNCHANGED <<catalogue, versions, created, del>>
  BY DEF UploadBegins, Goes, KeepCatalogue, fileTables, fileCounts
<1>2. u.new = FALSE /\ u.born = 0 /\ u.ch = "stable" /\ u.kind = "deposit"
  BY NoUploadFields DEF NoUpload
<1> HIDE DEF u
<1>3. upAt'[t] = "find" /\ up'[t] = u
  BY <1>1 DEF FilesInv, FilesTypeOK
<1>4. Posted(t)' /\ NumberTop(t)'
  BY <1>2, <1>3, Unnumbered DEF Posted
<1>5. DeletesOwn'
  BY <1>1 DEF LatestInv, DeletesOwn
<1> QED BY <1>1, <1>2, <1>4, <1>5, UploadNumberMoves

LEMMA VersionBeginsNumbered ==
    ASSUME FilesInv, LatestInv, NEW t \in Uploaders, NEW f \in FileIds, NEW n \in 0..MaxNumber,
           NEW ch \in Channels, VersionBegins(t, f, n, ch)
    PROVE  LatestInv'
<1> DEFINE u == [NoUpload EXCEPT !.kind = "version", !.file = f, !.no = n,
                                !.ch = ch, !.born = catalogue[f].born]
<1>1. upAt' = [upAt EXCEPT ![t] = "store"] /\ up' = [up EXCEPT ![t] = u]
      /\ UNCHANGED <<catalogue, versions, created, del>> /\ Exists(f)
  BY DEF VersionBegins, Goes, KeepCatalogue, fileTables
<1>2. u.new = FALSE /\ u.born = catalogue[f].born /\ u.kind = "version"
  BY DEF NoUpload
<1> HIDE DEF u
<1>3. upAt'[t] = "store" /\ up'[t] = u
  BY <1>1 DEF FilesInv, FilesTypeOK
<1>4. catalogue[f].born # 0
  BY <1>1, FileRowsDiffer DEF Exists, FilesInv, FilesTypeOK
<1>5. Posted(t)' /\ NumberTop(t)'
  BY <1>2, <1>3, <1>4, Unnumbered DEF Posted
<1>6. DeletesOwn'
  BY <1>1 DEF LatestInv, DeletesOwn
<1> QED BY <1>1, <1>2, <1>5, <1>6, UploadNumberMoves

(* What is created is born after everything else.                           *)
LEMMA NewNumbered ==
    ASSUME FilesInv, LatestInv, NEW t \in Uploaders, NEW u,
           upAt' = [upAt EXCEPT ![t] = "store"], up' = [up EXCEPT ![t] = u],
           u.new, u.born = created + 1, u.kind = "deposit" => u.ch = "stable",
           created' = created + 1, writeLock = "free", UNCHANGED <<catalogue, versions, del>>
    PROVE  LatestInv'
<1>1. upAt'[t] = "store" /\ up'[t] = u
      /\ \A s \in Uploaders \ {t} : upAt'[s] = upAt[s] /\ up'[s] = up[s]
  BY DEF FilesInv, FilesTypeOK
<1>2. created \in Nat
  BY NumbersTyped
<1>3. Births' /\ DeletesOwn'
  BY <1>1, <1>2, NumbersTyped DEF LatestInv, Births, DeletesOwn
<1>4. NewBirth(t)'
  BY <1>1, <1>2, NumbersTyped DEF LatestInv, Births, NewBirth
<1>5. Posted(t)' /\ NumberTop(t)'
  BY <1>1, <1>2 DEF Posted, NumberTop, Numbered
<1>6. ASSUME NEW s \in Uploaders \ {t} PROVE UploadNumbered(s)'
  <2>1. Posted(s) /\ NumberTop(s) /\ ~up[s].new
    BY LoopAlone DEF LatestInv, UploadNumbered
  <2>2. NewBirth(s)' /\ Posted(s)'
    BY <1>1, <2>1 DEF NewBirth, Posted
  <2>3. NumberTop(s)'
    BY <1>1, <2>1, NumberKept
  <2> QED BY <2>2, <2>3 DEF UploadNumbered
<1> QED BY <1>3, <1>4, <1>5, <1>6 DEF LatestInv, UploadNumbered

LEMMA NewBeginsNumbered ==
    ASSUME FilesInv, LatestInv, NEW t \in Uploaders, NEW l \in Labels, NEW n \in 0..MaxNumber,
           NEW ch \in Channels, NewBegins(t, l, n, ch)
    PROVE  LatestInv'
<1> DEFINE u == [NoUpload EXCEPT !.kind = "new", !.label = l, !.file = NextFile, !.new = TRUE,
                                 !.no = n, !.ch = ch, !.born = created + 1]
<1>1. upAt' = [upAt EXCEPT ![t] = "store"] /\ up' = [up EXCEPT ![t] = u]
      /\ created' = created + 1 /\ writeLock = "free" /\ UNCHANGED <<catalogue, versions, del>>
  BY DEF NewBegins, Goes, KeepCatalogue, fileTables, Edits, LoopWrites
<1>2. u.new /\ u.born = created + 1 /\ u.kind = "new"
  BY DEF NoUpload
<1> HIDE DEF u
<1> QED BY <1>1, <1>2, NewNumbered

LEMMA DepositFindsNumbered ==
    ASSUME FilesInv, LatestInv, NEW t \in Uploaders, DepositFinds(t)
    PROVE  LatestInv'
<1>1. UNCHANGED <<catalogue, versions, created, del>> /\ upAt[t] = "find"
  BY DEF DepositFinds, KeepCatalogue, fileTables, fileCounts
<1>2. DeletesOwn'
  BY <1>1 DEF LatestInv, DeletesOwn
<1>3. CASE Goes(t, "create") /\ UNCHANGED up
  BY <1>1, <1>2, <1>3, StageNumbered DEF Goes
<1>4. ASSUME NEW f \in Named(up[t].label), Goes(t, "number"),
             up' = [up EXCEPT ![t].file = f, ![t].born = catalogue[f].born]
      PROVE  LatestInv'
  <2> DEFINE u == [up[t] EXCEPT !.file = f, !.born = catalogue[f].born]
  <2>1. f \in FileIds /\ catalogue[f].born # 0
    BY FileRowsDiffer DEF Named, Exists, FilesInv, FilesTypeOK
  <2>2. /\ u.new = up[t].new /\ u.born = catalogue[f].born /\ u.kind = up[t].kind
        /\ u.ch = up[t].ch
    BY NumbersTyped DEF Upload
  <2>3. up' = [up EXCEPT ![t] = u] /\ upAt' = [upAt EXCEPT ![t] = "number"]
    BY <1>4 DEF Goes
  <2> HIDE DEF u
  <2>4. upAt'[t] = "number" /\ up'[t] = u
    BY <2>3 DEF FilesInv, FilesTypeOK
  <2>5. ~up[t].new
    BY <1>1 DEF FilesInv, UploadsFit, UpFits
  <2>6. Posted(t)' /\ NumberTop(t)'
    BY <2>1, <2>2, <2>4, Unnumbered DEF LatestInv, UploadNumbered, Posted
  <2> QED BY <1>1, <1>2, <2>1, <2>2, <2>3, <2>5, <2>6, UploadNumberMoves
<1> QED BY <1>3, <1>4 DEF DepositFinds

LEMMA DepositCreatesNumbered ==
    ASSUME FilesInv, LatestInv, NEW t \in Uploaders, DepositCreates(t)
    PROVE  LatestInv'
<1>1. UNCHANGED <<catalogue, versions, del>>
  BY DEF DepositCreates, KeepCatalogue, fileTables
<1>2. CASE Goes(t, "failed") /\ UNCHANGED <<writeLock, created, up>>
  BY <1>1, <1>2, StageNumbered DEF Goes, LatestInv, DeletesOwn
<1>3. ASSUME writeLock = "free", created' = created + 1, Goes(t, "store"),
             up' = [up EXCEPT ![t].file = NextFile, ![t].new = TRUE, ![t].no = 1,
                              ![t].born = created + 1]
      PROVE  LatestInv'
  <2> DEFINE u == [up[t] EXCEPT !.file = NextFile, !.new = TRUE, !.no = 1, !.born = created + 1]
  <2>1. up' = [up EXCEPT ![t] = u] /\ upAt' = [upAt EXCEPT ![t] = "store"]
    BY <1>3 DEF Goes
  <2>2. u.new /\ u.born = created + 1 /\ u.kind = up[t].kind /\ u.ch = up[t].ch
    BY NumbersTyped DEF Upload
  <2> HIDE DEF u
  <2>3. u.kind = "deposit" => u.ch = "stable"
    BY <2>2 DEF LatestInv, UploadNumbered, Posted
  <2> QED BY <1>1, <1>3, <2>1, <2>2, <2>3, NewNumbered
<1> QED BY <1>2, <1>3 DEF DepositCreates

(* The highest number of a file's versions, plus one.                       *)
LEMMA NextNumber ==
    ASSUME FilesInv, NEW f \in FileIds
    PROVE  \E n \in Nat : /\ n = max_numeric_version_label(f) + 1
                          /\ n = 1 \/ HasLabel(f, n - 1)
                          /\ Tops(f, n)
<1> DEFINE S == {0} \cup {versions[v].no : v \in VersionsOf(f)}
<1>1. \A v \in VersionsOf(f) : versions[v] # NoVersion /\ versions[v].no \in 0..MaxNumber
  <2> SUFFICES ASSUME NEW v \in VersionIds, versions[v].file = f
               PROVE  versions[v] # NoVersion /\ versions[v].no \in 0..MaxNumber
    BY DEF VersionsOf
  <2>1. versions[v] # NoVersion
    BY FileRowsDiffer, FilesAssumption DEF FileIds
  <2> QED BY <2>1, FileRowsDiffer DEF FilesInv, FilesTypeOK
<1>2. S \subseteq 0..MaxNumber /\ S # {} /\ MaxNumber \in Nat /\ S \subseteq Nat
  BY <1>1, FilesAssumption
<1>3. \A k \in S : k = 0 \/ HasLabel(f, k)
  BY DEF HasLabel
<1>4. \A v \in VersionsOf(f) : versions[v].no \in S
  OBVIOUS
<1>5. max_numeric_version_label(f) = Max(S)
  BY DEF max_numeric_version_label
<1> HIDE DEF S
<1>6. PICK m \in S : \A k \in S : k <= m
  BY <1>2, GreatestOfSet
<1>7. Max(S) = m
  <2>1. \A k \in S : m >= k
    BY <1>2, <1>6
  <2>2. \A j \in S : (\A k \in S : j >= k) => j = m
    BY <1>2, <1>6
  <2> QED BY <2>1, <2>2 DEF Max
<1>8. Tops(f, m + 1)
  <2>1. \A k \in S : k < m + 1
    BY <1>2, <1>6
  <2> QED BY <1>4, <2>1 DEF Tops
<1>9. m + 1 \in Nat /\ (m + 1) - 1 = m
  BY <1>2
<1>10. m + 1 = 1 \/ HasLabel(f, (m + 1) - 1)
  <2>1. m \in Nat /\ (m = 0 \/ HasLabel(f, m))
    BY <1>2, <1>3
  <2> QED BY <1>9, <2>1
<1> QED BY <1>5, <1>7, <1>8, <1>9, <1>10

LEMMA DepositNumbersNumbered ==
    ASSUME FilesInv, LatestInv, NEW t \in Uploaders, DepositNumbers(t)
    PROVE  LatestInv'
<1>0. upAt[t] = "number" /\ UNCHANGED <<catalogue, versions, created, del>>
  BY DEF DepositNumbers, KeepCatalogue, fileTables, fileCounts
<1>1. PICK f \in FileIds : f = up[t].file
  BY <1>0 DEF FilesInv, UploadsFit, UpFits
<1>2. PICK n \in Nat : /\ n = max_numeric_version_label(f) + 1
                       /\ n = 1 \/ HasLabel(f, n - 1)
                       /\ Tops(f, n)
  BY NextNumber
<1> DEFINE no == max_numeric_version_label(up[t].file) + 1
           u == [up[t] EXCEPT !.no = no, !.renamed = FALSE]
<1>3. up' = [up EXCEPT ![t] = u] /\ upAt' = [upAt EXCEPT ![t] = "store"]
  BY DEF DepositNumbers, Goes
<1>9. no = n
  BY <1>1, <1>2
<1> HIDE DEF no
<1>4. /\ u.new = up[t].new /\ u.born = up[t].born /\ u.kind = up[t].kind
      /\ u.ch = up[t].ch /\ u.no = n /\ u.file = f
  BY <1>1, <1>9, NumbersTyped DEF Upload
<1> HIDE DEF u
<1>5. upAt'[t] = "store" /\ up'[t] = u
  BY <1>3 DEF FilesInv, FilesTypeOK
<1>6. Posted(t)'
  BY <1>0, <1>4, <1>5 DEF LatestInv, UploadNumbered, Posted
<1>7. NumberTop(t)'
  <2>1. VersionsOf(f)' = VersionsOf(f)
    BY <1>0 DEF VersionsOf
  <2>2. (n = 1 \/ HasLabel(f, n - 1)') /\ Tops(f, n)'
    BY <1>0, <1>2, <2>1 DEF HasLabel, Tops
  <2> QED BY <1>4, <1>5, <2>2 DEF NumberTop
<1>8. DeletesOwn'
  BY <1>0 DEF LatestInv, DeletesOwn
<1> QED BY <1>0, <1>3, <1>4, <1>6, <1>7, <1>8, UploadNumberMoves

LEMMA StoreInsertsNumbered ==
    ASSUME FilesInv, LatestInv, NEW t \in Uploaders, StoreInserts(t)
    PROVE  LatestInv'
<1>1. UNCHANGED <<catalogue, versions, created, del>> /\ upAt[t] = "store"
  BY DEF StoreInserts, KeepCatalogue, fileTables, fileCounts
<1>2. DeletesOwn'
  BY <1>1 DEF LatestInv, DeletesOwn
<1>3. CASE Goes(t, "failed") /\ UNCHANGED <<writeLock, up>>
  BY <1>1, <1>2, <1>3, StageNumbered DEF Goes
<1>4. ASSUME ~HasLabel(up[t].file, up[t].no), Goes(t, "write"),
             up' = [up EXCEPT ![t].id = NextVersion]
      PROVE  LatestInv'
  <2> DEFINE u == [up[t] EXCEPT !.id = NextVersion]
  <2>1. up' = [up EXCEPT ![t] = u] /\ upAt' = [upAt EXCEPT ![t] = "write"]
    BY <1>4 DEF Goes
  <2>2. /\ u.new = up[t].new /\ u.born = up[t].born /\ u.kind = up[t].kind
        /\ u.ch = up[t].ch /\ u.no = up[t].no /\ u.file = up[t].file
        /\ u.renamed = up[t].renamed
    BY NumbersTyped DEF Upload
  <2> HIDE DEF u
  <2>3. upAt'[t] = "write" /\ up'[t] = u
    BY <2>1 DEF FilesInv, FilesTypeOK
  <2>4. Posted(t) /\ NumberTop(t)
    BY DEF LatestInv, UploadNumbered
  <2>5. Posted(t)'
    BY <1>1, <2>2, <2>3, <2>4 DEF Posted
  <2>6. NumberTop(t)'
    BY <1>1, <1>4, <2>2, <2>3, <2>4, NumberKept
  <2> QED BY <1>1, <1>2, <2>1, <2>2, <2>5, <2>6, UploadNumberMoves
<1> QED BY <1>3, <1>4 DEF StoreInserts

LEMMA StagesNumbered ==
    ASSUME FilesInv, LatestInv, NEW t \in Uploaders,
           StoreIsLocked(t) \/ StoreWrites(t) \/ StoreFails(t) \/ DepositReturns(t)
    PROVE  LatestInv'
<1>1. UNCHANGED <<catalogue, versions, created, del, up>>
  BY DEF StoreIsLocked, StoreWrites, StoreFails, DepositReturns, KeepCatalogue, fileTables,
         fileCounts
<1>2. DeletesOwn'
  BY <1>1 DEF LatestInv, DeletesOwn
<1>3. \/ upAt' = [upAt EXCEPT ![t] = "failed"]
      \/ upAt' = [upAt EXCEPT ![t] = "stored"] /\ upAt[t] = "write"
      \/ /\ upAt' = [upAt EXCEPT ![t] = "committing"]
         /\ upAt[t] = "stored" /\ up[t].kind = "deposit"
  BY DEF StoreIsLocked, StoreWrites, StoreFails, DepositReturns, Goes
<1> QED BY <1>1, <1>2, <1>3, StageNumbered

LEMMA EndsNumbered ==
    ASSUME FilesInv, LatestInv, NEW t \in Uploaders, CommitFails(t) \/ UploadRollsBack(t)
    PROVE  LatestInv'
<1>1. UNCHANGED <<catalogue, versions, created>>
  BY DEF CommitFails, UploadRollsBack, KeepCatalogue, fileTables, fileCounts
<1>2. DeletesOwn'
  <2>1. del' = del \/ del'.at = "unlink"
    BY FileRowsDiffer DEF CommitFails, UploadRollsBack, Deletion
  <2> QED BY <1>1, <2>1 DEF LatestInv, DeletesOwn
<1>3. \/ upAt' = [upAt EXCEPT ![t] = "idle"] /\ up' = [up EXCEPT ![t] = NoUpload]
      \/ upAt' = [upAt EXCEPT ![t] = "failed"] /\ up' = up
  BY DEF CommitFails, UploadRollsBack, Goes
<1> QED BY <1>1, <1>2, <1>3, EndNumbered, StageNumbered

-----------------------------------------------------------------------------
(* The routes of the loop, and the process.                                 *)

LEMMA CreateNumbered ==
    ASSUME FilesInv, LatestInv, NEW l \in Labels, NEW active \in BOOLEAN,
           admin_files_create(l, active)
    PROVE  LatestInv'
<1> DEFINE f == NextFile
<1>1. /\ catalogue' = [catalogue EXCEPT ![f] = NewFile(l, active)] /\ created' = created + 1
      /\ UNCHANGED <<versions, up, upAt, del>> /\ writeLock = "free"
  BY DEF admin_files_create, KeepUploads, uploadVars, LoopWrites
<1>2. f \in FileIds /\ NewFile(l, active).born = created + 1 /\ created \in Nat
  BY NextFileFree, NumbersTyped DEF admin_files_create, FilesInv, NewFile
<1> HIDE DEF f
<1>3. catalogue'[f].born = created + 1 /\ \A g \in FileIds \ {f} : catalogue'[g] = catalogue[g]
  BY <1>1, <1>2 DEF FilesInv, FilesTypeOK
<1>4. Births' /\ DeletesOwn'
  BY <1>1, <1>2, <1>3, NumbersTyped DEF LatestInv, Births, DeletesOwn
<1>5. ASSUME NEW t \in Uploaders PROVE UploadNumbered(t)'
  <2>1. UploadNumbered(t) /\ ~up[t].new
    BY <1>1, LoopAlone DEF LatestInv
  <2>2. NewBirth(t)' /\ Posted(t)'
    BY <1>1, <2>1 DEF UploadNumbered, NewBirth, Posted
  <2>3. CASE up[t].file \in FileIds
    <3>1. catalogue'[up[t].file].born = up[t].born => catalogue[up[t].file].born = up[t].born
      <4>1. up[t].born # created + 1
        BY <1>2, NumbersTyped DEF LatestInv, Births
      <4> QED BY <1>3, <2>3, <4>1
    <3>2. NumberTop(t)'
      BY <1>1, <2>1, <3>1, NumberKept DEF UploadNumbered
    <3> QED BY <2>2, <3>2 DEF UploadNumbered
  <2>4. CASE up[t].file \notin FileIds
    <3>1. upAt[t] \notin {"store", "write", "stored", "committing"}
      BY <2>4 DEF FilesInv, UploadsFit, UpFits
    <3> QED BY <1>1, <2>2, <3>1, Unnumbered DEF UploadNumbered
  <2> QED BY <2>3, <2>4
<1> QED BY <1>4, <1>5 DEF LatestInv

(* Routes that change neither births nor numbers.                           *)
LEMMA EditsNumbered ==
    ASSUME FilesInv, LatestInv, NEW f \in FileIds, NEW v \in VersionIds,
           \/ \E l \in Labels, active \in BOOLEAN : EditFile(f, l, active)
           \/ create_grant(f) \/ delete_grant(f)
           \/ assign_beta_channel(f) \/ delete_channel_assignment(f)
           \/ archive_file_version(v) \/ \E ch \in Channels : set_version_channel(v, ch)
    PROVE  LatestInv'
<1> DEFINE Like(w) == /\ versions'[w] # NoVersion <=> versions[w] # NoVersion
                      /\ versions'[w].file = versions[w].file
                      /\ versions[w] # NoVersion =>
                            versions'[w].no = versions[w].no /\ versions'[w].born = versions[w].born
<1>1. UNCHANGED <<upAt, up, created, del>>
  BY DEF EditFile, create_grant, delete_grant, assign_beta_channel, delete_channel_assignment,
         archive_file_version, set_version_channel, KeepUploads, uploadVars
<1>2. \A g \in FileIds : catalogue'[g].born = catalogue[g].born
  <2>1. CASE \E l \in Labels, active \in BOOLEAN : EditFile(f, l, active)
    <3>1. PICK l \in Labels, active \in BOOLEAN : EditFile(f, l, active)
      BY <2>1
    <3> DEFINE row == [catalogue[f] EXCEPT !.label = l, !.active = active]
    <3>2. catalogue[f] \in FileRow /\ catalogue' = [catalogue EXCEPT ![f] = row]
      BY <3>1 DEF EditFile, Exists, FilesInv, FilesTypeOK
    <3>3. row.born = catalogue[f].born
      BY <3>2 DEF FileRow
    <3> HIDE DEF row
    <3> QED BY <3>2, <3>3 DEF FilesInv, FilesTypeOK
  <2>2. CASE UNCHANGED catalogue
    BY <2>2
  <2> QED BY <2>1, <2>2 DEF create_grant, delete_grant, assign_beta_channel,
             delete_channel_assignment, archive_file_version, set_version_channel
<1>3. \A w \in VersionIds : Like(w)
  <2>1. ASSUME NEW row \in VersionRow, versions[v] # NoVersion,
               row.file = versions[v].file, row.no = versions[v].no, row.born = versions[v].born,
               versions' = [versions EXCEPT ![v] = row], NEW w \in VersionIds
        PROVE  Like(w)
    BY <2>1, FileRowsDiffer DEF FilesInv, FilesTypeOK
  <2>2. CASE archive_file_version(v)
    <3> DEFINE row == [versions[v] EXCEPT !.active = FALSE]
    <3>1. versions[v] # NoVersion /\ versions' = [versions EXCEPT ![v] = row]
      BY <2>2 DEF archive_file_version
    <3>2. versions[v] \in VersionRow
      BY <3>1 DEF FilesInv, FilesTypeOK
    <3>3. /\ row \in VersionRow /\ row.file = versions[v].file /\ row.no = versions[v].no
          /\ row.born = versions[v].born
      BY <3>2 DEF VersionRow
    <3> HIDE DEF row
    <3> QED BY <2>1, <3>1, <3>3
  <2>3. ASSUME NEW ch \in Channels, set_version_channel(v, ch)
        PROVE  \A w \in VersionIds : Like(w)
    <3> DEFINE row == [versions[v] EXCEPT !.ch = ch]
    <3>1. versions[v] # NoVersion /\ versions' = [versions EXCEPT ![v] = row]
      BY <2>3 DEF set_version_channel
    <3>2. versions[v] \in VersionRow
      BY <3>1 DEF FilesInv, FilesTypeOK
    <3>3. /\ row \in VersionRow /\ row.file = versions[v].file /\ row.no = versions[v].no
          /\ row.born = versions[v].born
      BY <3>2 DEF VersionRow
    <3> HIDE DEF row
    <3> QED BY <2>1, <3>1, <3>3
  <2>4. CASE UNCHANGED versions
    BY <2>4
  <2> QED BY <2>2, <2>3, <2>4 DEF EditFile, create_grant, delete_grant, assign_beta_channel,
             delete_channel_assignment
<1>4. DeletesOwn'
  <2>1. del.ids \subseteq VersionIds
    BY DEF FilesInv, FilesTypeOK, Deletion
  <2> QED BY <1>1, <1>3, <2>1 DEF LatestInv, DeletesOwn
<1> QED BY <1>1, <1>2, <1>3, <1>4, LoopNumbered

(* A label that is set by hand marks the uploads of its file.               *)
LEMMA RenameNumbered ==
    ASSUME FilesInv, LatestInv, NEW v \in VersionIds, NEW n \in 0..MaxNumber,
           rename_version_label(v, n)
    PROVE  LatestInv'
<1> DEFINE f == versions[v].file
           row == [versions[v] EXCEPT !.no = n]
<1>1. /\ versions[v] # NoVersion /\ versions' = [versions EXCEPT ![v] = row]
      /\ UNCHANGED <<catalogue, created, upAt, del>>
      /\ up' = [t \in Uploaders |-> IF up[t].file = f THEN [up[t] EXCEPT !.renamed = TRUE]
                                    ELSE up[t]]
  BY DEF rename_version_label, Renamed
<1>2. versions[v] \in VersionRow
  BY <1>1 DEF FilesInv, FilesTypeOK
<1>3. /\ row \in VersionRow /\ row.file = f /\ row.born = versions[v].born
  BY <1>2 DEF VersionRow
<1> HIDE DEF f, row
<1>4. \A w \in VersionIds :
         /\ versions'[w] # NoVersion <=> versions[w] # NoVersion
         /\ versions'[w].file = versions[w].file
         /\ versions[w] # NoVersion => versions'[w].born = versions[w].born
         /\ w # v => versions'[w] = versions[w]
  BY <1>1, <1>3, FileRowsDiffer DEF FilesInv, FilesTypeOK, f
<1>5. \A t \in Uploaders :
         /\ up'[t].kind = up[t].kind /\ up'[t].file = up[t].file /\ up'[t].new = up[t].new
         /\ up'[t].no = up[t].no /\ up'[t].born = up[t].born /\ up'[t].ch = up[t].ch
         /\ up'[t].renamed = (up[t].renamed \/ up[t].file = f)
  <2>1. \A u \in Upload : LET r == [u EXCEPT !.renamed = TRUE]
                          IN /\ r.kind = u.kind /\ r.file = u.file /\ r.new = u.new
                             /\ r.no = u.no /\ r.born = u.born /\ r.ch = u.ch
                             /\ r.renamed = TRUE
    BY DEF Upload
  <2>2. \A t \in Uploaders : up[t] \in Upload /\ up[t].renamed \in BOOLEAN
    BY NumbersTyped DEF Upload
  <2> QED BY <1>1, <2>1, <2>2
<1>6. Births'
  BY <1>1, <1>4, <1>5 DEF LatestInv, Births
<1>7. DeletesOwn'
  <2>1. del.ids \subseteq VersionIds
    BY DEF FilesInv, FilesTypeOK, Deletion
  <2> QED BY <1>1, <1>4, <2>1 DEF LatestInv, DeletesOwn
<1>8. ASSUME NEW t \in Uploaders PROVE UploadNumbered(t)'
  <2>1. UploadNumbered(t)
    BY DEF LatestInv
  <2>2. NewBirth(t)' /\ Posted(t)'
    BY <1>1, <1>4, <1>5, <2>1 DEF UploadNumbered, NewBirth, Posted
  <2>3. CASE up[t].file = f
    BY <1>5, <2>2, <2>3 DEF UploadNumbered, NumberTop, Numbered
  <2>4. CASE up[t].file # f
    <3>1. up'[t].renamed = up[t].renamed
      BY <1>1, <2>4
    <3>2. \A w \in VersionIds :
             /\ versions'[w].file = up[t].file <=> versions[w].file = up[t].file
             /\ versions[w].file = up[t].file =>
                   versions'[w].no = versions[w].no /\ versions'[w].born = versions[w].born
      BY <1>4, <2>4 DEF f
    <3>3. NumberTop(t)'
      BY <1>1, <1>5, <2>1, <3>1, <3>2, NumberKept DEF UploadNumbered
    <3> QED BY <2>2, <3>3 DEF UploadNumbered
  <2> QED BY <2>3, <2>4
<1> QED BY <1>6, <1>7, <1>8 DEF LatestInv

(* A deletion takes the file and its versions; an upload of it has no       *)
(* catalogue row left, and those of others keep their versions.             *)
LEMMA DeleteNumbered ==
    ASSUME FilesInv, LatestInv, DeleteCommits
    PROVE  LatestInv'
<1>1. /\ del.at = "delete" /\ del.file \in FileIds
      /\ catalogue' = [catalogue EXCEPT ![del.file] = NoFile]
      /\ versions' = [v \in VersionIds |-> IF v \in del.ids THEN NoVersion ELSE versions[v]]
      /\ UNCHANGED <<up, upAt, created>>
  BY DEF DeleteCommits, uploadVars, fileCounts, FilesInv, DeletesFound
<1>2. del'.at # "delete"
  <2>1. del' = NoDelete \/ del' = [del EXCEPT !.at = "unlink"]
    BY DEF DeleteCommits
  <2>2. [del EXCEPT !.at = "unlink"].at = "unlink"
    BY DEF FilesInv, FilesTypeOK, Deletion
  <2> QED BY <2>1, <2>2, FileRowsDiffer
<1>3. \A v \in VersionIds : \/ versions'[v] = versions[v]
                            \/ versions[v].file = del.file /\ versions'[v] = NoVersion
  BY <1>1 DEF LatestInv, DeletesOwn
<1>4. \A f \in FileIds : \/ f # del.file /\ catalogue'[f] = catalogue[f]
                         \/ f = del.file /\ catalogue'[f] = NoFile
  BY <1>1 DEF FilesInv, FilesTypeOK
<1>5. created \in Nat /\ NoFile.born = 0 /\ NoVersion.file = 0
  BY NumbersTyped, FileRowsDiffer
<1>6. Births' /\ DeletesOwn'
  BY <1>1, <1>2, <1>3, <1>4, <1>5 DEF LatestInv, Births, DeletesOwn
<1>7. ASSUME NEW t \in Uploaders PROVE UploadNumbered(t)'
  <2>1. UploadNumbered(t) /\ (up[t].new => up[t].born # 0)
    BY DEF LatestInv, FilesInv, UploadsFit, UpFits
  <2>2. NewBirth(t)' /\ Posted(t)'
    BY <1>1, <1>3, <1>4, <1>5, <2>1 DEF UploadNumbered, NewBirth, Posted
  <2>3. CASE up[t].file = del.file
    <3>1. catalogue'[up[t].file].born = 0
      BY <1>1, <1>4, <1>5, <2>3
    <3>2. NumberTop(t)'
      BY <1>1, <2>1, <3>1 DEF UploadNumbered, Posted, NumberTop, Numbered
    <3> QED BY <2>2, <3>2 DEF UploadNumbered
  <2>4. CASE up[t].file # del.file /\ up[t].file \in FileIds
    <3>1. 0 \notin FileIds
      BY FilesAssumption DEF FileIds
    <3>2. \A v \in VersionIds :
             /\ versions'[v].file = up[t].file <=> versions[v].file = up[t].file
             /\ versions[v].file = up[t].file =>
                   versions'[v].no = versions[v].no /\ versions'[v].born = versions[v].born
      BY <1>3, <1>5, <2>4, <3>1
    <3>3. NumberTop(t)'
      BY <1>1, <1>4, <2>1, <2>4, <3>2, NumberKept DEF UploadNumbered
    <3> QED BY <2>2, <3>3 DEF UploadNumbered
  <2>5. CASE up[t].file \notin FileIds
    <3>1. upAt[t] \notin {"store", "write", "stored", "committing"}
      BY <2>5 DEF FilesInv, UploadsFit, UpFits
    <3> QED BY <1>1, <2>2, <3>1, Unnumbered DEF UploadNumbered
  <2> QED BY <2>3, <2>4, <2>5
<1> QED BY <1>6, <1>7 DEF LatestInv

LEMMA CrashNumbered ==
    ASSUME FilesInv, LatestInv, FilesCrash
    PROVE  LatestInv'
<1>1. /\ \A t \in Uploaders : upAt'[t] = "idle" /\ up'[t] = NoUpload
      /\ del' = NoDelete /\ UNCHANGED <<catalogue, versions, created>>
  BY DEF FilesCrash, fileTables
<1>2. created \in Nat /\ NoDelete.at = "none"
  BY NumbersTyped, FileRowsDiffer
<1>3. Births' /\ DeletesOwn'
  BY <1>1, <1>2, NoUploadFields DEF LatestInv, Births, DeletesOwn
<1>4. ASSUME NEW t \in Uploaders PROVE UploadNumbered(t)'
  BY <1>1, NoUploadFields DEF UploadNumbered, NewBirth, Posted, NumberTop, Numbered
<1> QED BY <1>3, <1>4 DEF LatestInv

(* Steps of the loop that move neither rows nor uploads.                    *)
LEMMA LoopStepsNumbered ==
    ASSUME FilesInv, LatestInv,
           \/ \E f \in FileIds : DeleteReads(f)
           \/ DeleteIsLocked \/ KeyRotated \/ UNCHANGED fileVars
           \/ \E p \in Paths : _unlink_blob(p)
    PROVE  LatestInv'
<1>1. UNCHANGED <<catalogue, versions, created, up, upAt>>
  BY DEF DeleteReads, DeleteIsLocked, KeyRotated, _unlink_blob, fileVars, fileTables, uploadVars,
         fileCounts
<1>2. DeletesOwn'
  <2>1. CASE \E f \in FileIds : DeleteReads(f)
    BY <1>1, <2>1 DEF DeleteReads, DeletesOwn, VersionsOf
  <2>2. CASE \E p \in Paths : _unlink_blob(p)
    <3>1. del.at = "unlink" /\ del \in Deletion
      BY <2>2 DEF _unlink_blob, FilesInv, FilesTypeOK
    <3>2. del'.at # "delete"
      BY <2>2, <3>1, FileRowsDiffer DEF _unlink_blob, Deletion
    <3> QED BY <3>2 DEF DeletesOwn
  <2>3. CASE DeleteIsLocked \/ KeyRotated \/ UNCHANGED fileVars
    BY <1>1, <2>3, FileRowsDiffer DEF DeleteIsLocked, KeyRotated, fileVars, LatestInv, DeletesOwn
  <2> QED BY <2>1, <2>2, <2>3
<1> QED BY <1>1, <1>2, LoopNumbered

(* A commit adds one version.  Nobody else is past the lock, so what stands *)
(* to be checked is an upload of the same file that waits for it.           *)
LEMMA CommitNumbered ==
    ASSUME FilesInv, LatestInv, NEW t \in Uploaders, UploadCommits(t)
    PROVE  LatestInv'
<1> DEFINE f == up[t].file
           v == up[t].id
           new == [label |-> up[t].label, active |-> TRUE, born |-> up[t].born]
           row == [file |-> f, no |-> up[t].no, ch |-> up[t].ch, active |-> TRUE,
                   born |-> up[t].born]
           marks == up[t].kind = "version" \/ up[t].renamed
           ups == IF marks THEN Renamed(f) ELSE up
<1>0. CommitTurn(t)
  BY DEF UploadCommits
<1>1. /\ catalogue' = IF up[t].new THEN [catalogue EXCEPT ![f] = new] ELSE catalogue
      /\ versions' = [versions EXCEPT ![v] = row]
      /\ upAt' = [upAt EXCEPT ![t] = "idle"] /\ up' = [ups EXCEPT ![t] = NoUpload]
      /\ UNCHANGED <<del, created>>
  BY DEF UploadCommits, Goes, fileCounts
<1>2. /\ writeLock = t /\ up[t] \in Upload /\ f \in FileIds /\ v \in VersionIds
      /\ versions[v] = NoVersion
  BY <1>0, Committing
<1>3. /\ row # NoVersion /\ row.file = f /\ row.no = up[t].no /\ row.born = up[t].born
      /\ new.born = up[t].born /\ f # 0 /\ NoVersion.file = 0
  <2>1. row \in VersionRow
    BY <1>2 DEF Upload, VersionRow
  <2> QED BY <1>2, <2>1, FileRowsDiffer, FilesAssumption DEF FileIds
<1>4. ASSUME NEW s \in Uploaders
      PROVE  /\ ups[s].kind = up[s].kind /\ ups[s].file = up[s].file /\ ups[s].new = up[s].new
             /\ ups[s].no = up[s].no /\ ups[s].born = up[s].born /\ ups[s].ch = up[s].ch
             /\ ups[s].renamed = (up[s].renamed \/ (marks /\ up[s].file = f))
  <2>1. up[s] \in Upload /\ up[s].renamed \in BOOLEAN
    BY NumbersTyped DEF Upload
  <2>2. ups[s] = IF marks /\ up[s].file = f THEN [up[s] EXCEPT !.renamed = TRUE] ELSE up[s]
    BY DEF Renamed
  <2> HIDE DEF ups, marks
  <2>3. LET r == [up[s] EXCEPT !.renamed = TRUE]
        IN /\ r.kind = up[s].kind /\ r.file = up[s].file /\ r.new = up[s].new
           /\ r.no = up[s].no /\ r.born = up[s].born /\ r.ch = up[s].ch /\ r.renamed = TRUE
    BY <2>1 DEF Upload
  <2> QED BY <2>1, <2>2, <2>3
<1>5. ups \in [Uploaders -> Upload]
  <2>1. up \in [Uploaders -> Upload]
    BY DEF FilesInv, FilesTypeOK
  <2>2. Renamed(f) \in [Uploaders -> Upload]
    BY RenamedTyped DEF FilesInv
  <2> HIDE DEF marks
  <2> QED BY <2>1, <2>2
<1> HIDE DEF f, v, new, row, ups
<1>6. /\ upAt'[t] = "idle" /\ up'[t] = NoUpload
      /\ \A s \in Uploaders \ {t} : upAt'[s] = upAt[s] /\ up'[s] = ups[s]
  BY <1>1, <1>5 DEF FilesInv, FilesTypeOK
<1>7. /\ versions'[v] = row /\ \A w \in VersionIds \ {v} : versions'[w] = versions[w]
      /\ \A g \in FileIds \ {f} : catalogue'[g] = catalogue[g]
      /\ IF up[t].new THEN catalogue'[f].born = up[t].born ELSE catalogue'[f] = catalogue[f]
  BY <1>1, <1>2, <1>3 DEF FilesInv, FilesTypeOK
<1>8. Births'
  <2>1. \A s \in Uploaders : up'[s].born <= created
    BY <1>4, <1>6, NoUploadFields, NumbersTyped DEF LatestInv, Births
  <2> QED BY <1>1, <1>2, <1>3, <1>7, <2>1 DEF LatestInv, Births
<1>9. DeletesOwn'
  <2> SUFFICES ASSUME del.at = "delete", NEW w \in del.ids
               PROVE  versions'[w].file = del.file
    BY <1>1 DEF DeletesOwn
  <2>1. w \in VersionIds /\ versions[w].file = del.file /\ del.file \in FileIds
    BY DEF LatestInv, DeletesOwn, FilesInv, FilesTypeOK, Deletion, DeletesFound
  <2>2. w # v
    BY <1>2, <1>3, <2>1, FilesAssumption DEF FileIds
  <2> QED BY <1>7, <2>1, <2>2
<1>10. UploadNumbered(t)'
  BY <1>6, NoUploadFields DEF UploadNumbered, NewBirth, Posted, NumberTop, Numbered
<1>11. ASSUME NEW s \in Uploaders \ {t} PROVE UploadNumbered(s)'
  <2>1. UploadNumbered(s) /\ UploadNumbered(t)
    BY DEF LatestInv
  <2>2. ~up[s].new /\ upAt[s] \notin {"write", "stored", "committing"}
    BY <1>2 DEF FilesInv, UploadsFit, UpFits
  <2>3. NewBirth(s)' /\ Posted(s)'
    BY <1>4, <1>6, <2>1, <2>2 DEF UploadNumbered, NewBirth, Posted
  <2>4. SUFFICES ASSUME Numbered(s)' PROVE NumberTop(s)'
    BY <2>3 DEF UploadNumbered, NumberTop
  <2>5. /\ upAt[s] = "store" /\ up[s].kind = "deposit" /\ ~up[s].renamed
        /\ ~(marks /\ up[s].file = f)
        /\ catalogue'[up[s].file].born = up[s].born /\ Inherited(s)' = {}
    BY <1>4, <1>6, <2>2, <2>4 DEF Numbered
  <2>6. up[s].file \in FileIds
    BY <2>5 DEF FilesInv, UploadsFit, UpFits
  <2>7. CASE up[s].file # f
    <3>1. 0 \notin FileIds
      BY FilesAssumption DEF FileIds
    <3>2. \A w \in VersionIds :
             /\ versions'[w].file = up[s].file <=> versions[w].file = up[s].file
             /\ versions[w].file = up[s].file =>
                   versions'[w].no = versions[w].no /\ versions'[w].born = versions[w].born
      BY <1>2, <1>3, <1>7, <2>6, <2>7, <3>1
    <3>3. up'[s].renamed = up[s].renamed
      BY <1>4, <1>6, <2>5, <2>7, NumbersTyped DEF Upload
    <3> QED BY <1>4, <1>6, <1>7, <2>1, <2>6, <2>7, <3>2, <3>3, NumberKept DEF UploadNumbered
  <2>8. CASE up[s].file = f
    <3>1. ~up[t].new
      BY <1>7, <2>1, <2>5, <2>8 DEF UploadNumbered, NewBirth
    <3>2. up[t].kind = "deposit" /\ ~up[t].renamed /\ upAt[t] = "committing"
      <4>1. up[t].kind \in {"deposit", "version", "new"}
        BY <1>2 DEF Upload
      <4>2. up[t].kind = "deposit" /\ ~up[t].renamed
        BY <2>1, <2>5, <2>8, <3>1, <4>1 DEF marks, UploadNumbered, Posted
      <4> QED BY <1>0, <4>2 DEF CommitTurn
    <3>3. PICK g, n, m : g = f /\ n = up[t].no /\ m = up[s].no
      OBVIOUS
    <3>4. VersionsOf(g)' = VersionsOf(g) \cup {v} /\ v \notin VersionsOf(g)
      BY <1>2, <1>3, <1>7, <3>3 DEF VersionsOf
    <3>5. \A w \in VersionsOf(g) : versions'[w] = versions[w] /\ w \in VersionIds
      BY <1>7, <3>4 DEF VersionsOf
    <3>6. up'[s].file = g /\ up'[s].no = m /\ up'[s].born = up[s].born /\ upAt'[s] = "store"
      BY <1>4, <1>6, <2>5, <2>8, <3>3
    <3>7. \A w \in VersionsOf(g) \cup {v} : versions'[w].born = up[s].born
      BY <2>5, <3>4, <3>6 DEF Inherited
    <3>8. up[t].born = up[s].born /\ \A w \in VersionsOf(g) : versions[w].born = up[s].born
      BY <1>3, <1>7, <3>5, <3>7
    <3>9. Inherited(s) = {} /\ Inherited(t) = {}
      BY <2>8, <3>3, <3>8 DEF Inherited, f
    <3>10. Numbered(s) /\ Numbered(t)
      BY <1>7, <2>2, <2>5, <2>8, <3>1, <3>2, <3>8, <3>9 DEF Numbered, f
    <3>11. /\ m = 1 \/ HasLabel(g, m - 1)
           /\ Tops(g, m) \/ HasLabel(g, m)
           /\ n = 1 \/ HasLabel(g, n - 1)
           /\ Tops(g, n)
      BY <2>1, <2>8, <3>2, <3>3, <3>10 DEF UploadNumbered, NumberTop, f
    <3>12. m \in Nat /\ n \in Nat /\ \A w \in VersionsOf(g) : versions[w].no \in Nat
      <4>1. g \in FileIds /\ 0 \notin FileIds
        BY <1>2, <3>3, FilesAssumption DEF FileIds
      <4>2. \A w \in VersionsOf(g) : w \in VersionIds /\ versions[w] # NoVersion
        BY <1>3, <4>1 DEF VersionsOf
      <4> QED BY <3>3, <4>2, NumbersTyped
    <3>13. \A k : HasLabel(g, k)' <=> HasLabel(g, k) \/ k = n
      BY <1>3, <1>7, <3>3, <3>4, <3>5 DEF HasLabel
    <3>14. Tops(g, m) /\ n < m => Tops(g, m)'
      BY <1>3, <1>7, <3>3, <3>4, <3>5 DEF Tops
    <3>15. ~(Tops(g, m) /\ m < n)
      <4> SUFFICES ASSUME Tops(g, m), m < n PROVE FALSE
        OBVIOUS
      <4>1. CASE n = 1
        <5>1. m = 0
          BY <3>12, <4>1
        <5>2. HasLabel(g, 0 - 1)
          BY <3>11, <5>1
        <5> QED BY <3>12, <5>2 DEF HasLabel
      <4>2. CASE HasLabel(g, n - 1)
        <5>1. PICK w \in VersionsOf(g) : versions[w].no = n - 1
          BY <4>2 DEF HasLabel
        <5>2. versions[w].no < m
          BY <5>1 DEF Tops
        <5> QED BY <3>12, <5>1, <5>2
      <4> QED BY <3>11, <4>1, <4>2
    <3>16. n < m \/ n = m \/ m < n
      BY <3>12
    <3>17. Tops(g, m)' \/ HasLabel(g, m)'
      BY <3>11, <3>13, <3>14, <3>15, <3>16
    <3>18. m = 1 \/ HasLabel(g, m - 1)'
      BY <3>11, <3>13
    <3> QED BY <3>6, <3>17, <3>18 DEF NumberTop
  <2> QED BY <2>7, <2>8
<1> QED BY <1>8, <1>9, <1>10, <1>11 DEF LatestInv

-----------------------------------------------------------------------------
LEMMA LatestInitInv == FilesInit => LatestInv
<1> SUFFICES ASSUME FilesInit PROVE LatestInv
  OBVIOUS
<1>1. Births /\ DeletesOwn
  BY FileRowsDiffer, NoUploadFields DEF FilesInit, Births, DeletesOwn
<1>2. \A t \in Uploaders : UploadNumbered(t)
  BY NoUploadFields DEF FilesInit, UploadNumbered, NewBirth, Posted, NumberTop, Numbered
<1> QED BY <1>1, <1>2 DEF LatestInv

LEMMA UploadStepNumbered ==
    ASSUME FilesInv, LatestInv, NEW t \in Uploaders, UploadStep(t)
    PROVE  LatestInv'
BY UploadBeginsNumbered, VersionBeginsNumbered, NewBeginsNumbered, DepositFindsNumbered,
   DepositCreatesNumbered, DepositNumbersNumbered, StoreInsertsNumbered, StagesNumbered,
   CommitNumbered, EndsNumbered
DEF UploadStep

LEMMA LatestNextInv ==
    ASSUME FilesInv, LatestInv, [FilesNext]_fileVars
    PROVE  LatestInv'
<1>1. ASSUME NEW l \in Labels, NEW active \in BOOLEAN, admin_files_create(l, active)
      PROVE  LatestInv'
  BY <1>1, CreateNumbered
<1>2. 1 \in VersionIds
  BY FilesAssumption DEF VersionIds
<1>3. ASSUME NEW f \in FileIds,
             \/ \E l \in Labels, active \in BOOLEAN : EditFile(f, l, active)
             \/ create_grant(f) \/ delete_grant(f) \/ assign_beta_channel(f)
             \/ delete_channel_assignment(f)
      PROVE  LatestInv'
  BY <1>2, <1>3, EditsNumbered
<1>4. 1 \in FileIds
  BY FilesAssumption DEF FileIds
<1>5. ASSUME NEW v \in VersionIds,
             archive_file_version(v) \/ \E ch \in Channels : set_version_channel(v, ch)
      PROVE  LatestInv'
  BY <1>4, <1>5, EditsNumbered
<1>6. ASSUME NEW v \in VersionIds, NEW n \in 0..MaxNumber, rename_version_label(v, n)
      PROVE  LatestInv'
  BY <1>6, RenameNumbered
<1>7. CASE DeleteCommits
  BY <1>7, DeleteNumbered
<1>8. CASE \/ \E f \in FileIds : DeleteReads(f)
           \/ DeleteIsLocked \/ KeyRotated \/ UNCHANGED fileVars
           \/ \E p \in Paths : _unlink_blob(p)
  BY <1>8, LoopStepsNumbered
<1>9. ASSUME NEW t \in Uploaders, UploadStep(t) PROVE LatestInv'
  BY <1>9, UploadStepNumbered
<1>10. CASE FilesCrash
  BY <1>10, CrashNumbered
<1> QED BY <1>1, <1>3, <1>5, <1>6, <1>7, <1>8, <1>9, <1>10 DEF FilesNext

(* Only a commit makes a version appear.                                    *)
LEMMA OnlyCommitsAdd ==
    ASSUME FilesInv, [FilesNext]_fileVars, NEW v \in VersionIds,
           versions[v] = NoVersion, versions'[v] # NoVersion
    PROVE  \E t \in Uploaders : UploadCommits(t)
<1>1. ~UNCHANGED versions
  OBVIOUS
<1>2. ASSUME NEW w \in VersionIds, NEW row, versions[w] # NoVersion,
             versions' = [versions EXCEPT ![w] = row]
      PROVE  FALSE
  BY <1>2 DEF FilesInv, FilesTypeOK
<1>3. ASSUME NEW w \in VersionIds,
             \/ archive_file_version(w)
             \/ \E ch \in Channels : set_version_channel(w, ch)
             \/ \E n \in 0..MaxNumber : rename_version_label(w, n)
      PROVE  FALSE
  <2>1. versions[w] # NoVersion
    BY <1>3 DEF archive_file_version, set_version_channel, rename_version_label
  <2>2. \E row : versions' = [versions EXCEPT ![w] = row]
    BY <1>3 DEF archive_file_version, set_version_channel, rename_version_label
  <2> QED BY <1>2, <2>1, <2>2
<1>4. ~DeleteCommits
  BY DEF DeleteCommits
<1>5. ASSUME NEW t \in Uploaders, UploadStep(t) PROVE UploadCommits(t)
  BY <1>1, <1>5
  DEF UploadStep, UploadBegins, VersionBegins, NewBegins, DepositFinds, DepositCreates,
      DepositNumbers, StoreInserts, StoreIsLocked, StoreWrites, StoreFails, DepositReturns,
      CommitFails, UploadRollsBack, KeepCatalogue, fileTables
<1>6. CASE UNCHANGED versions
  BY <1>1, <1>6
<1> QED BY <1>3, <1>4, <1>5, <1>6
        DEF FilesNext, admin_files_create, EditFile, create_grant, delete_grant,
            assign_beta_channel, delete_channel_assignment, DeleteReads, DeleteIsLocked,
            _unlink_blob, FilesCrash, KeyRotated, fileVars, fileTables

(* The version that a deposit commits tops those of its file.               *)
LEMMA CommitIsServed ==
    ASSUME FilesInv, LatestInv, NEW t \in Uploaders, UploadCommits(t), upAt[t] = "committing",
           catalogue'[up[t].file].born = up[t].born, ~up[t].renamed, Inherited(t) = {},
           NEW ch \in Channels, NEW f, f = up[t].file, NEW v, v = up[t].id
    PROVE  Served(f, ch, v)'
<1> DEFINE row == [file |-> f, no |-> up[t].no, ch |-> up[t].ch, active |-> TRUE,
                   born |-> up[t].born]
<1>1. UploadNumbered(t) /\ up[t] \in Upload /\ f \in FileIds /\ v \in VersionIds
      /\ versions[v] = NoVersion
  BY Committing DEF LatestInv, UploadCommits
<1>2. versions' = [versions EXCEPT ![v] = row]
  BY DEF UploadCommits
<1>3. up[t].kind = "deposit" /\ up[t].ch = "stable"
  BY <1>1 DEF UploadNumbered, Posted
<1>4. versions'[v] = row /\ \A w \in VersionIds \ {v} : versions'[w] = versions[w]
  BY <1>1, <1>2 DEF FilesInv, FilesTypeOK
<1>5. row.file = f /\ row.no = up[t].no /\ row.ch = "stable" /\ row.active = TRUE
  BY <1>3
<1> HIDE DEF row
<1>6. v \in Candidates(f, ch)'
  BY <1>1, <1>4, <1>5 DEF Candidates, VersionsOf
<1>7. Tops(f, up[t].no)
  <2>1. CASE up[t].new
    <3>1. \A w \in VersionsOf(f) : versions[w] # NoVersion /\ versions[w].born = up[t].born
      BY <1>1, FileRowsDiffer, FilesAssumption DEF Inherited, VersionsOf, FileIds
    <3>2. VersionsOf(f) = {}
      BY <1>1, <2>1, <3>1 DEF UploadNumbered, NewBirth, VersionsOf
    <3> QED BY <3>2 DEF Tops
  <2>2. CASE ~up[t].new
    <3>1. catalogue' = catalogue
      BY <2>2 DEF UploadCommits
    <3>2. Numbered(t)
      BY <1>3, <2>2, <3>1 DEF Numbered
    <3> QED BY <1>1, <3>2 DEF UploadNumbered, NumberTop
  <2> QED BY <2>1, <2>2
<1>8. \A w \in Candidates(f, ch)' : w = v \/ (w \in VersionsOf(f) /\ versions'[w] = versions[w])
  BY <1>4 DEF Candidates, VersionsOf
<1>9. up[t].no \in Nat /\ \A w \in VersionsOf(f) : versions[w].no \in Nat
  <2>1. \A w \in VersionsOf(f) : w \in VersionIds /\ versions[w] # NoVersion
    BY <1>1, FileRowsDiffer, FilesAssumption DEF VersionsOf, FileIds
  <2> QED BY <2>1, NumbersTyped
<1>10. \A w \in Candidates(f, ch)' : versions'[w].no <= versions'[v].no
  BY <1>4, <1>5, <1>7, <1>8, <1>9 DEF Tops
<1> QED BY <1>6, <1>10 DEF Served

(* What POST /files/upload has published is what every reader of the file   *)
(* is served, on both channels, however many uploads of it race: a number   *)
(* that another has taken meanwhile is refused, and one that tops the       *)
(* file's when it is taken tops them when it is committed, unless the file  *)
(* goes or an administrator sets a label in between.                        *)
THEOREM DepositsAreServed == FilesSpec => LatestServed
<1> DEFINE Published == \A t \in Uploaders, f \in FileIds, v \in VersionIds :
         (/\ upAt[t] = "committing" /\ up[t].file = f /\ up[t].id = v
          /\ versions[v] = NoVersion /\ versions'[v] # NoVersion
          /\ catalogue'[f].born = up[t].born
          /\ ~up[t].renamed /\ Inherited(t) = {})
         => \A ch \in Channels : Served(f, ch, v)'
<1>1. FilesInv /\ LatestInv /\ [FilesNext]_fileVars => [Published]_fileVars
  <2> SUFFICES ASSUME FilesInv, LatestInv, [FilesNext]_fileVars,
                      NEW t \in Uploaders, NEW f \in FileIds, NEW v \in VersionIds,
                      upAt[t] = "committing", up[t].file = f, up[t].id = v,
                      versions[v] = NoVersion, versions'[v] # NoVersion,
                      catalogue'[f].born = up[t].born, ~up[t].renamed, Inherited(t) = {},
                      NEW ch \in Channels
               PROVE  Served(f, ch, v)'
    OBVIOUS
  <2>1. PICK s \in Uploaders : UploadCommits(s)
    BY OnlyCommitsAdd
  <2>2. writeLock = s /\ writeLock = t
    BY <2>1, Committing DEF UploadCommits, CommitTurn
  <2> QED BY <2>1, <2>2, CommitIsServed
<1>2. FilesInv /\ LatestInv /\ [FilesNext]_fileVars => LatestInv'
  BY LatestNextInv
<1> QED BY <1>1, <1>2, LatestInitInv, FilesInvHolds, PTL DEF LatestServed, FilesSpec

-----------------------------------------------------------------------------
(* The hot store: the invariant.                                            *)

(* Rows are numbered by the writes so far: no database has an identifier    *)
(* above them, nor a sequence more than one above.                          *)
RowsNumbered ==
    /\ \A r \in sqliteRows : r.id <= written
    /\ \A e \in Endpoints : pgSeq[e] <= written + 1 /\ \A r \in pgRows[e] : r.id <= written
    /\ \A t \in HotThreads : hpc[t] = "flushed" =>
          hloc[t].row \in HotRow /\ hloc[t].row.id <= written
    /\ \A a \in Admins : \A r \in aloc[a].todo : r.id <= written

(* Steps of the wizard are taken for an endpoint.                           *)
EndpointNamed ==
    /\ wizard.schema \/ wizard.migrated \/ wizard.skipped => wizard.host # NoEndpoint
    /\ \A a \in Admins :
          /\ apc[a] \in {"preparing", "clearing", "copying", "enabling"} =>
                wizard.host # NoEndpoint
          /\ apc[a] \in {"clearing", "copying", "enabling"} => aloc[a].target \in Endpoints

(* What a migration has read and has no more to do is in its Postgres,      *)
(* unless another one has emptied it.                                       *)
CopiesKept ==
    \A a \in Admins : apc[a] = "copying" /\ a \notin overrun =>
        \A r \in aloc[a].source : r \in aloc[a].todo \/ r \in pgRows[aloc[a].target]

(* No row of a Postgres, committed or in flight, is at or above its         *)
(* sequence.                                                                *)
SequenceFree(e) ==
    /\ \A r \in pgRows[e] : r.id < pgSeq[e]
    /\ \A t \in HotThreads : hpc[t] = "flushed" /\ hloc[t].host = e => hloc[t].row.id < pgSeq[e]

(* The alignments that count: of the store that is on, and of the routes    *)
(* about to switch theirs on.                                               *)
Aligned(e) == e \notin misaligned => SequenceFree(e)
SequencesFree ==
    /\ InService(wizard) => Aligned(wizard.host)
    /\ \A a \in Admins : apc[a] = "enabling" => Aligned(aloc[a].target)

HotInv == /\ HotTypeOK /\ RowsNumbered /\ EndpointNamed /\ CopiesKept /\ SequencesFree
          /\ MigratedRowsStay

LEMMA HotRowNumbered == \A r \in HotRow : r.id \in Nat /\ r.id >= 1
BY HotAssumption DEF HotRow

LEMMA HotNothing ==
    /\ NoWizard \in Wizard /\ NoInsert \in HotInsert /\ Aside \in AdminLocal
    /\ Aside.todo = {} /\ Aside.source = {}
    /\ ~NoWizard.schema /\ ~NoWizard.migrated /\ ~NoWizard.skipped
<1>1. NoWizard \in Wizard
  BY DEF NoWizard, Wizard, Targets, Tests
<1>2. NoInsert \in HotInsert
  BY DEF NoInsert, HotInsert, Targets
<1>3. Aside \in AdminLocal /\ Aside.todo = {} /\ Aside.source = {}
  BY DEF Aside, AdminLocal, Targets, Tests
<1> QED BY <1>1, <1>2, <1>3 DEF NoWizard

(* The first identifier above all those of a table.                         *)
LEMMA AboveAll ==
    ASSUME NEW rows \in SUBSET HotRow, NEW n \in 0..MaxHotRows, \A r \in rows : r.id <= n
    PROVE  /\ Above(rows) \in 1..(n + 1)
           /\ \A r \in rows : r.id < Above(rows)
<1> DEFINE Fits(k) == /\ \A r \in rows : r.id < k
                      /\ k = 1 \/ k - 1 \in Ids(rows)
           Bound == 3 * MaxHotRows + 2
<1>0. Bound \in Nat /\ n + 1 <= Bound /\ n \in Nat
  BY HotAssumption
<1>1. \E k \in 1..Bound : Fits(k)
  <2>1. CASE rows = {}
    <3>1. Fits(1)
      BY <2>1
    <3> QED BY <1>0, <3>1
  <2>2. CASE rows # {}
    <3>1. Ids(rows) # {} /\ Ids(rows) \subseteq 1..n
      BY <2>2, <1>0, HotRowNumbered DEF Ids
    <3>2. PICK m \in Ids(rows) : \A i \in Ids(rows) : i <= m
      <4>1. Ids(rows) \subseteq 0..n
        BY <1>0, <3>1
      <4> QED BY <1>0, <3>1, <4>1, GreatestOfSet
    <3>3. m \in 1..n /\ m + 1 \in 1..Bound /\ (m + 1) - 1 = m
      BY <1>0, <3>1, <3>2
    <3>4. ASSUME NEW r \in rows PROVE r.id < m + 1
      <4>1. r.id \in Ids(rows)
        BY DEF Ids
      <4>2. PICK i \in 1..n : i = r.id
        BY <3>1, <4>1
      <4>3. i <= m
        BY <3>2, <4>1, <4>2
      <4>4. i < m + 1
        BY <1>0, <3>3, <4>3
      <4> QED BY <4>2, <4>4
    <3>5. Fits(m + 1)
      BY <3>2, <3>3, <3>4
    <3> QED BY <3>3, <3>5
  <2> QED BY <2>1, <2>2
<1>2. Above(rows) = CHOOSE k \in 1..Bound : Fits(k)
  BY DEF Above
<1> HIDE DEF Fits
<1>3. Above(rows) \in 1..Bound /\ Fits(Above(rows))
  BY <1>1, <1>2
<1>4. PICK k \in 1..Bound : k = Above(rows)
  BY <1>3
<1>5. Fits(k)
  BY <1>3, <1>4
<1>6. k \in 1..(n + 1)
  <2>1. k = 1 \/ k - 1 \in Ids(rows)
    BY <1>5 DEF Fits
  <2>2. \A i \in Ids(rows) : i <= n
    BY DEF Ids
  <2> QED BY <1>0, <1>4, <2>1, <2>2
<1> QED BY <1>4, <1>5, <1>6 DEF Fits

(* Filling in what an administrator's route, or an insert, holds.           *)
LEMMA LocalFields ==
    ASSUME NEW loc \in AdminLocal
    PROVE  /\ \A c \in Tests : [loc EXCEPT !.test = c] \in AdminLocal
           /\ \A e \in Targets, on \in BOOLEAN :
                 [loc EXCEPT !.on = on, !.target = e] \in AdminLocal
           /\ \A e \in Targets, on \in BOOLEAN :
                 [loc EXCEPT !.target = e, !.on = on] \in AdminLocal
           /\ \A e \in Targets, skipped \in BOOLEAN :
                 [loc EXCEPT !.target = e, !.skipped = skipped] \in AdminLocal
           /\ \A p \in BOOLEAN, on \in BOOLEAN, e \in Targets :
                 [loc EXCEPT !.prov = p, !.on = on, !.target = e] \in AdminLocal
           /\ \A read \in SUBSET HotRow :
                 [loc EXCEPT !.source = read, !.todo = read] \in AdminLocal
           /\ \A todo \in SUBSET HotRow : [loc EXCEPT !.todo = todo] \in AdminLocal
BY DEF AdminLocal

LEMMA WizardFields ==
    ASSUME NEW w \in Wizard
    PROVE  /\ \A c \in Tests : [w EXCEPT !.test = c] \in Wizard
           /\ \A e \in Targets, on \in BOOLEAN : [w EXCEPT !.host = e, !.enabled = on] \in Wizard
           /\ [w EXCEPT !.schema = TRUE] \in Wizard
           /\ [w EXCEPT !.skipped = TRUE] \in Wizard
BY DEF Wizard, Tests

-----------------------------------------------------------------------------
(* The requests.                                                            *)

LEMMA HostNamed ==
    ASSUME HotInv
    PROVE  /\ InService(wizard) => wizard.host \in Endpoints
           /\ \A a \in Admins : apc[a] = "enabling" => aloc[a].target \in Endpoints
BY DEF HotInv, HotTypeOK, EndpointNamed, InService, Wizard, Targets

(* While the wizard stands still, the alignments that count hold if no      *)
(* sequence stops being free.                                               *)
LEMMA SequencesStay ==
    ASSUME HotInv, UNCHANGED <<wizard, apc, aloc, misaligned>>,
           \A e \in Endpoints : SequenceFree(e) => SequenceFree(e)'
    PROVE  SequencesFree'
<1>1. ASSUME NEW e \in Endpoints, Aligned(e) PROVE Aligned(e)'
  BY <1>1 DEF Aligned
<1>2. ASSUME InService(wizard') PROVE Aligned(wizard.host)'
  <2>1. InService(wizard) /\ wizard.host \in Endpoints
    BY <1>2, HostNamed
  <2>2. PICK e \in Endpoints : e = wizard.host
    BY <2>1
  <2>3. Aligned(e)'
    BY <1>1, <2>1, <2>2 DEF HotInv, SequencesFree
  <2> QED BY <2>2, <2>3 DEF Aligned, SequenceFree
<1>3. ASSUME NEW a \in Admins, apc'[a] = "enabling" PROVE Aligned(aloc[a].target)'
  <2>1. PICK e \in Endpoints : e = aloc[a].target
    BY <1>3, HostNamed
  <2>2. Aligned(e)'
    BY <1>1, <1>3, <2>1 DEF HotInv, SequencesFree
  <2> QED BY <2>1, <2>2 DEF Aligned, SequenceFree
<1> QED BY <1>2, <1>3 DEF SequencesFree

(* A request that writes nothing yet.                                       *)
LEMMA RequestGoes ==
    ASSUME HotInv, NEW t \in HotThreads, NEW at \in {"idle", "read", "ready"},
           NEW loc \in HotInsert,
           hpc' = [hpc EXCEPT ![t] = at], hloc' = [hloc EXCEPT ![t] = loc],
           hotCache' \in BOOLEAN, hotEngine' \in Targets, hotSynced' \in BOOLEAN,
           UNCHANGED <<hotStores, wizard, apc, aloc, written, hotFaults, hotHistory>>
    PROVE  HotInv'
<1> USE DEF hotStores, hotHistory
<1>0. /\ hpc'[t] # "flushed"
      /\ \A s \in HotThreads \ {t} : hpc'[s] = hpc[s] /\ hloc'[s] = hloc[s]
  BY DEF HotInv, HotTypeOK
<1>1. HotTypeOK'
  BY DEF HotInv, HotTypeOK
<1>2. RowsNumbered'
  BY <1>0 DEF HotInv, RowsNumbered
<1>3. EndpointNamed' /\ CopiesKept' /\ MigratedRowsStay'
  BY DEF HotInv, EndpointNamed, CopiesKept, MigratedRowsStay
<1>4. ASSUME NEW e \in Endpoints, SequenceFree(e) PROVE SequenceFree(e)'
  BY <1>0, <1>4 DEF SequenceFree
<1>5. SequencesFree'
  BY <1>4, SequencesStay
<1> QED BY <1>1, <1>2, <1>3, <1>5 DEF HotInv

LEMMA RequestReadsInv ==
    ASSUME HotInv, NEW t \in HotThreads,
           RequestFresh(t) \/ RequestReads(t) \/ RequestApplies(t) \/ RequestEnds(t)
    PROVE  HotInv'
<1>0. /\ hloc \in [HotThreads -> HotInsert] /\ hloc[t] \in HotInsert /\ hotCache \in BOOLEAN
      /\ hotEngine \in Targets /\ hotSynced \in BOOLEAN /\ wizard \in Wizard
  BY DEF HotInv, HotTypeOK
<1>1. CASE RequestFresh(t) \/ RequestEnds(t)
  <2>1. hloc' = [hloc EXCEPT ![t] = hloc[t]]
    BY <1>0, <1>1 DEF RequestFresh, RequestEnds
  <2> QED BY <1>0, <1>1, <2>1, RequestGoes DEF RequestFresh, RequestEnds, hotProc
<1>2. CASE RequestReads(t)
  <2> DEFINE loc == [hloc[t] EXCEPT !.on = wizard.enabled, !.host = wizard.host]
  <2>1. loc \in HotInsert
    BY <1>0 DEF HotInsert, Wizard
  <2>2. hloc' = [hloc EXCEPT ![t] = loc]
    BY <1>2 DEF RequestReads
  <2> HIDE DEF loc
  <2> QED BY <1>0, <1>2, <2>1, <2>2, RequestGoes DEF RequestReads
<1>3. CASE RequestApplies(t)
  <2>1. hloc[t].on \in BOOLEAN /\ hloc[t].host \in Targets
    BY <1>0 DEF HotInsert
  <2> QED BY <1>0, <1>3, <2>1, HotNothing, RequestGoes DEF RequestApplies, Sync
<1> QED BY <1>1, <1>2, <1>3

(* The flush takes the next identifier of the database that it is bound to. *)
LEMMA RequestFlushesInv ==
    ASSUME HotInv, NEW t \in HotThreads, RequestFlushes(t)
    PROVE  HotInv'
<1> DEFINE target == Route
           id == IF target = NoEndpoint THEN Above(sqliteRows) ELSE pgSeq[target]
           row == [id |-> id, n |-> written + 1]
           loc == [on |-> hloc[t].on, host |-> target, row |-> row]
<1>1. /\ written < MaxHotRows /\ written' = written + 1
      /\ target # NoEndpoint => target \in pgTables
      /\ hloc' = [hloc EXCEPT ![t] = loc] /\ hpc' = [hpc EXCEPT ![t] = "flushed"]
      /\ pgSeq' = IF target = NoEndpoint THEN pgSeq ELSE [pgSeq EXCEPT ![target] = id + 1]
      /\ UNCHANGED <<sqliteRows, pgRows, pgTables, wizard, hotCache, hotEngine, hotSynced, apc,
                     aloc, hotFaults, promised, cutShort, overrun, misaligned>>
  BY DEF RequestFlushes, hotProc, hotHistory
<1>2. /\ target \in Targets /\ (target # NoEndpoint => target \in Endpoints)
      /\ written \in Nat /\ written + 1 \in 0..MaxHotRows /\ MaxHotRows \in Nat
      /\ hloc[t].on \in BOOLEAN /\ HotTypeOK /\ RowsNumbered
  BY <1>1, HotAssumption DEF HotInv, HotTypeOK, Route, Targets, HotInsert
<1>3. id \in 1..(written + 1)
  <2>1. Above(sqliteRows) \in 1..(written + 1)
    <3>1. sqliteRows \in SUBSET HotRow /\ written \in 0..MaxHotRows
          /\ \A r \in sqliteRows : r.id <= written
      BY <1>2 DEF HotTypeOK, RowsNumbered
    <3> QED BY <3>1, AboveAll
  <2>2. target # NoEndpoint => pgSeq[target] \in 1..(written + 1)
    BY <1>2 DEF HotTypeOK, RowsNumbered
  <2> QED BY <2>1, <2>2
<1> HIDE DEF id, target
<1>4. row \in HotRow /\ row.id = id
  BY <1>2, <1>3 DEF HotRow
<1> HIDE DEF row
<1>5. loc \in HotInsert /\ loc.host = target /\ loc.row = row
  BY <1>2, <1>4 DEF HotInsert
<1> HIDE DEF loc
<1>6. /\ hpc'[t] = "flushed" /\ hloc'[t] = loc
      /\ \A s \in HotThreads \ {t} : hpc'[s] = hpc[s] /\ hloc'[s] = hloc[s]
  BY <1>1, <1>2 DEF HotTypeOK
<1>7. \A e \in Endpoints : /\ pgSeq'[e] \in 1..(written + 2)
                           /\ pgSeq[e] <= pgSeq'[e] /\ pgSeq[e] \in Nat
                           /\ e = target => pgSeq'[e] = id + 1 /\ pgSeq[e] = id
  BY <1>1, <1>2, <1>3, HotAssumption DEF HotTypeOK, RowsNumbered, id
<1>8. HotTypeOK'
  <2>1. pgSeq' \in [Endpoints -> 1..(3 * MaxHotRows + 2)]
    BY <1>1, <1>2, <1>3 DEF HotTypeOK
  <2>2. hloc' \in [HotThreads -> HotInsert] /\ written' \in 0..MaxHotRows
    BY <1>1, <1>2, <1>5 DEF HotTypeOK
  <2> QED BY <1>1, <1>2, <2>1, <2>2 DEF HotTypeOK
<1>9. RowsNumbered'
  <2>1. \A r \in HotRow : r.id <= written => r.id <= written + 1
    BY <1>2, HotRowNumbered
  <2>2. \A r \in sqliteRows : r.id <= written + 1
    BY <1>2, <2>1 DEF RowsNumbered, HotTypeOK
  <2>3. \A e \in Endpoints : pgSeq'[e] <= (written + 1) + 1
                             /\ \A r \in pgRows[e] : r.id <= written + 1
    BY <1>2, <1>7, <2>1 DEF RowsNumbered, HotTypeOK
  <2>4. \A s \in HotThreads : hpc'[s] = "flushed" =>
           hloc'[s].row \in HotRow /\ hloc'[s].row.id <= written + 1
    BY <1>2, <1>3, <1>4, <1>5, <1>6, <2>1 DEF RowsNumbered
  <2>5. \A a \in Admins : \A r \in aloc[a].todo : r.id <= written + 1
    BY <1>2, <2>1 DEF RowsNumbered, HotTypeOK, AdminLocal
  <2> QED BY <1>1, <2>2, <2>3, <2>4, <2>5 DEF RowsNumbered
<1>10. EndpointNamed' /\ CopiesKept' /\ MigratedRowsStay'
  BY <1>1 DEF HotInv, EndpointNamed, CopiesKept, MigratedRowsStay
<1>11. ASSUME NEW e \in Endpoints, SequenceFree(e) PROVE SequenceFree(e)'
  <2>1. ASSUME NEW r \in pgRows[e] PROVE r.id < pgSeq'[e]
    BY <1>2, <1>7, <1>11, HotRowNumbered DEF SequenceFree, HotTypeOK
  <2>2. ASSUME NEW s \in HotThreads, hpc'[s] = "flushed", hloc'[s].host = e
        PROVE  hloc'[s].row.id < pgSeq'[e]
    <3>1. CASE s = t
      BY <1>3, <1>4, <1>5, <1>6, <1>7, <2>2, <3>1
    <3>2. CASE s # t
      <4>1. hloc[s].row \in HotRow /\ hloc[s].row.id < pgSeq[e]
        BY <1>2, <1>6, <1>11, <2>2, <3>2 DEF SequenceFree, RowsNumbered
      <4> QED BY <1>6, <1>7, <3>2, <4>1, HotRowNumbered
    <3> QED BY <3>1, <3>2
  <2> QED BY <1>1, <2>1, <2>2 DEF SequenceFree
<1>12. SequencesFree'
  BY <1>1, <1>11, SequencesStay
<1> QED BY <1>8, <1>9, <1>10, <1>12 DEF HotInv

LEMMA RequestInsertFailsInv ==
    ASSUME HotInv, NEW t \in HotThreads, RequestInsertFails(t)
    PROVE  HotInv'
<1>1. /\ hpc' = [hpc EXCEPT ![t] = "idle"] /\ hloc' = [hloc EXCEPT ![t] = hloc[t]]
      /\ UNCHANGED <<sqliteRows, pgRows, pgTables, wizard, hotCache, hotEngine, hotSynced, apc,
                     aloc, written, hotFaults, promised, cutShort, overrun, misaligned>>
      /\ Route \in Endpoints
      /\ hloc[t] \in HotInsert /\ hotCache \in BOOLEAN /\ hotEngine \in Targets
      /\ hotSynced \in BOOLEAN
  BY DEF RequestInsertFails, hotProc, hotHistory, HotInv, HotTypeOK, Route, Targets
<1>2. CASE UNCHANGED pgSeq
  BY <1>1, <1>2, RequestGoes DEF hotStores, hotHistory
<1>3. ASSUME pgSeq[Route] \in Ids(pgRows[Route]),
             pgSeq' = [pgSeq EXCEPT ![Route] = pgSeq[Route] + 1]
      PROVE  HotInv'
  <2> DEFINE target == Route
             id == pgSeq[target]
  <2>1. target \in Endpoints /\ id \in 1..written /\ written \in 0..MaxHotRows
        /\ MaxHotRows \in Nat /\ pgSeq' = [pgSeq EXCEPT ![target] = id + 1]
    <3>1. PICK r \in pgRows[target] : r.id = id
      BY <1>3 DEF Ids
    <3>2. r \in HotRow /\ r.id <= written
      BY <1>1, <3>1 DEF HotInv, HotTypeOK, RowsNumbered
    <3> QED BY <1>1, <1>3, <3>1, <3>2, HotRowNumbered, HotAssumption DEF HotInv, HotTypeOK
  <2>2. /\ pgSeq' \in [Endpoints -> 1..(3 * MaxHotRows + 2)]
        /\ \A e \in Endpoints : /\ pgSeq[e] \in Nat /\ pgSeq'[e] \in Nat
                                /\ pgSeq[e] <= pgSeq'[e] /\ pgSeq'[e] <= written + 1
    BY <2>1 DEF HotInv, HotTypeOK, RowsNumbered
  <2>3. /\ hpc'[t] # "flushed" /\ hloc' = hloc
        /\ \A s \in HotThreads \ {t} : hpc'[s] = hpc[s]
    BY <1>1 DEF HotInv, HotTypeOK
  <2>4. HotTypeOK'
    BY <1>1, <2>2, <2>3 DEF HotInv, HotTypeOK
  <2>5. RowsNumbered'
    BY <1>1, <2>2, <2>3 DEF HotInv, RowsNumbered
  <2>6. EndpointNamed' /\ CopiesKept' /\ MigratedRowsStay'
    BY <1>1 DEF HotInv, EndpointNamed, CopiesKept, MigratedRowsStay
  <2>7. ASSUME NEW e \in Endpoints, SequenceFree(e) PROVE SequenceFree(e)'
    <3>1. ASSUME NEW r \in pgRows[e] PROVE r.id < pgSeq'[e]
      BY <2>2, <2>7, HotRowNumbered DEF SequenceFree, HotInv, HotTypeOK
    <3>2. ASSUME NEW s \in HotThreads, hpc'[s] = "flushed", hloc[s].host = e
          PROVE  hloc[s].row.id < pgSeq'[e]
      <4>1. hloc[s].row \in HotRow /\ hloc[s].row.id < pgSeq[e]
        BY <2>3, <2>7, <3>2 DEF SequenceFree, HotInv, RowsNumbered
      <4> QED BY <2>2, <4>1, HotRowNumbered
    <3> QED BY <1>1, <2>3, <3>1, <3>2 DEF SequenceFree
  <2>8. SequencesFree'
    BY <1>1, <2>7, SequencesStay
  <2> QED BY <2>4, <2>5, <2>6, <2>8 DEF HotInv
<1> QED BY <1>2, <1>3 DEF RequestInsertFails

LEMMA RequestCommitsInv ==
    ASSUME HotInv, NEW t \in HotThreads, RequestCommits(t)
    PROVE  HotInv'
<1> DEFINE target == hloc[t].host
           row == hloc[t].row
<1>1. /\ hpc[t] = "flushed" /\ hpc' = [hpc EXCEPT ![t] = "idle"]
      /\ hloc' = [hloc EXCEPT ![t] = NoInsert]
      /\ UNCHANGED <<pgSeq, pgTables, wizard, hotCache, hotEngine, hotSynced, apc, aloc, written,
                     hotFaults, promised, cutShort, overrun, misaligned>>
      /\ target = NoEndpoint => sqliteRows' = sqliteRows \cup {row} /\ pgRows' = pgRows
      /\ target # NoEndpoint => /\ sqliteRows' = sqliteRows
                                /\ pgRows' = [pgRows EXCEPT ![target] = pgRows[target] \cup {row}]
  BY DEF RequestCommits, hotProc, hotHistory
<1>2. row \in HotRow /\ row.id <= written /\ target \in Targets
  BY <1>1 DEF HotInv, RowsNumbered, HotTypeOK, HotInsert
<1>3. /\ hpc'[t] # "flushed"
      /\ \A s \in HotThreads \ {t} : hpc'[s] = hpc[s] /\ hloc'[s] = hloc[s]
  BY <1>1 DEF HotInv, HotTypeOK
<1>4. \A e \in Endpoints : \A r \in pgRows'[e] : r \in pgRows[e] \/ (r = row /\ e = target)
  BY <1>1, <1>2 DEF HotInv, HotTypeOK, Targets
<1>5. \A e \in Endpoints : pgRows[e] \subseteq pgRows'[e]
  BY <1>1, <1>2 DEF HotInv, HotTypeOK, Targets
<1>6. SequencesFree'
  <2>1. ASSUME NEW e \in Endpoints, SequenceFree(e) PROVE SequenceFree(e)'
    BY <1>1, <1>3, <1>4, <2>1 DEF SequenceFree
  <2> QED BY <1>1, <2>1, SequencesStay
<1> HIDE DEF target, row
<1>7. HotTypeOK'
  <2>1. sqliteRows' \subseteq HotRow /\ pgRows' \in [Endpoints -> SUBSET HotRow]
    BY <1>1, <1>2 DEF HotInv, HotTypeOK, Targets
  <2>2. hloc' \in [HotThreads -> HotInsert]
    BY <1>1, HotNothing DEF HotInv, HotTypeOK
  <2> QED BY <1>1, <2>1, <2>2 DEF HotInv, HotTypeOK
<1>8. RowsNumbered'
  <2>1. \A r \in sqliteRows' : r.id <= written
    BY <1>1, <1>2 DEF HotInv, RowsNumbered
  <2>2. \A e \in Endpoints : \A r \in pgRows'[e] : r.id <= written
    BY <1>2, <1>4 DEF HotInv, RowsNumbered
  <2>3. \A s \in HotThreads : hpc'[s] = "flushed" =>
           hloc'[s].row \in HotRow /\ hloc'[s].row.id <= written
    BY <1>3 DEF HotInv, RowsNumbered
  <2> QED BY <1>1, <2>1, <2>2, <2>3 DEF HotInv, RowsNumbered
<1>9. EndpointNamed' /\ MigratedRowsStay'
  BY <1>1, <1>5 DEF HotInv, EndpointNamed, MigratedRowsStay
<1>10. CopiesKept'
  BY <1>1, <1>5 DEF HotInv, CopiesKept, EndpointNamed
<1> QED BY <1>6, <1>7, <1>8, <1>9, <1>10 DEF HotInv

-----------------------------------------------------------------------------
(* The administrator.                                                       *)

AdminStages == {"idle", "saved", "disposed", "synced", "testing", "preparing", "clearing",
                "switched"}

(* A route goes on next to the others, and leaves the rows and sequences.   *)
LEMMA AdminGoes ==
    ASSUME HotInv, NEW a \in Admins, NEW pc \in AdminStages, NEW loc \in AdminLocal,
           apc' = [apc EXCEPT ![a] = pc], aloc' = [aloc EXCEPT ![a] = loc],
           \A r \in loc.todo : r.id <= written,
           wizard' \in Wizard, pgTables' \in SUBSET Endpoints,
           hotCache' \in BOOLEAN, hotEngine' \in Targets, hotSynced' \in BOOLEAN,
           hotFaults' \in 0..MaxHotFaults,
           overrun' \in {overrun, overrun \ {a}},
           misaligned \subseteq misaligned', misaligned' \subseteq Endpoints,
           UNCHANGED <<sqliteRows, pgRows, pgSeq, hpc, hloc, written, promised, cutShort>>,
           wizard'.schema \/ wizard'.migrated \/ wizard'.skipped => wizard'.host # NoEndpoint,
           wizard.host # NoEndpoint => wizard'.host # NoEndpoint,
           pc \in {"preparing", "clearing"} => wizard.host # NoEndpoint,
           pc = "clearing" => loc.target \in Endpoints,
           InService(wizard') /\ wizard'.host \notin misaligned' => SequenceFree(wizard'.host)
    PROVE  HotInv'
<1>1. /\ apc'[a] = pc /\ aloc'[a] = loc
      /\ \A b \in Admins \ {a} : /\ apc'[b] = apc[b] /\ aloc'[b] = aloc[b]
                                 /\ b \in overrun' <=> b \in overrun
  BY DEF HotInv, HotTypeOK
<1>2. HotTypeOK'
  BY DEF HotInv, HotTypeOK, AdminStages
<1>3. RowsNumbered'
  BY <1>1 DEF HotInv, RowsNumbered
<1>4. EndpointNamed'
  <2>1. ASSUME NEW b \in Admins
        PROVE  /\ apc'[b] \in {"preparing", "clearing", "copying", "enabling"} =>
                     wizard'.host # NoEndpoint
               /\ apc'[b] \in {"clearing", "copying", "enabling"} => aloc'[b].target \in Endpoints
    <3>1. CASE b = a
      BY <1>1, <3>1 DEF AdminStages
    <3>2. CASE b # a
      BY <1>1, <3>2 DEF HotInv, EndpointNamed
    <3> QED BY <3>1, <3>2
  <2> QED BY <2>1 DEF EndpointNamed
<1>5. CopiesKept'
  <2>1. pc # "copying"
    BY DEF AdminStages
  <2> QED BY <1>1, <2>1 DEF HotInv, CopiesKept
<1>6. SequencesFree'
  <2>1. ASSUME InService(wizard') PROVE Aligned(wizard.host)'
    BY <2>1 DEF Aligned, SequenceFree
  <2>2. ASSUME NEW b \in Admins, apc'[b] = "enabling" PROVE Aligned(aloc[b].target)'
    <3>1. b # a /\ apc[b] = "enabling" /\ aloc'[b] = aloc[b]
      BY <1>1, <2>2 DEF AdminStages
    <3>2. Aligned(aloc[b].target)
      BY <3>1 DEF HotInv, SequencesFree
    <3> QED BY <3>1, <3>2 DEF Aligned, SequenceFree
  <2> QED BY <2>1, <2>2 DEF SequencesFree
<1>7. MigratedRowsStay'
  BY DEF HotInv, MigratedRowsStay
<1> QED BY <1>2, <1>3, <1>4, <1>5, <1>6, <1>7 DEF HotInv

LEMMA AdminFacts ==
    ASSUME HotInv, NEW a \in Admins
    PROVE  /\ aloc[a] \in AdminLocal /\ wizard \in Wizard /\ pgTables \in SUBSET Endpoints
           /\ hotCache \in BOOLEAN /\ hotEngine \in Targets /\ hotSynced \in BOOLEAN
           /\ hotFaults \in 0..MaxHotFaults /\ NoEndpoint \in Targets
           /\ wizard.host \in Targets /\ wizard.enabled \in BOOLEAN /\ wizard.test \in Tests
           /\ wizard.skipped \in BOOLEAN
           /\ wizard.host # NoEndpoint => wizard.host \in Endpoints
           /\ misaligned \subseteq Endpoints
           /\ aloc[a].on \in BOOLEAN /\ aloc[a].skipped \in BOOLEAN /\ aloc[a].target \in Targets
           /\ \A r \in aloc[a].todo : r.id <= written
<1>1. aloc[a] \in AdminLocal /\ wizard \in Wizard
  BY DEF HotInv, HotTypeOK
<1>2. aloc[a].on \in BOOLEAN /\ aloc[a].skipped \in BOOLEAN /\ aloc[a].target \in Targets
  BY <1>1 DEF AdminLocal
<1> QED BY <1>1, <1>2 DEF HotInv, HotTypeOK, Wizard, Targets, RowsNumbered

LEMMA SaveInv ==
    ASSUME HotInv, NEW a \in Admins, NEW e \in Endpoints, NEW prov \in BOOLEAN,
           Save(a, e, prov)
    PROVE  HotInv'
<1> DEFINE loc == [Aside EXCEPT !.prov = prov, !.on = wizard.enabled, !.target = e]
           other == [NoWizard EXCEPT !.host = e, !.enabled = wizard.enabled]
           same == [wizard EXCEPT !.test = "none"]
<1>1. /\ apc' = [apc EXCEPT ![a] = "saved"] /\ aloc' = [aloc EXCEPT ![a] = loc]
      /\ wizard' = IF e = wizard.host THEN same ELSE other
      /\ UNCHANGED <<sqliteRows, pgRows, pgSeq, pgTables, hotCache, hotEngine, hotSynced, hpc,
                     hloc, written, hotFaults, promised, cutShort, overrun, misaligned>>
  BY DEF Save, At, hotStores, hotProc, hotHistory
<1>2. /\ aloc[a] \in AdminLocal /\ wizard \in Wizard /\ pgTables \in SUBSET Endpoints
      /\ hotCache \in BOOLEAN /\ hotEngine \in Targets /\ hotSynced \in BOOLEAN
      /\ hotFaults \in 0..MaxHotFaults /\ wizard.enabled \in BOOLEAN
      /\ misaligned \subseteq Endpoints /\ e \in Targets /\ e # NoEndpoint
  BY AdminFacts, HotAssumption DEF Targets
<1>3. loc \in AdminLocal /\ loc.todo = {}
  <2>1. loc \in AdminLocal
    BY <1>2, HotNothing, LocalFields
  <2> QED BY <2>1 DEF Aside
<1>4. same \in Wizard /\ \A x \in {same} : /\ x.host = wizard.host /\ x.schema = wizard.schema
                                          /\ x.migrated = wizard.migrated
                                          /\ x.skipped = wizard.skipped
                                          /\ x.enabled = wizard.enabled
  BY <1>2 DEF Wizard, Tests
<1>5. other \in Wizard /\ other.host = e /\ ~other.schema /\ ~other.migrated /\ ~other.skipped
  <2>1. other \in Wizard
    BY <1>2, HotNothing, WizardFields
  <2> QED BY <2>1 DEF NoWizard
<1> HIDE DEF loc, other, same
<1>6. /\ wizard' \in Wizard
      /\ wizard'.schema \/ wizard'.migrated \/ wizard'.skipped => wizard'.host # NoEndpoint
      /\ wizard.host # NoEndpoint => wizard'.host # NoEndpoint
      /\ InService(wizard') => wizard'.host = wizard.host /\ InService(wizard)
  BY <1>1, <1>2, <1>4, <1>5 DEF HotInv, EndpointNamed, InService
<1>7. InService(wizard') /\ wizard'.host \notin misaligned' => SequenceFree(wizard'.host)
  BY <1>1, <1>6 DEF HotInv, SequencesFree, Aligned
<1> QED BY <1>1, <1>2, <1>3, <1>6, <1>7, AdminGoes DEF AdminStages

(* A step that leaves the wizard's record, or sets its test.                *)
LEMMA TestedOnly ==
    ASSUME HotInv, NEW a \in Admins, NEW pc \in AdminStages \ {"clearing"},
           NEW loc \in AdminLocal,
           apc' = [apc EXCEPT ![a] = pc], aloc' = [aloc EXCEPT ![a] = loc],
           \A r \in loc.todo : r.id <= written,
           \/ wizard' = wizard
           \/ \E c \in Tests : wizard' = [wizard EXCEPT !.test = c],
           pc = "preparing" => wizard.host # NoEndpoint,
           pgTables' \in SUBSET Endpoints,
           hotCache' \in BOOLEAN, hotEngine' \in Targets, hotSynced' \in BOOLEAN,
           hotFaults' \in 0..MaxHotFaults,
           overrun' \in {overrun, overrun \ {a}},
           UNCHANGED <<sqliteRows, pgRows, pgSeq, hpc, hloc, written, promised, cutShort,
                       misaligned>>
    PROVE  HotInv'
<1>1. wizard \in Wizard /\ misaligned \subseteq Endpoints
  BY DEF HotInv, HotTypeOK
<1>2. /\ wizard' \in Wizard /\ wizard'.host = wizard.host /\ wizard'.schema = wizard.schema
      /\ wizard'.migrated = wizard.migrated /\ wizard'.skipped = wizard.skipped
      /\ wizard'.enabled = wizard.enabled
  <2>1. \A c \in Tests : LET w == [wizard EXCEPT !.test = c]
                         IN /\ w \in Wizard /\ w.host = wizard.host /\ w.schema = wizard.schema
                            /\ w.migrated = wizard.migrated /\ w.skipped = wizard.skipped
                            /\ w.enabled = wizard.enabled
    BY <1>1 DEF Wizard
  <2> QED BY <1>1, <2>1
<1>3. /\ wizard'.schema \/ wizard'.migrated \/ wizard'.skipped => wizard'.host # NoEndpoint
      /\ InService(wizard') /\ wizard'.host \notin misaligned' => SequenceFree(wizard'.host)
  BY <1>2 DEF HotInv, EndpointNamed, SequencesFree, Aligned, InService
<1> QED BY <1>1, <1>2, <1>3, AdminGoes DEF AdminStages

(* Saving, testing, switching, and preparing the schema.                    *)
LEMMA AdminWaitsInv ==
    ASSUME HotInv, NEW a \in Admins,
           \/ SaveDisposes(a) \/ SaveSyncs(a) \/ ProvisionMarksTested(a) \/ TestBegins(a)
           \/ TestEnds(a) \/ PrepareBegins(a) \/ SwitchApplies(a) \/ MigrateFails(a)
    PROVE  HotInv'
<1> USE DEF hotStores, hotProc, hotHistory
<1>0. /\ aloc[a] \in AdminLocal /\ wizard \in Wizard /\ pgTables \in SUBSET Endpoints
      /\ hotCache \in BOOLEAN /\ hotEngine \in Targets /\ hotSynced \in BOOLEAN
      /\ hotFaults \in 0..MaxHotFaults /\ NoEndpoint \in Targets
      /\ wizard.host \in Targets /\ wizard.enabled \in BOOLEAN /\ wizard.test \in Tests
      /\ wizard.host # NoEndpoint => wizard.host \in Endpoints
      /\ aloc[a].on \in BOOLEAN /\ aloc[a].target \in Targets
      /\ Aside \in AdminLocal /\ Aside.todo = {}
      /\ \A r \in aloc[a].todo : r.id <= written
  BY AdminFacts, HotNothing
<1>1. \A loc \in AdminLocal : [loc EXCEPT !.test = wizard.test] \in AdminLocal
  BY <1>0, LocalFields
<1>2. CASE SaveDisposes(a)
  BY <1>0, <1>2, TestedOnly DEF SaveDisposes, At, AdminStages
<1>3. CASE SaveSyncs(a)
  <2>1. hotCache' \in BOOLEAN /\ hotEngine' \in Targets
    BY <1>0, <1>3 DEF SaveSyncs, Sync
  <2> QED BY <1>0, <1>3, <2>1, TestedOnly DEF SaveSyncs, At, Home, AdminStages
<1>4. CASE ProvisionMarksTested(a)
  BY <1>0, <1>4, TestedOnly DEF ProvisionMarksTested, Home, AdminStages, Tests
<1>5. CASE TestBegins(a)
  <2> DEFINE loc == [Aside EXCEPT !.test = wizard.test]
  <2>1. loc \in AdminLocal /\ loc.todo = {}
    BY <1>0, <1>1 DEF Aside
  <2>2. apc' = [apc EXCEPT ![a] = "testing"] /\ aloc' = [aloc EXCEPT ![a] = loc]
    BY <1>5 DEF TestBegins, At
  <2> HIDE DEF loc
  <2> QED BY <1>0, <1>5, <2>1, <2>2, TestedOnly DEF TestBegins, AdminStages
<1>6. CASE TestEnds(a)
  <2>1. hotFaults' \in 0..MaxHotFaults
    BY <1>0, <1>6, HotAssumption DEF TestEnds
  <2>2. wizard' = wizard \/ \E c \in Tests : wizard' = [wizard EXCEPT !.test = c]
    BY <1>6 DEF TestEnds, Tests
  <2> QED BY <1>0, <1>6, <2>1, <2>2, TestedOnly DEF TestEnds, Home, AdminStages
<1>7. CASE PrepareBegins(a)
  BY <1>0, <1>7, TestedOnly DEF PrepareBegins, At, Sync, AdminStages
<1>8. CASE SwitchApplies(a)
  <2>1. hotEngine' \in Targets /\ hotCache' \in BOOLEAN
    BY <1>0, <1>8 DEF SwitchApplies
  <2> QED BY <1>0, <1>8, <2>1, TestedOnly DEF SwitchApplies, Home, AdminStages
<1>9. CASE MigrateFails(a)
  <2>1. hotFaults' \in 0..MaxHotFaults
    BY <1>0, <1>9, HotAssumption DEF MigrateFails
  <2> QED BY <1>0, <1>9, <2>1, TestedOnly DEF MigrateFails, Home, AdminStages
<1> QED BY <1>2, <1>3, <1>4, <1>5, <1>6, <1>7, <1>8, <1>9

(* The steps that a wizard takes: prepared, skipped.                        *)
LEMMA WizardSet ==
    ASSUME NEW w \in Wizard
    PROVE  /\ \A x \in {[w EXCEPT !.schema = TRUE]} : x.host = w.host
           /\ \A x \in {[w EXCEPT !.skipped = TRUE]} : x.host = w.host /\ x.enabled = w.enabled
BY DEF Wizard

(* A commit that puts an endpoint into service says so, unless the route    *)
(* has just aligned it.                                                     *)
LEMMA NewlyInServiceMarked ==
    ASSUME HotInv, wizard'.host = wizard.host, misaligned \cup NewlyInService \subseteq misaligned'
    PROVE  InService(wizard') /\ wizard'.host \notin misaligned' => SequenceFree(wizard'.host)
BY DEF HotInv, SequencesFree, Aligned, NewlyInService

LEMMA WizardStepsInv ==
    ASSUME HotInv, NEW a \in Admins,
           \/ PrepareCommits(a) \/ MigrateBegins(a) \/ Skip(a)
           \/ SwitchCommits(a, FALSE) \/ SwitchCommits(a, TRUE)
    PROVE  HotInv'
<1> USE DEF hotStores, hotProc, hotHistory
<1>0. /\ aloc[a] \in AdminLocal /\ wizard \in Wizard /\ pgTables \in SUBSET Endpoints
      /\ hotCache \in BOOLEAN /\ hotEngine \in Targets /\ hotSynced \in BOOLEAN
      /\ hotFaults \in 0..MaxHotFaults /\ NoEndpoint \in Targets
      /\ wizard.host \in Targets /\ wizard.enabled \in BOOLEAN /\ wizard.skipped \in BOOLEAN
      /\ wizard.host # NoEndpoint => wizard.host \in Endpoints
      /\ Aside \in AdminLocal /\ \A r \in Aside.todo : r.id <= written
      /\ \A r \in aloc[a].todo : r.id <= written
      /\ aloc[a].on \in BOOLEAN /\ misaligned \subseteq Endpoints
  BY AdminFacts, HotNothing
<1>1. /\ wizard.schema \/ wizard.migrated \/ wizard.skipped => wizard.host # NoEndpoint
      /\ apc[a] \in {"preparing", "enabling"} => wizard.host # NoEndpoint
      /\ apc[a] = "enabling" => Aligned(aloc[a].target)
      /\ InService(wizard) => Aligned(wizard.host)
  BY DEF HotInv, EndpointNamed, SequencesFree
<1>2. CASE PrepareCommits(a)
  <2> DEFINE w == [wizard EXCEPT !.schema = TRUE]
  <2>1. w \in Wizard /\ w.host = wizard.host
    BY <1>0, WizardFields, WizardSet
  <2>2. wizard' = w /\ apc[a] = "preparing" /\ apc' = [apc EXCEPT ![a] = "idle"]
        /\ aloc' = [aloc EXCEPT ![a] = Aside] /\ misaligned' = misaligned \cup NewlyInService
    BY <1>2 DEF PrepareCommits, Home
  <2> HIDE DEF w
  <2>3. wizard'.host \in Endpoints /\ wizard'.host = wizard.host /\ misaligned' \subseteq Endpoints
    BY <1>0, <1>1, <2>1, <2>2 DEF NewlyInService
  <2>4. InService(wizard') /\ wizard'.host \notin misaligned' => SequenceFree(wizard'.host)
    BY <2>2, <2>3, NewlyInServiceMarked
  <2> QED BY <1>0, <1>1, <1>2, <2>1, <2>2, <2>3, <2>4, AdminGoes DEF PrepareCommits, AdminStages
<1>3. CASE MigrateBegins(a)
  <2> DEFINE loc == [Aside EXCEPT !.target = wizard.host, !.skipped = wizard.skipped]
  <2>1. loc \in AdminLocal /\ loc.todo = {} /\ loc.target = wizard.host
    <3>1. loc \in AdminLocal
      BY <1>0, LocalFields
    <3> QED BY <3>1 DEF Aside
  <2>2. apc' = [apc EXCEPT ![a] = "clearing"] /\ aloc' = [aloc EXCEPT ![a] = loc]
        /\ wizard' = wizard /\ wizard.host \in Endpoints /\ wizard.host # NoEndpoint
    BY <1>0, <1>1, <1>3 DEF MigrateBegins, At
  <2> HIDE DEF loc
  <2>3. InService(wizard') /\ wizard'.host \notin misaligned => SequenceFree(wizard'.host)
    BY <1>1, <2>2 DEF Aligned
  <2>4. hotCache' \in BOOLEAN /\ hotEngine' \in Targets
    BY <1>0, <1>3 DEF MigrateBegins, Sync
  <2> QED BY <1>0, <1>1, <1>3, <2>1, <2>2, <2>3, <2>4, AdminGoes DEF MigrateBegins, AdminStages
<1>4. CASE Skip(a)
  <2> DEFINE w == [wizard EXCEPT !.skipped = TRUE]
  <2>1. w \in Wizard /\ w.host = wizard.host /\ w.enabled = wizard.enabled
    BY <1>0, WizardFields, WizardSet
  <2>2. wizard' = w /\ apc' = [apc EXCEPT ![a] = "idle"] /\ aloc' = [aloc EXCEPT ![a] = aloc[a]]
        /\ ~wizard.enabled /\ wizard.host # NoEndpoint
    BY <1>0, <1>1, <1>4 DEF Skip, HotInv, HotTypeOK
  <2> HIDE DEF w
  <2>3. ~InService(wizard') /\ wizard'.host # NoEndpoint
    BY <2>1, <2>2 DEF InService
  <2> QED BY <1>0, <1>4, <2>1, <2>2, <2>3, AdminGoes DEF Skip, AdminStages
<1>5. ASSUME NEW on \in BOOLEAN, SwitchCommits(a, on) PROVE HotInv'
  <2> DEFINE set == on /\ (wizard.enabled \/ ~aloc[a].on)
             w == [wizard EXCEPT !.enabled = set]
             e == IF on THEN wizard.host ELSE NoEndpoint
             loc == [Aside EXCEPT !.on = wizard'.enabled, !.target = e]
  <2>0. set \in BOOLEAN /\ (set => on)
    BY Zenon
  <2>1. wizard' = w /\ apc' = [apc EXCEPT ![a] = "switched"] /\ aloc' = [aloc EXCEPT ![a] = loc]
        /\ (on => apc[a] = "enabling")
        /\ misaligned' = misaligned \cup (NewlyInService \ {aloc[a].target})
    BY <1>5 DEF SwitchCommits, At
  <2> HIDE DEF set
  <2>2. w \in Wizard /\ w.host = wizard.host /\ w.schema = wizard.schema
        /\ w.migrated = wizard.migrated /\ w.skipped = wizard.skipped /\ w.enabled = set
    BY <1>0, <2>0 DEF Wizard
  <2>3. e \in Targets
    BY <1>0
  <2> HIDE DEF w, e
  <2>4. wizard' \in Wizard /\ wizard'.host = wizard.host /\ wizard'.enabled = set
    BY <2>1, <2>2
  <2>5. loc \in AdminLocal /\ loc.todo = {}
    <3>1. loc \in AdminLocal
      BY <1>0, <2>0, <2>3, <2>4, LocalFields
    <3> QED BY <3>1 DEF Aside
  <2> HIDE DEF loc
  <2>6. NewlyInService \subseteq Endpoints
    BY <1>0, <1>1, <2>1, <2>2 DEF NewlyInService, InService
  <2>7. InService(wizard') /\ wizard'.host \notin misaligned' => SequenceFree(wizard'.host)
    <3> SUFFICES ASSUME InService(wizard'), wizard'.host \notin misaligned'
                 PROVE  SequenceFree(wizard.host)
      BY <2>4
    <3>1. on
      BY <2>0, <2>4 DEF InService
    <3>2. CASE InService(wizard)
      BY <1>1, <2>1, <2>4, <3>2 DEF Aligned
    <3>3. CASE ~InService(wizard)
      <4>1. wizard.host \in NewlyInService
        BY <2>4, <3>3 DEF NewlyInService
      <4>2. wizard.host = aloc[a].target /\ wizard.host \notin misaligned
        BY <2>1, <2>4, <4>1
      <4> QED BY <1>1, <2>1, <3>1, <4>2 DEF Aligned
    <3> QED BY <3>2, <3>3
  <2>8. wizard'.schema \/ wizard'.migrated \/ wizard'.skipped => wizard'.host # NoEndpoint
    BY <1>1, <2>1, <2>2
  <2> QED BY <1>0, <1>5, <2>1, <2>4, <2>5, <2>6, <2>7, <2>8, AdminGoes
          DEF SwitchCommits, AdminStages
<1> QED BY <1>2, <1>3, <1>4, <1>5

(* The destination is emptied: until the copy ends it is cut short, and     *)
(* another copy that was under way is overrun.                              *)
LEMMA MigrateClearsInv ==
    ASSUME HotInv, NEW a \in Admins, MigrateClears(a)
    PROVE  HotInv'
<1> DEFINE e == aloc[a].target
           read == IF Route = e THEN {} ELSE RowsOf(Route)
           loc == [aloc[a] EXCEPT !.source = read, !.todo = read]
           others == {b \in Admins \ {a} : apc[b] = "copying" /\ aloc[b].target = e}
<1>1. /\ apc[a] = "clearing" /\ apc' = [apc EXCEPT ![a] = "copying"]
      /\ aloc' = [aloc EXCEPT ![a] = loc]
      /\ pgRows' = [pgRows EXCEPT ![e] = {}] /\ cutShort' = cutShort \cup {e}
      /\ overrun' = (overrun \ {a}) \cup others
      /\ UNCHANGED <<sqliteRows, pgSeq, pgTables, wizard, hotCache, hotEngine, hotSynced, hpc,
                     hloc, written, hotFaults, promised, misaligned>>
  BY DEF MigrateClears, At, hotProc
<1>2. e \in Endpoints /\ wizard.host # NoEndpoint
  BY <1>1 DEF HotInv, EndpointNamed
<1>3. read \in SUBSET HotRow /\ \A r \in read : r.id <= written
  <2>1. Route = NoEndpoint \/ Route \in Endpoints
    BY DEF Route, HotInv, HotTypeOK, Targets
  <2> QED BY <2>1 DEF RowsOf, HotInv, HotTypeOK, RowsNumbered
<1>4. aloc[a] \in AdminLocal
  BY DEF HotInv, HotTypeOK
<1> HIDE DEF read
<1>5. loc \in AdminLocal /\ loc.target = e /\ loc.todo = read /\ loc.source = read
  <2>1. loc \in AdminLocal
    BY <1>3, <1>4, LocalFields
  <2>2. loc.target = aloc[a].target /\ loc.todo = read /\ loc.source = read
    BY <1>4 DEF AdminLocal
  <2> QED BY <2>1, <2>2
<1> HIDE DEF loc
<1>6. /\ apc'[a] = "copying" /\ aloc'[a] = loc
      /\ \A b \in Admins \ {a} : apc'[b] = apc[b] /\ aloc'[b] = aloc[b]
  BY <1>1 DEF HotInv, HotTypeOK
<1>7. \A d \in Endpoints : pgRows'[d] = IF d = e THEN {} ELSE pgRows[d]
  BY <1>1 DEF HotInv, HotTypeOK
<1>8. HotTypeOK'
  BY <1>1, <1>2, <1>5 DEF HotInv, HotTypeOK
<1>9. RowsNumbered'
  <2>1. \A b \in Admins : \A r \in aloc'[b].todo : r.id <= written
    BY <1>3, <1>5, <1>6 DEF HotInv, RowsNumbered
  <2> QED BY <1>1, <1>7, <2>1 DEF HotInv, RowsNumbered
<1>10. EndpointNamed'
  BY <1>1, <1>2, <1>5, <1>6 DEF HotInv, EndpointNamed
<1>11. CopiesKept'
  <2> SUFFICES ASSUME NEW b \in Admins, apc'[b] = "copying", b \notin overrun',
                      NEW r \in aloc'[b].source
               PROVE  r \in aloc'[b].todo \/ r \in pgRows'[aloc'[b].target]
    BY DEF CopiesKept
  <2>1. CASE b = a
    BY <1>5, <1>6, <2>1
  <2>2. CASE b # a
    <3>1. apc[b] = "copying" /\ b \notin overrun /\ aloc'[b] = aloc[b] /\ aloc[b].target # e
      BY <1>1, <1>6, <2>2
    <3>2. aloc[b].target \in Endpoints
      BY <3>1 DEF HotInv, EndpointNamed
    <3> QED BY <1>7, <3>1, <3>2 DEF HotInv, CopiesKept
  <2> QED BY <2>1, <2>2
<1>12. SequencesFree'
  <2>1. ASSUME NEW d \in Endpoints, Aligned(d) PROVE Aligned(d)'
    BY <1>1, <1>7, <2>1 DEF Aligned, SequenceFree
  <2>2. ASSUME InService(wizard') PROVE Aligned(wizard.host)'
    <3>1. PICK d \in Endpoints : d = wizard.host
      BY <1>1, <2>2, HostNamed
    <3>2. Aligned(d)'
      BY <1>1, <2>1, <2>2, <3>1 DEF HotInv, SequencesFree
    <3> QED BY <1>1, <3>1, <3>2 DEF Aligned, SequenceFree
  <2>3. ASSUME NEW b \in Admins, apc'[b] = "enabling" PROVE Aligned(aloc[b].target)'
    <3>1. apc[b] = "enabling" /\ aloc'[b] = aloc[b]
      BY <1>6, <2>3
    <3>2. PICK d \in Endpoints : d = aloc[b].target
      BY <3>1, HostNamed
    <3>3. Aligned(d)'
      BY <2>1, <3>1, <3>2 DEF HotInv, SequencesFree
    <3> QED BY <3>1, <3>2, <3>3 DEF Aligned, SequenceFree
  <2> QED BY <2>2, <2>3 DEF SequencesFree
<1>13. MigratedRowsStay'
  BY <1>1, <1>7 DEF HotInv, MigratedRowsStay
<1> QED BY <1>8, <1>9, <1>10, <1>11, <1>12, <1>13 DEF HotInv

LEMMA MigrateCopiesInv ==
    ASSUME HotInv, NEW a \in Admins, NEW row \in aloc[a].todo, MigrateCopies(a, row)
    PROVE  HotInv'
<1> DEFINE e == aloc[a].target
           loc == [aloc[a] EXCEPT !.todo = aloc[a].todo \ {row}]
<1>1. /\ apc[a] = "copying" /\ aloc' = [aloc EXCEPT ![a] = loc]
      /\ pgRows' = [pgRows EXCEPT ![e] = pgRows[e] \cup {row}]
      /\ misaligned' = IF Relied(e) THEN misaligned \cup {e} ELSE misaligned
      /\ UNCHANGED <<sqliteRows, pgSeq, pgTables, wizard, hotCache, hotEngine, hotSynced, apc, hpc,
                     hloc, written, hotFaults, promised, cutShort, overrun>>
  BY DEF MigrateCopies, hotProc
<1>2. e \in Endpoints
  BY <1>1 DEF HotInv, EndpointNamed
<1>3. aloc[a] \in AdminLocal /\ aloc[a].todo \in SUBSET HotRow /\ row \in HotRow
      /\ row.id <= written
  BY DEF HotInv, HotTypeOK, AdminLocal, RowsNumbered
<1>4. loc \in AdminLocal /\ loc.target = e /\ loc.todo = aloc[a].todo \ {row}
      /\ loc.source = aloc[a].source
  <2>1. loc \in AdminLocal
    BY <1>3, LocalFields
  <2>2. loc.target = aloc[a].target /\ loc.todo = aloc[a].todo \ {row}
        /\ loc.source = aloc[a].source
    BY <1>3 DEF AdminLocal
  <2> QED BY <2>1, <2>2
<1> HIDE DEF loc
<1>5. aloc'[a] = loc /\ \A b \in Admins \ {a} : aloc'[b] = aloc[b]
  BY <1>1 DEF HotInv, HotTypeOK
<1>6. \A d \in Endpoints : pgRows'[d] = IF d = e THEN pgRows[e] \cup {row} ELSE pgRows[d]
  BY <1>1 DEF HotInv, HotTypeOK
<1>7. HotTypeOK'
  BY <1>1, <1>2, <1>3, <1>4 DEF HotInv, HotTypeOK
<1>8. RowsNumbered'
  <2>1. \A b \in Admins : \A r \in aloc'[b].todo : r.id <= written
    BY <1>4, <1>5 DEF HotInv, RowsNumbered
  <2>2. \A d \in Endpoints : \A r \in pgRows'[d] : r.id <= written
    BY <1>2, <1>3, <1>6 DEF HotInv, RowsNumbered
  <2> QED BY <1>1, <2>1, <2>2 DEF HotInv, RowsNumbered
<1>9. EndpointNamed'
  BY <1>1, <1>2, <1>4, <1>5 DEF HotInv, EndpointNamed
<1>10. CopiesKept'
  <2> SUFFICES ASSUME NEW b \in Admins, apc[b] = "copying", b \notin overrun,
                      NEW r \in aloc'[b].source
               PROVE  r \in aloc'[b].todo \/ r \in pgRows'[aloc'[b].target]
    BY <1>1 DEF CopiesKept
  <2>1. aloc[b].target \in Endpoints /\ aloc'[b].target = aloc[b].target
        /\ aloc'[b].source = aloc[b].source
    BY <1>4, <1>5 DEF HotInv, EndpointNamed
  <2>2. r \in aloc[b].todo \/ r \in pgRows[aloc[b].target]
    BY <2>1 DEF HotInv, CopiesKept
  <2>3. CASE b = a
    BY <1>4, <1>5, <1>6, <2>1, <2>2, <2>3
  <2>4. CASE b # a
    BY <1>5, <1>6, <2>1, <2>2, <2>4
  <2> QED BY <2>3, <2>4
<1>11. SequencesFree'
  <2>1. ASSUME NEW d \in Endpoints, Aligned(d), d = e => Relied(e) PROVE Aligned(d)'
    <3>1. CASE d = e
      BY <1>1, <2>1, <3>1 DEF Aligned
    <3>2. CASE d # e
      BY <1>1, <1>6, <2>1, <3>2 DEF Aligned, SequenceFree
    <3> QED BY <3>1, <3>2
  <2>2. ASSUME InService(wizard') PROVE Aligned(wizard.host)'
    <3>1. PICK d \in Endpoints : d = wizard.host
      BY <1>1, <2>2, HostNamed
    <3>2. Relied(e) /\ Aligned(d)
      BY <1>1, <2>2, <3>1 DEF Relied, InService, HotInv, SequencesFree
    <3>3. Aligned(d)'
      BY <2>1, <3>2
    <3> QED BY <1>1, <3>1, <3>3 DEF Aligned, SequenceFree
  <2>3. ASSUME NEW b \in Admins, apc'[b] = "enabling" PROVE Aligned(aloc[b].target)'
    <3>1. apc[b] = "enabling" /\ b # a /\ aloc'[b] = aloc[b]
      BY <1>1, <1>5, <2>3
    <3>2. PICK d \in Endpoints : d = aloc[b].target
      BY <3>1, HostNamed
    <3>3. Aligned(d) /\ (d = e => Relied(e))
      BY <3>1, <3>2 DEF HotInv, SequencesFree, Relied
    <3>4. Aligned(d)'
      BY <2>1, <3>3
    <3> QED BY <3>1, <3>2, <3>4 DEF Aligned, SequenceFree
  <2> QED BY <2>2, <2>3 DEF SequencesFree
<1>12. MigratedRowsStay'
  BY <1>1, <1>6 DEF HotInv, MigratedRowsStay
<1> QED BY <1>7, <1>8, <1>9, <1>10, <1>11, <1>12 DEF HotInv

(* A sequence set one above the committed rows is above all of them ...     *)
LEMMA AboveRows ==
    ASSUME HotInv, NEW e \in Endpoints
    PROVE  /\ Above(pgRows[e]) \in 1..(written + 1)
           /\ Above(pgRows[e]) \in 1..(3 * MaxHotRows + 2)
           /\ \A r \in pgRows[e] : r.id < Above(pgRows[e])
<1>1. pgRows[e] \in SUBSET HotRow /\ written \in 0..MaxHotRows
      /\ \A r \in pgRows[e] : r.id <= written
  BY DEF HotInv, HotTypeOK, RowsNumbered
<1>2. /\ Above(pgRows[e]) \in 1..(written + 1)
      /\ \A r \in pgRows[e] : r.id < Above(pgRows[e])
  BY <1>1, AboveAll
<1> QED BY <1>1, <1>2, HotAssumption

(* ... so that its endpoint is aligned unless an insert is in flight, and   *)
(* the others are what they were.                                           *)
LEMMA AlignAligns ==
    ASSUME HotInv, NEW e \in Endpoints, Align(e), AfterAlign(e) \subseteq misaligned',
           UNCHANGED <<pgRows, hpc, hloc>>
    PROVE  \A d \in Endpoints : d = e \/ Aligned(d) => Aligned(d)'
<1>1. pgSeq'[e] = Above(pgRows[e]) /\ \A d \in Endpoints \ {e} : pgSeq'[d] = pgSeq[d]
  BY DEF Align, HotInv, HotTypeOK
<1>2. ASSUME e \notin misaligned' PROVE SequenceFree(e)'
  <2>1. Pending(e) = {}
    BY <1>2 DEF AfterAlign
  <2>2. ~\E t \in HotThreads : hpc[t] = "flushed" /\ hloc[t].host = e
    BY <2>1 DEF Pending
  <2>3. \A r \in pgRows[e] : r.id < pgSeq'[e]
    BY <1>1, AboveRows
  <2> QED BY <2>2, <2>3 DEF SequenceFree
<1>3. ASSUME NEW d \in Endpoints \ {e}, Aligned(d) PROVE Aligned(d)'
  <2>1. d \in misaligned => d \in misaligned'
    BY DEF AfterAlign
  <2> QED BY <1>1, <1>3, <2>1 DEF Aligned, SequenceFree
<1>4. Aligned(e)'
  BY <1>2 DEF Aligned
<1> QED BY <1>3, <1>4

LEMMA MigrateEndsInv ==
    ASSUME HotInv, NEW a \in Admins, MigrateEnds(a)
    PROVE  HotInv'
<1> DEFINE e == aloc[a].target
           n == Above(pgRows[e])
           skipped == wizard.skipped /\ ~aloc[a].skipped
           w == [wizard EXCEPT !.migrated = TRUE, !.skipped = skipped]
<1>1. /\ apc[a] = "copying" /\ aloc[a].todo = {} /\ Align(e)
      /\ apc' = [apc EXCEPT ![a] = "idle"] /\ aloc' = [aloc EXCEPT ![a] = Aside]
      /\ pgSeq' = [pgSeq EXCEPT ![e] = n] /\ wizard' = w
      /\ misaligned' = AfterAlign(e) \cup (NewlyInService \ {e})
      /\ overrun' = overrun \ {a}
      /\ a \in overrun => promised' = promised /\ cutShort' = cutShort
      /\ a \notin overrun => /\ promised' = [promised EXCEPT ![e] = aloc[a].source]
                             /\ cutShort' = cutShort \ {e}
      /\ UNCHANGED <<sqliteRows, pgRows, pgTables, hotCache, hotEngine, hotSynced, hpc, hloc,
                     written, hotFaults>>
  BY DEF MigrateEnds, Migrated, Home, Align, hotProc
<1>2. e \in Endpoints /\ wizard.host # NoEndpoint /\ wizard.host \in Endpoints
      /\ wizard \in Wizard /\ misaligned \subseteq Endpoints
  BY <1>1, AdminFacts DEF HotInv, EndpointNamed
<1>3. n \in 1..(written + 1) /\ n \in 1..(3 * MaxHotRows + 2)
  BY <1>2, AboveRows
<1>4. /\ aloc[a].source \in SUBSET HotRow
      /\ a \notin overrun => aloc[a].source \subseteq pgRows[e]
  BY <1>1 DEF HotInv, HotTypeOK, AdminLocal, CopiesKept
<1>5. skipped \in BOOLEAN
  BY Zenon
<1> HIDE DEF skipped
<1>6. w \in Wizard /\ w.host = wizard.host
  BY <1>2, <1>5 DEF Wizard
<1> HIDE DEF n, w
<1>7. /\ apc'[a] = "idle" /\ aloc'[a] = Aside
      /\ \A b \in Admins \ {a} : /\ apc'[b] = apc[b] /\ aloc'[b] = aloc[b]
                                 /\ b \in overrun' <=> b \in overrun
  BY <1>1 DEF HotInv, HotTypeOK
<1>8. NewlyInService \subseteq {wizard.host} /\ misaligned' \subseteq Endpoints
  BY <1>1, <1>2, <1>6 DEF NewlyInService, AfterAlign
<1>9. HotTypeOK'
  <2>1. pgSeq' \in [Endpoints -> 1..(3 * MaxHotRows + 2)]
    BY <1>1, <1>3 DEF HotInv, HotTypeOK
  <2>2. promised' \in [Endpoints -> SUBSET HotRow] /\ cutShort' \subseteq Endpoints
    BY <1>1, <1>4 DEF HotInv, HotTypeOK
  <2>3. aloc' \in [Admins -> AdminLocal] /\ overrun' \subseteq Admins
    BY <1>1, HotNothing DEF HotInv, HotTypeOK
  <2>4. wizard' \in Wizard
    BY <1>1, <1>6
  <2> QED BY <1>1, <1>8, <2>1, <2>2, <2>3, <2>4 DEF HotInv, HotTypeOK
<1>10. RowsNumbered'
  <2>1. \A d \in Endpoints : pgSeq'[d] <= written + 1
    BY <1>1, <1>3 DEF HotInv, HotTypeOK, RowsNumbered
  <2>2. \A b \in Admins : \A r \in aloc'[b].todo : r.id <= written
    BY <1>7, HotNothing DEF HotInv, RowsNumbered
  <2> QED BY <1>1, <2>1, <2>2 DEF HotInv, RowsNumbered
<1>11. EndpointNamed' /\ CopiesKept'
  <2>1. wizard'.host # NoEndpoint
    BY <1>1, <1>2, <1>6
  <2>2. EndpointNamed'
    BY <1>7, <2>1 DEF HotInv, EndpointNamed
  <2>3. CopiesKept'
    BY <1>1, <1>7 DEF HotInv, CopiesKept
  <2> QED BY <2>2, <2>3
<1>12. SequencesFree'
  <2>1. AfterAlign(e) \subseteq misaligned'
    BY <1>1
  <2>2. \A d \in Endpoints : d = e \/ Aligned(d) => Aligned(d)'
    BY <1>1, <1>2, <2>1, AlignAligns
  <2>3. PICK h \in Endpoints : h = wizard.host /\ wizard'.host = h
    BY <1>1, <1>2, <1>6
  <2>4. ASSUME InService(wizard') PROVE Aligned(wizard.host)'
    <3>1. CASE h = e \/ InService(wizard)
      <4>1. h = e \/ Aligned(h)
        BY <2>3, <3>1 DEF HotInv, SequencesFree
      <4>2. Aligned(h)'
        BY <2>2, <4>1
      <4> QED BY <2>3, <4>2 DEF Aligned, SequenceFree
    <3>2. CASE h # e /\ ~InService(wizard)
      <4>1. h \in misaligned'
        BY <1>1, <2>3, <2>4, <3>2 DEF NewlyInService
      <4> QED BY <2>3, <4>1 DEF Aligned
    <3> QED BY <3>1, <3>2
  <2>5. ASSUME NEW b \in Admins, apc'[b] = "enabling" PROVE Aligned(aloc[b].target)'
    <3>1. apc[b] = "enabling" /\ aloc'[b] = aloc[b]
      BY <1>7, <2>5
    <3>2. PICK d \in Endpoints : d = aloc[b].target
      BY <3>1, HostNamed
    <3>3. Aligned(d)'
      BY <2>2, <3>1, <3>2 DEF HotInv, SequencesFree
    <3> QED BY <3>1, <3>2, <3>3 DEF Aligned, SequenceFree
  <2> QED BY <2>4, <2>5 DEF SequencesFree
<1>13. MigratedRowsStay'
  <2>1. CASE a \in overrun
    BY <1>1, <2>1 DEF HotInv, MigratedRowsStay
  <2>2. CASE a \notin overrun
    BY <1>1, <1>4, <2>2 DEF HotInv, HotTypeOK, MigratedRowsStay
  <2> QED BY <2>1, <2>2
<1> QED BY <1>9, <1>10, <1>11, <1>12, <1>13 DEF HotInv

(* Before the switch the sequence is aligned, or is known not to be.        *)
LEMMA EnableBeginsInv ==
    ASSUME HotInv, NEW a \in Admins, EnableBegins(a)
    PROVE  HotInv'
<1> DEFINE e == wizard.host
           n == Above(pgRows[e])
           w == [wizard EXCEPT !.test = "ok"]
           loc == [Aside EXCEPT !.target = wizard.host, !.on = wizard.enabled]
<1>1. /\ e # NoEndpoint /\ wizard' = w
      /\ apc' = [apc EXCEPT ![a] = "enabling"] /\ aloc' = [aloc EXCEPT ![a] = loc]
      /\ hotCache' = wizard.enabled /\ hotEngine' = wizard.host
      /\ \/ /\ Align(e) /\ pgSeq' = [pgSeq EXCEPT ![e] = n] /\ hotFaults' = hotFaults
            /\ misaligned' = AfterAlign(e)
         \/ /\ pgSeq' = pgSeq /\ misaligned' = misaligned \cup {e}
            /\ hotFaults < MaxHotFaults /\ hotFaults' = hotFaults + 1
      /\ UNCHANGED <<sqliteRows, pgRows, pgTables, hotSynced, hpc, hloc, written, promised,
                     cutShort, overrun>>
  BY DEF EnableBegins, At, Sync, Align
<1>2. wizard \in Wizard /\ e \in Endpoints /\ e \in Targets /\ wizard.enabled \in BOOLEAN
      /\ hotFaults' \in 0..MaxHotFaults /\ misaligned \subseteq Endpoints
  <2>1. wizard \in Wizard /\ e \in Endpoints /\ e \in Targets /\ wizard.enabled \in BOOLEAN
        /\ misaligned \subseteq Endpoints
    BY <1>1, AdminFacts
  <2>2. hotFaults' \in 0..MaxHotFaults
    BY <1>1, HotAssumption DEF HotInv, HotTypeOK
  <2> QED BY <2>1, <2>2
<1>3. n \in 1..(written + 1) /\ n \in 1..(3 * MaxHotRows + 2)
  BY <1>2, AboveRows
<1>4. w \in Wizard /\ w.host = e /\ w.schema = wizard.schema /\ w.enabled = wizard.enabled
      /\ w.migrated = wizard.migrated /\ w.skipped = wizard.skipped
  BY <1>2 DEF Wizard, Tests
<1>5. loc \in AdminLocal /\ loc.todo = {} /\ loc.target = e
  <2>1. loc \in AdminLocal
    BY <1>2, HotNothing, LocalFields
  <2> QED BY <2>1 DEF Aside
<1> HIDE DEF e, n, w, loc
<1>6. /\ apc'[a] = "enabling" /\ aloc'[a] = loc
      /\ \A b \in Admins \ {a} : apc'[b] = apc[b] /\ aloc'[b] = aloc[b]
  BY <1>1 DEF HotInv, HotTypeOK
<1>7. HotTypeOK'
  <2>1. pgSeq' \in [Endpoints -> 1..(3 * MaxHotRows + 2)]
    BY <1>1, <1>3 DEF HotInv, HotTypeOK
  <2>2. aloc' \in [Admins -> AdminLocal] /\ misaligned' \subseteq Endpoints
    BY <1>1, <1>2, <1>5 DEF HotInv, HotTypeOK, AfterAlign
  <2>3. hotCache' \in BOOLEAN /\ hotEngine' \in Targets
    BY <1>1, <1>2 DEF e
  <2> QED BY <1>1, <1>2, <1>4, <2>1, <2>2, <2>3 DEF HotInv, HotTypeOK
<1>8. RowsNumbered'
  <2>1. \A d \in Endpoints : pgSeq'[d] <= written + 1
    BY <1>1, <1>3 DEF HotInv, HotTypeOK, RowsNumbered
  <2>2. \A b \in Admins : \A r \in aloc'[b].todo : r.id <= written
    BY <1>5, <1>6 DEF HotInv, RowsNumbered
  <2> QED BY <1>1, <2>1, <2>2 DEF HotInv, RowsNumbered
<1>9. EndpointNamed' /\ CopiesKept'
  <2>1. wizard'.host = e /\ e # NoEndpoint
    BY <1>1, <1>4
  <2>2. EndpointNamed'
    BY <1>2, <1>5, <1>6, <2>1 DEF HotInv, EndpointNamed
  <2>3. CopiesKept'
    BY <1>1, <1>6 DEF HotInv, CopiesKept
  <2> QED BY <2>2, <2>3
<1>10. SequencesFree'
  <2>1. ASSUME NEW d \in Endpoints, d = e \/ Aligned(d) PROVE Aligned(d)'
    <3>1. CASE Align(e) /\ misaligned' = AfterAlign(e)
      BY <1>1, <1>2, <2>1, <3>1, AlignAligns
    <3>2. CASE pgSeq' = pgSeq /\ misaligned' = misaligned \cup {e}
      BY <1>1, <2>1, <3>2 DEF Aligned, SequenceFree
    <3> QED BY <1>1, <3>1, <3>2
  <2>2. PICK h \in Endpoints : h = e
    BY <1>2
  <2>3. Aligned(h)'
    BY <2>1, <2>2
  <2>4. Aligned(wizard.host)'
    BY <1>1, <1>4, <2>2, <2>3 DEF Aligned, SequenceFree
  <2>5. ASSUME NEW b \in Admins, apc'[b] = "enabling" PROVE Aligned(aloc[b].target)'
    <3>1. CASE b = a
      BY <1>5, <1>6, <2>2, <2>3, <3>1 DEF Aligned, SequenceFree
    <3>2. CASE b # a
      <4>1. apc[b] = "enabling" /\ aloc'[b] = aloc[b]
        BY <1>6, <2>5, <3>2
      <4>2. PICK d \in Endpoints : d = aloc[b].target
        BY <4>1, HostNamed
      <4>3. Aligned(d)'
        BY <2>1, <4>1, <4>2 DEF HotInv, SequencesFree
      <4> QED BY <4>1, <4>2, <4>3 DEF Aligned, SequenceFree
    <3> QED BY <3>1, <3>2
  <2> QED BY <2>4, <2>5 DEF SequencesFree
<1>11. MigratedRowsStay'
  BY <1>1 DEF HotInv, MigratedRowsStay
<1> QED BY <1>7, <1>8, <1>9, <1>10, <1>11 DEF HotInv

-----------------------------------------------------------------------------
LEMMA HotInitInv == HotInit => HotInv
<1> SUFFICES ASSUME HotInit PROVE HotInv
  OBVIOUS
<1>1. HotTypeOK
  <2>1. pgSeq \in [Endpoints -> 1..(3 * MaxHotRows + 2)] /\ written \in 0..MaxHotRows
        /\ hotFaults \in 0..MaxHotFaults
    BY HotAssumption DEF HotInit
  <2>2. wizard \in Wizard /\ aloc \in [Admins -> AdminLocal] /\ hloc \in [HotThreads -> HotInsert]
    BY HotNothing DEF HotInit
  <2>3. hotCache \in BOOLEAN /\ hotEngine \in Targets /\ hotSynced \in BOOLEAN
    BY DEF HotInit, Targets
  <2> QED BY <2>1, <2>2, <2>3 DEF HotInit, HotTypeOK
<1>2. RowsNumbered
  BY HotNothing DEF HotInit, RowsNumbered
<1>3. EndpointNamed /\ SequencesFree
  BY HotNothing DEF HotInit, EndpointNamed, SequencesFree, InService
<1>4. CopiesKept /\ MigratedRowsStay
  BY HotNothing DEF HotInit, CopiesKept, MigratedRowsStay
<1> QED BY <1>1, <1>2, <1>3, <1>4 DEF HotInv

LEMMA HotNextInv ==
    ASSUME HotInv, [HotNext]_hotVars
    PROVE  HotInv'
<1>1. ASSUME UNCHANGED <<hotStores, wizard, apc, aloc, hpc, hloc, written, hotFaults, hotHistory>>,
             hotCache' \in BOOLEAN, hotEngine' \in Targets, hotSynced' \in BOOLEAN
      PROVE  HotInv'
  <2>1. UNCHANGED <<sqliteRows, pgRows, pgSeq, pgTables, wizard, apc, aloc, hpc, hloc, written,
                    hotFaults, promised, cutShort, overrun,
                    misaligned>>
    BY <1>1 DEF hotStores, hotHistory
  <2>2. HotTypeOK' /\ RowsNumbered' /\ EndpointNamed' /\ CopiesKept' /\ MigratedRowsStay'
    BY <1>1, <2>1
       DEF HotInv, HotTypeOK, RowsNumbered, EndpointNamed, CopiesKept, MigratedRowsStay
  <2>3. SequencesFree'
    BY <2>1 DEF HotInv, SequencesFree, Aligned, SequenceFree
  <2> QED BY <2>2, <2>3 DEF HotInv
<1>2. hotCache \in BOOLEAN /\ hotEngine \in Targets /\ hotSynced \in BOOLEAN
  BY DEF HotInv, HotTypeOK
<1>3. CASE SyncExpires
  BY <1>1, <1>2, <1>3 DEF SyncExpires
<1>4. ASSUME NEW t \in HotThreads, RequestStep(t) PROVE HotInv'
  BY <1>4, RequestReadsInv, RequestFlushesInv, RequestInsertFailsInv, RequestCommitsInv
     DEF RequestStep
<1>5. ASSUME NEW a \in Admins, AdminCall(a) PROVE HotInv'
  <2>1. ASSUME NEW e \in Endpoints, NEW prov \in BOOLEAN, Save(a, e, prov) PROVE HotInv'
    BY <2>1, SaveInv
  <2> QED BY <1>5, <2>1, AdminWaitsInv, WizardStepsInv, EnableBeginsInv DEF AdminCall
<1>6. ASSUME NEW a \in Admins, AdminContinues(a) PROVE HotInv'
  <2>1. ASSUME NEW row \in aloc[a].todo, MigrateCopies(a, row) PROVE HotInv'
    BY <2>1, MigrateCopiesInv
  <2> QED BY <1>6, <2>1, AdminWaitsInv, WizardStepsInv, MigrateClearsInv, MigrateEndsInv
          DEF AdminContinues
<1>7. CASE UNCHANGED hotVars
  BY <1>1, <1>2, <1>7 DEF hotVars, hotProc
<1> QED BY <1>3, <1>4, <1>5, <1>6, <1>7 DEF HotNext

LEMMA HotInvHolds == HotSpec => []HotInv
BY HotInitInv, HotNextInv, PTL DEF HotSpec

(* What the last complete migration has read is in its Postgres until the   *)
(* next one empties it, whatever requests insert meanwhile, and however     *)
(* many administrators migrate at once.                                     *)
THEOREM MigrationsStay == HotSpec => []MigratedRowsStay
<1>1. HotInv => MigratedRowsStay
  BY DEF HotInv
<1> QED BY HotInvHolds, <1>1, PTL

(* The Postgres that a completed wizard has switched on hands out           *)
(* identifiers that are free, through any order of saving, preparing,       *)
(* migrating, skipping and switching by any number of administrators, with  *)
(* requests under way whose copy of the switch is stale, unless its last    *)
(* alignment failed, ran next to an insert or was overtaken.                *)
THEOREM ServedStayAligned == HotSpec => []ServedAligned
<1>1. HotInv => ServedAligned
  BY DEF HotInv, SequencesFree, Aligned, SequenceFree, ServedAligned
<1> QED BY HotInvHolds, <1>1, PTL

-----------------------------------------------------------------------------
(* What a user sees of the files.                                          *)

(* A value to start from and a step for each number up to N define the      *)
(* values up to N.                                                          *)
Chain(g, base, step, N) == g[0] = base /\ \A n \in 1..N : g[n] = step[n][g[n - 1]]

LEMMA Iterate ==
    ASSUME NEW T, NEW base \in T, NEW N \in Nat, NEW step \in [1..N -> [T -> T]]
    PROVE  \E g \in [0..N -> T] : Chain(g, base, step, N)
<1> DEFINE Runs(g, m) == g[0] = base /\ \A n \in 1..m : g[n] = step[n][g[n - 1]]
           Bad == {m \in 0..N : ~\E g \in [0..m -> T] : Runs(g, m)}
<1>1. Bad = {}
  <2> SUFFICES ASSUME Bad # {} PROVE FALSE
    OBVIOUS
  <2>1. PICK m \in Bad : \A k \in Bad : m <= k
    <3>1. Bad \subseteq Nat
      OBVIOUS
    <3> HIDE DEF Bad
    <3> QED BY <3>1, LeastOfSet
  <2>2. m \in 0..N /\ m \in Nat /\ ~\E g \in [0..m -> T] : Runs(g, m)
    BY <2>1
  <2>3. m # 0
    <3> SUFFICES ASSUME m = 0 PROVE FALSE
      OBVIOUS
    <3>1. [n \in 0..0 |-> base] \in [0..m -> T] /\ Runs([n \in 0..0 |-> base], m)
      OBVIOUS
    <3> QED BY <2>2, <3>1
  <2>4. m - 1 \in 0..N /\ m - 1 \notin Bad
    <3>1. m - 1 \in 0..N /\ ~(m <= m - 1)
      BY <2>2, <2>3
    <3> HIDE DEF Bad
    <3> QED BY <2>1, <3>1
  <2>5. PICK g \in [0..(m - 1) -> T] : Runs(g, m - 1)
    BY <2>4
  <2> DEFINE h == [n \in 0..m |-> IF n = m THEN step[m][g[m - 1]] ELSE g[n]]
  <2>6. m - 1 \in 0..(m - 1) /\ m \in 1..N /\ m # 0
    BY <2>2, <2>3
  <2>7. step[m][g[m - 1]] \in T
    BY <2>6
  <2>8. h \in [0..m -> T]
    <3>1. \A n \in 0..m : n = m \/ n \in 0..(m - 1)
      BY <2>2
    <3> QED BY <2>7, <3>1
  <2>9. h[0] = base
    BY <2>2, <2>5, <2>6
  <2>10. \A n \in 1..m : h[n] = step[n][h[n - 1]]
    <3> SUFFICES ASSUME NEW n \in 1..m PROVE h[n] = step[n][h[n - 1]]
      OBVIOUS
    <3>1. n - 1 \in 0..m /\ n - 1 # m /\ n \in 0..m /\ h[n - 1] = g[n - 1]
      BY <2>2
    <3>2. CASE n = m
      BY <3>1, <3>2
    <3>3. CASE n # m
      <4>1. n \in 1..(m - 1)
        BY <2>2, <3>3
      <4> QED BY <2>5, <3>1, <3>3, <4>1
    <3> QED BY <3>2, <3>3
  <2> HIDE DEF h
  <2> QED BY <2>2, <2>8, <2>9, <2>10
<1>2. N \in 0..N /\ N \notin Bad
  BY <1>1
<1> QED BY <1>2 DEF Chain

(* Folders that were made form a tree under Top, not higher than there are *)
(* folders.                                                                 *)
Made == {e \in Folders : parent[e] # NotYet}
Depths(r) ==
    \A e \in Made :
       /\ r[e] \in 1..Cardinality(Made)
       /\ \/ parent[e] = Top /\ r[e] = 1
          \/ parent[e] \in Made /\ r[e] = r[parent[e]] + 1
Tree == \E r \in [Folders -> Nat] : Depths(r)
FilesPlaced == \A f \in Documents : shelf[f] \in Made \cup {Top, NotYet}
AccessInv == FileAccessTypeOK /\ Tree /\ FilesPlaced

(* Sets of folders have sizes, and a folder more counts for one.            *)
LEMMA FoldersCounted ==
    /\ \A S \in SUBSET Folders : /\ IsFiniteSet(S) /\ Cardinality(S) \in Nat
                                 /\ Cardinality(S) <= Cardinality(Folders)
    /\ \A S \in SUBSET Folders, d \in Folders :
          d \notin S => Cardinality(S \cup {d}) = Cardinality(S) + 1
<1>1. \A S \in SUBSET Folders : IsFiniteSet(S) /\ Cardinality(S) \in Nat
  BY FileAccessAssumption, FS_Subset, FS_CardinalityType
<1>2. \A S \in SUBSET Folders : Cardinality(S) <= Cardinality(Folders)
  BY FileAccessAssumption, FS_Subset
<1>3. \A S \in SUBSET Folders, d \in Folders :
          d \notin S => Cardinality(S \cup {d}) = Cardinality(S) + 1
  BY <1>1, FS_AddElement
<1> QED BY <1>1, <1>2, <1>3

LEMMA AccessInvInit == FileAccessInit => AccessInv
<1> SUFFICES ASSUME FileAccessInit PROVE AccessInv
  OBVIOUS
<1>1. Made = {}
  BY DEF FileAccessInit, Made
<1>2. [e \in Folders |-> 0] \in [Folders -> Nat] /\ Depths([e \in Folders |-> 0])
  BY <1>1 DEF Depths
<1>3. FileAccessTypeOK
  BY DEF FileAccessInit, FileAccessTypeOK, Ranks, Shared, Subjects
<1>4. FilesPlaced
  BY DEF FileAccessInit, FilesPlaced
<1> QED BY <1>2, <1>3, <1>4 DEF AccessInv, Tree

(* A new folder has nothing in it, and is put in a folder that is there.    *)
LEMMA TreeGrows ==
    ASSUME AccessInv, NEW d \in Folders, NEW p \in Folders \cup {Top}, create_folder(d, p)
    PROVE  AccessInv'
<1>1. /\ parent \in [Folders -> Folders \cup {Top, NotYet}] /\ parent[d] = NotYet
      /\ parent' = [parent EXCEPT ![d] = p] /\ (p = Top \/ p \in Made)
      /\ NotYet \notin Folders /\ NotYet # Top /\ Top \notin Folders
  BY FileAccessAssumption DEF AccessInv, FileAccessTypeOK, create_folder, There, Made
<1>2. FileAccessTypeOK'
  BY <1>1 DEF AccessInv, FileAccessTypeOK, create_folder
<1>3. PICK r \in [Folders -> Nat] : Depths(r)
  BY DEF AccessInv, Tree
<1>4. Made \subseteq Folders /\ d \notin Made /\ Made' = Made \cup {d}
  BY <1>1 DEF Made
<1>5. Cardinality(Made) \in Nat /\ Cardinality(Made') = Cardinality(Made) + 1
  BY <1>4, FoldersCounted
<1> DEFINE n == IF p = Top THEN 1 ELSE r[p] + 1
           q == [r EXCEPT ![d] = n]
<1>6. n \in 1..Cardinality(Made')
  BY <1>1, <1>3, <1>5 DEF Depths
<1>7. q \in [Folders -> Nat]
  BY <1>3, <1>5, <1>6
<1>8. q[d] = n /\ \A e \in Made : q[e] = r[e] /\ parent'[e] = parent[e] /\ parent[e] # d
  BY <1>1, <1>3, <1>4 DEF Depths
<1>9. Depths(q)'
  <2>1. SUFFICES ASSUME NEW e \in Made'
                 PROVE  /\ q[e] \in 1..Cardinality(Made')
                        /\ \/ parent'[e] = Top /\ q[e] = 1
                           \/ parent'[e] \in Made' /\ q[e] = q[parent'[e]] + 1
    BY DEF Depths
  <2>2. CASE e = d
    <3>1. parent'[e] = p /\ q[e] = n
      BY <1>1, <1>8, <2>2
    <3>2. p \in Made => q[p] = r[p] /\ p # Top
      BY <1>1, <1>4, <1>8
    <3> HIDE DEF q
    <3> QED BY <1>1, <1>4, <1>6, <3>1, <3>2
  <2>3. CASE e # d
    <3>1. e \in Made
      BY <1>4, <2>1, <2>3
    <3> HIDE DEF q
    <3> QED BY <1>3, <1>4, <1>5, <1>8, <3>1 DEF Depths
  <2> QED BY <2>2, <2>3
<1>10. FilesPlaced'
  BY <1>4 DEF create_folder, AccessInv, FilesPlaced
<1> HIDE DEF q
<1> QED BY <1>2, <1>7, <1>9, <1>10 DEF AccessInv, Tree

LEMMA AccessInvStep == AccessInv /\ [FileAccessNext]_accessVars => AccessInv'
<1> SUFFICES ASSUME AccessInv, [FileAccessNext]_accessVars PROVE AccessInv'
  OBVIOUS
<1>1. ASSUME parent' = parent PROVE Tree' /\ Made' = Made
  <2>1. PICK r \in [Folders -> Nat] : Depths(r)
    BY DEF AccessInv, Tree
  <2>2. Depths(r)'
    BY <1>1, <2>1 DEF Depths, Made
  <2> QED BY <1>1, <2>1, <2>2 DEF Tree, Made
<1>2. ASSUME NEW d \in Folders, NEW p \in Folders \cup {Top}, create_folder(d, p)
      PROVE  AccessInv'
  BY <1>2, TreeGrows
<1>3. ASSUME NEW f \in Documents, NEW d \in Folders \cup {Top}, PutFile(f, d)
      PROVE  AccessInv'
  <2>1. d \in Made \cup {Top}
    BY <1>3 DEF PutFile, There, Made
  <2> QED BY <1>1, <1>3, <2>1 DEF PutFile, AccessInv, FileAccessTypeOK, FilesPlaced
<1>4. ASSUME NEW f \in Documents, NEW active \in BOOLEAN, ShowOrArchive(f, active)
      PROVE  AccessInv'
  BY <1>1, <1>4 DEF ShowOrArchive, AccessInv, FileAccessTypeOK, FilesPlaced
<1>5. ASSUME NEW s \in Subjects, NEW x \in Shared, GrantTaken(s, x)
      PROVE  AccessInv'
  BY <1>1, <1>5 DEF GrantTaken, AccessInv, FileAccessTypeOK, FilesPlaced, Ranks
<1>6. ASSUME NEW s \in Subjects, NEW x \in Shared, NEW rank \in Ranks, GrantGiven(s, x, rank)
      PROVE  AccessInv'
  BY <1>1, <1>6 DEF GrantGiven, AccessInv, FileAccessTypeOK, FilesPlaced
<1>7. CASE UNCHANGED accessVars
  BY <1>1, <1>7 DEF accessVars, AccessInv, FileAccessTypeOK, FilesPlaced
<1> QED BY <1>2, <1>3, <1>4, <1>5, <1>6, <1>7 DEF FileAccessNext

(* The folder, what is one step up from it, two steps up, and so on; and    *)
(* the same for where the user gets by opening folders.                     *)
Height == Cardinality(Folders)
StepsUp(anc, d) ==
    /\ anc[0] = {d} \ {Top}
    /\ \A n \in 1..Height : anc[n] = anc[n - 1] \cup ({parent[e] : e \in anc[n - 1]} \ {Top})
StepsIn(go) ==
    /\ go[0] = {Top}
    /\ \A n \in 1..Height : go[n] = go[n - 1] \cup UNION {ListedFolders(d) : d \in go[n - 1]}

(* The lists are built step by step.                                        *)
LEMMA AncestorSteps ==
    ASSUME AccessInv, NEW d \in Made
    PROVE  \E anc \in [0..Height -> SUBSET Made] :
              StepsUp(anc, d) /\ folder_ancestor_ids(d) = anc[Height]
<1> DEFINE step == [n \in 1..Height |->
                       [X \in SUBSET Made |-> X \cup ({parent[e] : e \in X} \ {Top})]]
           Up(g) == g = [n \in 0..Height |-> IF n = 0 THEN {d} \ {Top}
                            ELSE g[n - 1] \cup ({parent[e] : e \in g[n - 1]} \ {Top})]
<1>1. Height \in Nat
  BY FoldersCounted DEF Height
<1>2. {d} \ {Top} \in SUBSET Made
  OBVIOUS
<1>3. \A e \in Made : parent[e] \in Made \cup {Top}
  BY DEF AccessInv, Tree, Depths
<1>4. step \in [1..Height -> [SUBSET Made -> SUBSET Made]]
  BY <1>3
<1>5. PICK g \in [0..Height -> SUBSET Made] : Chain(g, {d} \ {Top}, step, Height)
  <2> HIDE DEF step
  <2> QED BY <1>1, <1>2, <1>4, Iterate
<1>6. \A n \in 1..Height : n - 1 \in 0..Height /\ n # 0
  BY <1>1
<1>7. \A n \in 0..Height : n = 0 \/ n \in 1..Height
  BY <1>1
<1>8. Up(g)
  <2>1. \A n \in 1..Height :
           g[n] = g[n - 1] \cup ({parent[e] : e \in g[n - 1]} \ {Top})
    BY <1>5, <1>6 DEF Chain
  <2> QED BY <1>5, <1>7, <2>1 DEF Chain
<1>9. PICK anc : Up(anc) /\ folder_ancestor_ids(d) = anc[Height]
  <2>1. folder_ancestor_ids(d) = (CHOOSE f : Up(f))[Height]
    BY DEF folder_ancestor_ids, Height
  <2> HIDE DEF Up
  <2> QED BY <1>8, <2>1
<1>10. 0 \in 0..Height /\ anc[0] = {d} \ {Top}
  BY <1>1, <1>9
<1>11. \A n \in 1..Height : anc[n] = anc[n - 1] \cup ({parent[e] : e \in anc[n - 1]} \ {Top})
  <2> SUFFICES ASSUME NEW n \in 1..Height
               PROVE  anc[n] = anc[n - 1] \cup ({parent[e] : e \in anc[n - 1]} \ {Top})
    OBVIOUS
  <2>1. n \in 0..Height /\ n # 0
    BY <1>1
  <2> QED BY <1>9, <2>1, Zenon
<1>12. StepsUp(anc, d)
  BY <1>10, <1>11 DEF StepsUp
<1>13. \A n \in 0..Height : anc[n] \in SUBSET Made
  <2> DEFINE Bad == {n \in 0..Height : anc[n] \notin SUBSET Made}
  <2> SUFFICES ASSUME Bad # {} PROVE FALSE
    OBVIOUS
  <2>1. PICK m \in Bad : \A n \in Bad : m <= n
    <3>1. Bad \subseteq Nat
      OBVIOUS
    <3> HIDE DEF Bad
    <3> QED BY <3>1, LeastOfSet
  <2>2. m # 0
    BY <1>10
  <2>3. m \in 1..Height /\ m - 1 \in 0..Height /\ m - 1 \notin Bad
    <3>1. m \in 0..Height /\ m \in 1..Height /\ m - 1 \in 0..Height /\ ~(m <= m - 1)
      BY <1>1, <2>2
    <3> HIDE DEF Bad
    <3> QED BY <2>1, <3>1
  <2>4. anc[m - 1] \in SUBSET Made
    BY <2>3
  <2>5. {parent[e] : e \in anc[m - 1]} \subseteq Made \cup {Top}
    BY <1>3, <2>4
  <2>6. anc[m] \in SUBSET Made
    BY <1>11, <2>3, <2>4, <2>5
  <2> QED BY <2>6
<1>14. anc \in [0..Height -> SUBSET Made]
  BY <1>9, <1>13, Zenon
<1> QED BY <1>9, <1>12, <1>14

LEMMA OpeningSteps ==
    ASSUME AccessInv
    PROVE  \E go \in [0..Height -> SUBSET (Made \cup {Top})] :
              StepsIn(go) /\ Reached = go[Height]
<1> DEFINE step == [n \in 1..Height |->
                       [X \in SUBSET (Made \cup {Top}) |->
                           X \cup UNION {ListedFolders(d) : d \in X}]]
           In(g) == g = [n \in 0..Height |-> IF n = 0 THEN {Top}
                            ELSE g[n - 1] \cup UNION {ListedFolders(d) : d \in g[n - 1]}]
<1>1. Height \in Nat
  BY FoldersCounted DEF Height
<1>2. {Top} \in SUBSET (Made \cup {Top})
  OBVIOUS
<1>3. \A d \in Made \cup {Top} : ListedFolders(d) \subseteq Made
  BY FileAccessAssumption DEF ListedFolders, FoldersIn, Made
<1>4. step \in [1..Height -> [SUBSET (Made \cup {Top}) -> SUBSET (Made \cup {Top})]]
  BY <1>3
<1>5. PICK g \in [0..Height -> SUBSET (Made \cup {Top})] : Chain(g, {Top}, step, Height)
  <2> HIDE DEF step
  <2> QED BY <1>1, <1>2, <1>4, Iterate
<1>6. \A n \in 1..Height : n - 1 \in 0..Height /\ n # 0
  BY <1>1
<1>7. \A n \in 0..Height : n = 0 \/ n \in 1..Height
  BY <1>1
<1>8. In(g)
  <2>1. \A n \in 1..Height :
           g[n] = g[n - 1] \cup UNION {ListedFolders(d) : d \in g[n - 1]}
    BY <1>5, <1>6 DEF Chain
  <2> QED BY <1>5, <1>7, <2>1 DEF Chain
<1>9. PICK go : In(go) /\ Reached = go[Height]
  <2>1. Reached = (CHOOSE f : In(f))[Height]
    BY DEF Reached, Height
  <2> HIDE DEF In
  <2> QED BY <1>8, <2>1
<1>10. 0 \in 0..Height /\ go[0] = {Top}
  BY <1>1, <1>9
<1>11. \A n \in 1..Height : go[n] = go[n - 1] \cup UNION {ListedFolders(d) : d \in go[n - 1]}
  <2> SUFFICES ASSUME NEW n \in 1..Height
               PROVE  go[n] = go[n - 1] \cup UNION {ListedFolders(d) : d \in go[n - 1]}
    OBVIOUS
  <2>1. n \in 0..Height /\ n # 0
    BY <1>1
  <2> QED BY <1>9, <2>1, Zenon
<1>12. StepsIn(go)
  BY <1>10, <1>11 DEF StepsIn
<1>13. \A n \in 0..Height : go[n] \in SUBSET (Made \cup {Top})
  <2> DEFINE Bad == {n \in 0..Height : go[n] \notin SUBSET (Made \cup {Top})}
  <2> SUFFICES ASSUME Bad # {} PROVE FALSE
    OBVIOUS
  <2>1. PICK m \in Bad : \A n \in Bad : m <= n
    <3>1. Bad \subseteq Nat
      OBVIOUS
    <3> HIDE DEF Bad
    <3> QED BY <3>1, LeastOfSet
  <2>2. m # 0
    BY <1>10
  <2>3. m \in 1..Height /\ m - 1 \in 0..Height /\ m - 1 \notin Bad
    <3>1. m \in 0..Height /\ m \in 1..Height /\ m - 1 \in 0..Height /\ ~(m <= m - 1)
      BY <1>1, <2>2
    <3> HIDE DEF Bad
    <3> QED BY <2>1, <3>1
  <2>4. go[m - 1] \in SUBSET (Made \cup {Top})
    BY <2>3
  <2>5. UNION {ListedFolders(d) : d \in go[m - 1]} \subseteq Made
    BY <1>3, <2>4
  <2>6. go[m] \in SUBSET (Made \cup {Top})
    BY <1>11, <2>3, <2>4, <2>5
  <2> QED BY <2>6
<1>14. go \in [0..Height -> SUBSET (Made \cup {Top})]
  BY <1>9, <1>13, Zenon
<1> QED BY <1>9, <1>12, <1>14

(* What comes later in a sequence of sets that grow contains what came.     *)
LEMMA Growing ==
    ASSUME NEW T, NEW N \in Nat, NEW g \in [0..N -> SUBSET T],
           \A n \in 1..N : g[n - 1] \subseteq g[n]
    PROVE  \A m \in 0..N : g[m] \subseteq g[N]
<1> DEFINE Bad == {k \in 0..N : ~(g[N - k] \subseteq g[N])}
<1>1. Bad = {}
  <2> SUFFICES ASSUME Bad # {} PROVE FALSE
    OBVIOUS
  <2>1. PICK k \in Bad : \A j \in Bad : k <= j
    <3>1. Bad \subseteq Nat
      OBVIOUS
    <3> HIDE DEF Bad
    <3> QED BY <3>1, LeastOfSet
  <2>2. k \in 0..N /\ k # 0
    <3>1. N - 0 = N
      OBVIOUS
    <3> QED BY <2>1, <3>1
  <2>3. k - 1 \in 0..N /\ k - 1 \notin Bad
    <3>1. k - 1 \in 0..N /\ ~(k <= k - 1)
      BY <2>2
    <3> HIDE DEF Bad
    <3> QED BY <2>1, <3>1
  <2>4. N - (k - 1) \in 1..N /\ (N - (k - 1)) - 1 = N - k
    BY <2>2
  <2>5. g[N - k] \subseteq g[N - (k - 1)] /\ g[N - (k - 1)] \subseteq g[N]
    <3>1. g[(N - (k - 1)) - 1] \subseteq g[N - (k - 1)]
      BY <2>4
    <3>2. g[N - (k - 1)] \subseteq g[N]
      BY <2>3
    <3> QED BY <2>4, <3>1, <3>2
  <2> QED BY <2>1, <2>5
<1>2. \A m \in 0..N : N - m \in 0..N /\ N - (N - m) = m
  OBVIOUS
<1>3. \A m \in 0..N : N - m \notin Bad
  BY <1>1
<1> QED BY <1>2, <1>3

(* A folder shows something below it just when it shows something in it, or *)
(* a folder in it does: the search has one result, on any tree.             *)
LEMMA SearchUnfolds ==
    \A e \in Folders :
       folder_has_visible_descendant(e) <=>
          \/ \E c \in FoldersIn(e) :
                CanView(access_on_folder(c)) \/ folder_has_visible_descendant(c)
          \/ \E f \in FilesIn(e) : CanView(access_on_file(f))
<1> DEFINE Below(V, e) ==
              \/ \E c \in FoldersIn(e) : CanView(access_on_folder(c)) \/ c \in V
              \/ \E f \in FilesIn(e) : CanView(access_on_file(f))
           Closed(V) == \A e \in Folders : Below(V, e) => e \in V
           Least == {e \in Folders : \A V \in SUBSET Folders : Closed(V) => e \in V}
           Search(v) == v = [e \in Folders |->
              \/ \E c \in FoldersIn(e) : CanView(access_on_folder(c)) \/ v[c]
              \/ \E f \in FilesIn(e) : CanView(access_on_file(f))]
<1>1. \A U, V : U \subseteq V => \A e : Below(U, e) => Below(V, e)
  OBVIOUS
<1>2. Closed(Least)
  <2> SUFFICES ASSUME NEW e \in Folders, Below(Least, e),
                      NEW V \in SUBSET Folders, Closed(V)
               PROVE  e \in V
    OBVIOUS
  <2>1. Least \subseteq V
    OBVIOUS
  <2>2. Below(V, e)
    <3> HIDE DEF Below, Least
    <3> QED BY <1>1, <2>1
  <2> QED BY <2>2
<1>3. \A e \in Least : Below(Least, e)
  <2> DEFINE W == {e \in Least : Below(Least, e)}
  <2>1. Closed(W)
    <3> SUFFICES ASSUME NEW e \in Folders, Below(W, e) PROVE e \in W
      OBVIOUS
    <3>1. W \subseteq Least
      OBVIOUS
    <3>2. Below(Least, e)
      <4> HIDE DEF Below, Least, W
      <4> QED BY <1>1, <3>1
    <3>3. e \in Least
      <4> HIDE DEF Below, Least, W
      <4> QED BY <1>2, <3>2
    <3> QED BY <3>2, <3>3
  <2>2. W \in SUBSET Folders
    OBVIOUS
  <2>3. Least \subseteq W
    <3> HIDE DEF W, Closed
    <3> QED BY <2>1, <2>2
  <2> QED BY <2>3
<1> DEFINE v == [e \in Folders |-> e \in Least]
<1>4. Search(v)
  <2>1. \A e \in Folders : e \in Least <=> Below(Least, e)
    <3> HIDE DEF Below, Least
    <3> QED BY <1>2, <1>3
  <2>2. \A e \in Folders : \A c \in FoldersIn(e) : v[c] <=> c \in Least
    <3> HIDE DEF Least
    <3> QED BY DEF FoldersIn
  <2>3. \A e \in Folders : Below(Least, e) <=>
              \/ \E c \in FoldersIn(e) : CanView(access_on_folder(c)) \/ v[c]
              \/ \E f \in FilesIn(e) : CanView(access_on_file(f))
    <3> HIDE DEF Least, v
    <3> QED BY <2>2
  <2>4. v = [e \in Folders |-> Below(Least, e)]
    <3> HIDE DEF Least
    <3>1. \A e \in Folders : (e \in Least) = Below(Least, e)
      <4> SUFFICES ASSUME NEW e \in Folders PROVE (e \in Least) = Below(Least, e)
        OBVIOUS
      <4>1. ASSUME e \in Least PROVE (e \in Least) = TRUE /\ Below(Least, e) = TRUE
        BY <2>1, <4>1
      <4>2. ASSUME e \notin Least PROVE (e \in Least) = FALSE /\ Below(Least, e) = FALSE
        BY <2>1, <4>2
      <4> QED BY <4>1, <4>2, Zenon
    <3> HIDE DEF Below
    <3> QED BY <3>1
  <2> HIDE DEF Least
  <2> QED BY <2>3, <2>4, Zenon
<1>5. PICK w : Search(w) /\ \A d : folder_has_visible_descendant(d) = w[d]
  <2>1. \A d : folder_has_visible_descendant(d) = (CHOOSE u : Search(u))[d]
    BY DEF folder_has_visible_descendant
  <2> HIDE DEF Search, v
  <2> QED BY <1>4, <2>1
<1> SUFFICES ASSUME NEW e \in Folders
             PROVE  w[e] <=> \/ \E c \in FoldersIn(e) : CanView(access_on_folder(c)) \/ w[c]
                             \/ \E f \in FilesIn(e) : CanView(access_on_file(f))
  BY <1>5
<1> QED BY <1>5, Zenon

Seen(e) == CanView(access_on_folder(e)) \/ folder_has_visible_descendant(e)

(* The ancestors of a folder are itself and, with each, the folder above.   *)
LEMMA AncestorsClosed ==
    ASSUME AccessInv, NEW d \in Made
    PROVE  /\ d \in folder_ancestor_ids(d)
           /\ \A x \in folder_ancestor_ids(d) :
                 parent[x] # Top => parent[x] \in folder_ancestor_ids(d)
<1>1. PICK r \in [Folders -> Nat] : Depths(r)
  BY DEF AccessInv, Tree
<1>2. PICK anc \in [0..Height -> SUBSET Made] :
         StepsUp(anc, d) /\ folder_ancestor_ids(d) = anc[Height]
  BY AncestorSteps
<1>3. Height \in Nat /\ Made \subseteq Folders
      /\ Cardinality(Made) \in Nat /\ Cardinality(Made) <= Height
  <2>1. Made \in SUBSET Folders
    BY DEF Made
  <2> QED BY <2>1, FoldersCounted DEF Height
<1>4. \A e \in Made : r[e] \in 1..Height /\ r[e] \in Nat
  BY <1>1, <1>3 DEF Depths
<1>5. \A m \in 0..Height : anc[m] \subseteq anc[Height]
  <2>1. \A n \in 1..Height : anc[n - 1] \subseteq anc[n]
    BY <1>2 DEF StepsUp
  <2> QED BY <1>2, <1>3, <2>1, Growing
<1> DEFINE Placed(n) == \A x \in anc[n] : r[x] <= r[d] /\ x \in anc[r[d] - r[x]]
           Bad == {n \in 0..Height : ~Placed(n)}
<1>6. d # Top /\ 0 \in 0..Height /\ anc[0] = {d}
  BY <1>2, <1>3, FileAccessAssumption DEF StepsUp
<1>7. Bad = {}
  <2> SUFFICES ASSUME Bad # {} PROVE FALSE
    OBVIOUS
  <2>1. PICK n \in Bad : \A k \in Bad : n <= k
    <3>1. Bad \subseteq Nat
      OBVIOUS
    <3> HIDE DEF Bad
    <3> QED BY <3>1, LeastOfSet
  <2>2. n # 0
    <3>1. Placed(0)
      <4>1. r[d] - r[d] = 0 /\ r[d] <= r[d]
        BY <1>4
      <4> QED BY <1>6, <4>1
    <3> HIDE DEF Placed
    <3> QED BY <2>1, <3>1
  <2>3. n \in 1..Height /\ n - 1 \in 0..Height /\ Placed(n - 1)
    <3>1. n \in 0..Height /\ n \in 1..Height /\ n - 1 \in 0..Height /\ ~(n <= n - 1)
      BY <1>3, <2>2
    <3>2. n - 1 \notin Bad
      <4> HIDE DEF Bad
      <4> QED BY <2>1, <3>1
    <3> HIDE DEF Placed
    <3> QED BY <3>1, <3>2
  <2>4. Placed(n)
    <3> SUFFICES ASSUME NEW x \in anc[n], x \notin anc[n - 1]
                 PROVE  r[x] <= r[d] /\ x \in anc[r[d] - r[x]]
      BY <2>3
    <3>1. PICK e \in anc[n - 1] : x = parent[e] /\ x # Top
      BY <1>2, <2>3 DEF StepsUp
    <3>2. e \in Made /\ x \in Made /\ r[e] = r[x] + 1
      BY <1>1, <1>2, <2>3, <3>1 DEF Depths
    <3>3. r[e] <= r[d] /\ e \in anc[r[d] - r[e]]
      BY <2>3
    <3> DEFINE m == r[d] - r[x]
    <3>4. r[x] <= r[d] /\ m \in 1..Height /\ m - 1 = r[d] - r[e]
      BY <1>3, <1>4, <3>2, <3>3
    <3>5. x \in anc[m]
      <4> HIDE DEF m
      <4>1. anc[m] = anc[m - 1] \cup ({parent[y] : y \in anc[m - 1]} \ {Top})
        BY <1>2, <3>4 DEF StepsUp
      <4> QED BY <3>1, <3>3, <3>4, <4>1
    <3> QED BY <3>4, <3>5
  <2> QED BY <2>1, <2>4
<1>8. d \in anc[Height]
  BY <1>5, <1>6
<1>9. ASSUME NEW x \in anc[Height], parent[x] # Top PROVE parent[x] \in anc[Height]
  <2>1. Placed(Height) /\ Height \in 0..Height
    BY <1>3, <1>7
  <2>2. x \in Made /\ parent[x] \in Made /\ r[x] = r[parent[x]] + 1
    BY <1>1, <1>2, <1>9, <2>1 DEF Depths
  <2> DEFINE m == (r[d] - r[x]) + 1
  <2>3. m \in 1..Height /\ m \in 0..Height /\ m - 1 = r[d] - r[x]
    BY <1>3, <1>4, <2>1, <2>2
  <2>4. x \in anc[m - 1]
    BY <2>1, <2>3
  <2>5. parent[x] \in anc[m]
    <3> HIDE DEF m
    <3>1. anc[m] = anc[m - 1] \cup ({parent[y] : y \in anc[m - 1]} \ {Top})
      BY <1>2, <2>3 DEF StepsUp
    <3> QED BY <1>9, <2>4, <3>1
  <2> HIDE DEF m
  <2> QED BY <1>5, <2>3, <2>5
<1> QED BY <1>2, <1>8, <1>9

(* What may be seen is seen: a folder with something to see in it, or below *)
(* it, is reached from the top ...                                          *)
LEMMA SeenIsReached ==
    ASSUME AccessInv
    PROVE  Top \in Reached /\ \A e \in Made : Seen(e) => e \in Reached
<1>1. PICK r \in [Folders -> Nat] : Depths(r)
  BY DEF AccessInv, Tree
<1>2. PICK go \in [0..Height -> SUBSET (Made \cup {Top})] :
         StepsIn(go) /\ Reached = go[Height]
  BY OpeningSteps
<1>3. Height \in Nat /\ Made \subseteq Folders
      /\ Cardinality(Made) \in Nat /\ Cardinality(Made) <= Height
  <2>1. Made \in SUBSET Folders
    BY DEF Made
  <2> QED BY <2>1, FoldersCounted DEF Height
<1>4. \A e \in Made : r[e] \in 1..Height /\ r[e] \in 0..Height
  BY <1>1, <1>3 DEF Depths
<1>5. \A m \in 0..Height : go[m] \subseteq go[Height]
  <2>1. \A n \in 1..Height : go[n - 1] \subseteq go[n]
    BY <1>2 DEF StepsIn
  <2> QED BY <1>2, <1>3, <2>1, Growing
<1> DEFINE Missed == {e \in Made : Seen(e) /\ e \notin go[r[e]]}
<1>6. Missed = {}
  <2> SUFFICES ASSUME Missed # {} PROVE FALSE
    OBVIOUS
  <2>1. PICK e \in Missed : \A x \in Missed : r[e] <= r[x]
    <3> DEFINE D == {r[x] : x \in Missed}
    <3>1. D \subseteq Nat /\ D # {}
      BY <1>3
    <3>2. PICK m \in D : \A n \in D : m <= n
      <4> HIDE DEF D
      <4> QED BY <3>1, LeastOfSet
    <3> QED BY <3>2
  <2>2. e \in Made /\ e \in Folders /\ Seen(e) /\ e \notin go[r[e]] /\ r[e] \in 1..Height
    BY <1>3, <1>4
  <2>3. \A p \in Made \cup {Top} : parent[e] = p => e \in ListedFolders(p)
    BY <2>2 DEF ListedFolders, FoldersIn, Seen
  <2>4. go[r[e]] = go[r[e] - 1] \cup UNION {ListedFolders(d) : d \in go[r[e] - 1]}
    BY <1>2, <2>2 DEF StepsIn
  <2>5. CASE parent[e] = Top
    <3>1. r[e] - 1 = 0
      <4>1. parent[e] \notin Made
        BY <1>3, <2>5, FileAccessAssumption
      <4> QED BY <1>1, <2>2, <4>1 DEF Depths
    <3>2. Top \in go[r[e] - 1]
      BY <1>2, <3>1 DEF StepsIn
    <3> QED BY <2>2, <2>3, <2>4, <2>5, <3>2
  <2>6. CASE parent[e] \in Made
    <3> DEFINE p == parent[e]
    <3>1. p \in Made /\ p \in Folders /\ r[e] = r[p] + 1
      BY <1>1, <1>3, <2>2, <2>6, FileAccessAssumption DEF Depths
    <3>2. e \in FoldersIn(p)
      BY <2>2 DEF FoldersIn
    <3>3. Seen(p)
      <4> HIDE DEF p
      <4> QED BY <2>2, <3>1, <3>2, SearchUnfolds DEF Seen
    <3>4. r[p] \in Nat /\ r[p] = r[e] - 1 /\ ~(r[e] <= r[p])
      BY <1>4, <3>1
    <3>5. p \notin Missed
      <4> HIDE DEF p, Missed
      <4> QED BY <2>1, <3>4
    <3>6. p \in go[r[e] - 1]
      <4> HIDE DEF p
      <4> QED BY <3>1, <3>3, <3>4, <3>5
    <3> QED BY <2>2, <2>3, <2>4, <3>6, <3>1
  <2>7. parent[e] = Top \/ parent[e] \in Made
    BY <1>1, <2>2 DEF Depths
  <2> QED BY <2>5, <2>6, <2>7
<1>7. Top \in go[Height]
  <2>1. 0 \in 0..Height /\ Top \in go[0]
    BY <1>2, <1>3 DEF StepsIn
  <2> QED BY <1>5, <2>1
<1> QED BY <1>2, <1>4, <1>5, <1>6, <1>7

(* ... and one that is reached has something to see.                        *)
LEMMA ReachedIsSeen ==
    ASSUME AccessInv, NEW e \in Reached, e # Top
    PROVE  e \in Made /\ Seen(e)
<1>1. PICK go \in [0..Height -> SUBSET (Made \cup {Top})] :
         StepsIn(go) /\ Reached = go[Height]
  BY OpeningSteps
<1>2. Height \in Nat
  BY FoldersCounted DEF Height
<1> DEFINE With == {n \in 0..Height : e \in go[n]}
<1>3. PICK n \in With : \A k \in With : n <= k
  <2>1. With \subseteq Nat /\ Height \in With
    BY <1>1, <1>2
  <2> HIDE DEF With
  <2> QED BY <2>1, LeastOfSet
<1>4. n # 0
  BY <1>1, <1>3 DEF StepsIn
<1>5. n \in 1..Height /\ e \in go[n] /\ n - 1 \in 0..Height /\ ~(n <= n - 1)
  BY <1>2, <1>3, <1>4
<1>6. e \notin go[n - 1]
  BY <1>3, <1>5
<1>7. PICK d \in go[n - 1] : e \in ListedFolders(d)
  <2>1. go[n] = go[n - 1] \cup UNION {ListedFolders(x) : x \in go[n - 1]}
    BY <1>1, <1>5 DEF StepsIn
  <2> QED BY <1>5, <1>6, <2>1
<1>8. e \in Made
  BY <1>1, <1>5
<1> QED BY <1>7, <1>8 DEF ListedFolders, Seen

(* Nothing is above the top: nothing else is in the list of its ancestors.  *)
LEMMA TopHasNoAncestors == folder_ancestor_ids(Top) = {}
<1> DEFINE Up(g) == g = [n \in 0..Height |-> IF n = 0 THEN {Top} \ {Top}
                            ELSE g[n - 1] \cup ({parent[e] : e \in g[n - 1]} \ {Top})]
<1>1. Height \in Nat
  BY FoldersCounted DEF Height
<1> DEFINE none == [n \in 0..Height |-> {}]
<1>2. Up(none)
  <2>1. \A n \in 0..Height : n # 0 => n - 1 \in 0..Height /\ none[n - 1] = {}
    BY <1>1
  <2> HIDE DEF none
  <2>2. \A n \in 0..Height :
           {} = IF n = 0 THEN {Top} \ {Top}
                ELSE none[n - 1] \cup ({parent[e] : e \in none[n - 1]} \ {Top})
    BY <2>1
  <2>3. none = [n \in 0..Height |-> {}]
    BY DEF none
  <2> QED BY <2>2, <2>3
<1>3. PICK anc : Up(anc) /\ folder_ancestor_ids(Top) = anc[Height]
  <2>1. folder_ancestor_ids(Top) = (CHOOSE f : Up(f))[Height]
    BY DEF folder_ancestor_ids, Height
  <2> HIDE DEF Up, none
  <2> QED BY <1>2, <2>1
<1> DEFINE Some == {n \in 0..Height : anc[n] # {}}
<1>4. Some = {}
  <2> SUFFICES ASSUME Some # {} PROVE FALSE
    OBVIOUS
  <2>1. PICK n \in Some : \A k \in Some : n <= k
    <3>1. Some \subseteq Nat
      OBVIOUS
    <3> HIDE DEF Some
    <3> QED BY <3>1, LeastOfSet
  <2>2. n \in 0..Height /\ anc[n] # {}
    BY <2>1
  <2>3. n # 0
    BY <1>1, <1>3, <2>2
  <2>4. n - 1 \in 0..Height /\ ~(n <= n - 1)
    BY <1>1, <2>2, <2>3
  <2>5. anc[n - 1] = {}
    BY <2>1, <2>4
  <2>6. anc[n] = anc[n - 1] \cup ({parent[e] : e \in anc[n - 1]} \ {Top})
    BY <1>3, <2>2, <2>3, Zenon
  <2> QED BY <2>2, <2>5, <2>6
<1>5. Height \in 0..Height
  BY <1>1
<1> QED BY <1>3, <1>4, <1>5

(* A folder with something to see leads to a folder the user may view or to *)
(* a file the user may view: it is above it, or that folder itself.         *)
LEMMA SeenLeadsSomewhere ==
    ASSUME AccessInv
    PROVE  \A e \in Made : Seen(e) =>
              \E d \in ViewFolders \cup {shelf[f] : f \in EffectiveFiles} :
                 e \in folder_ancestor_ids(d)
<1>1. PICK r \in [Folders -> Nat] : Depths(r)
  BY DEF AccessInv, Tree
<1>2. Made \subseteq Folders /\ Cardinality(Made) \in Nat
  <2>1. Made \in SUBSET Folders
    BY DEF Made
  <2> QED BY <2>1, FoldersCounted
<1> DEFINE Ends == ViewFolders \cup {shelf[f] : f \in EffectiveFiles}
           Leads(e) == \E d \in Ends : e \in folder_ancestor_ids(d)
           Astray == {e \in Made : Seen(e) /\ ~Leads(e)}
<1>3. \A d \in Ends : d \in Made \cup {Top}
  <2>1. \A d \in ViewFolders : d \in Made \cup {Top}
    BY DEF ViewFolders, There, Made
  <2>2. \A f \in EffectiveFiles : shelf[f] \in Made \cup {Top}
    BY DEF EffectiveFiles, AccessInv, FilesPlaced
  <2> QED BY <2>1, <2>2
<1>4. Astray = {}
  <2> SUFFICES ASSUME Astray # {} PROVE FALSE
    OBVIOUS
  <2>1. PICK e \in Astray : \A x \in Astray : r[x] <= r[e]
    <3> DEFINE D == {r[x] : x \in Astray}
    <3>1. D # {} /\ D \subseteq 0..Cardinality(Made)
      BY <1>1, <1>2 DEF Depths
    <3>2. PICK m \in D : \A n \in D : n <= m
      <4> HIDE DEF D
      <4> QED BY <1>2, <3>1, GreatestOfSet
    <3> QED BY <3>2
  <2>2. e \in Made /\ e \in Folders /\ Seen(e) /\ ~Leads(e) /\ e # Top /\ e # NotYet
    BY <1>2, FileAccessAssumption
  <2>3. e \in folder_ancestor_ids(e)
    BY <2>2, AncestorsClosed
  <2>4. ~CanView(access_on_folder(e))
    <3>1. CanView(access_on_folder(e)) => e \in ViewFolders
      BY <2>2 DEF ViewFolders, There, Made
    <3> QED BY <2>2, <2>3, <3>1
  <2>5. folder_has_visible_descendant(e)
    BY <2>2, <2>4 DEF Seen
  <2>6. CASE \E f \in FilesIn(e) : CanView(access_on_file(f))
    <3>1. PICK f \in FilesIn(e) : CanView(access_on_file(f))
      BY <2>6
    <3>2. f \in EffectiveFiles /\ shelf[f] = e
      BY <2>2, <3>1 DEF FilesIn, EffectiveFiles, Made
    <3> QED BY <2>2, <2>3, <3>2
  <2>7. CASE \E c \in FoldersIn(e) :
                CanView(access_on_folder(c)) \/ folder_has_visible_descendant(c)
    <3>1. PICK c \in FoldersIn(e) : Seen(c)
      BY <2>7 DEF Seen
    <3>2. c \in Made /\ parent[c] = e
      BY <2>2, <3>1 DEF FoldersIn, Made
    <3>3. r[c] = r[e] + 1 /\ r[c] \in Nat /\ r[e] \in Nat
      BY <1>1, <1>2, <2>2, <3>2 DEF Depths
    <3>4. c \notin Astray
      <4> HIDE DEF Astray
      <4> QED BY <2>1, <3>3
    <3>5. PICK d \in Ends : c \in folder_ancestor_ids(d)
      <4> HIDE DEF Ends
      <4> QED BY <3>1, <3>2, <3>4
    <3>6. d # Top
      <4>1. ASSUME d = Top PROVE c \in {}
        BY <3>5, <4>1, TopHasNoAncestors
      <4> QED BY <4>1
    <3>7. d \in Made
      BY <1>3, <3>6
    <3>8. e \in folder_ancestor_ids(d)
      BY <2>2, <3>2, <3>5, <3>7, AncestorsClosed
    <3> QED BY <2>2, <3>8
  <2> QED BY <2>2, <2>5, <2>6, <2>7, SearchUnfolds
<1> QED BY <1>4

(* What browsing shows is exact, however high the tree.                     *)
LEMMA AccessInvIsExact == AccessInv => BrowsingExact
<1> SUFFICES ASSUME AccessInv PROVE BrowsingExact
  OBVIOUS
<1>1. Reached \subseteq Made \cup {Top}
  BY ReachedIsSeen
<1>2. ASSUME NEW d \in Reached, NEW f \in ListedFiles(d) PROVE f \in EffectiveFiles
  <2>1. d # NotYet
    BY <1>1, FileAccessAssumption DEF Made
  <2> QED BY <1>2, <2>1 DEF ListedFiles, FilesIn, EffectiveFiles
<1>3. ASSUME NEW f \in EffectiveFiles PROVE \E d \in Reached : f \in ListedFiles(d)
  <2>1. shelf[f] \in Made \cup {Top} /\ f \in FilesIn(shelf[f]) /\ f \in ListedFiles(shelf[f])
    BY <1>3 DEF EffectiveFiles, AccessInv, FilesPlaced, FilesIn, ListedFiles
  <2>2. shelf[f] \in Made => Seen(shelf[f])
    <3>1. Made \subseteq Folders /\ CanView(access_on_file(f))
      BY <1>3 DEF Made, EffectiveFiles
    <3> QED BY <2>1, <3>1, SearchUnfolds DEF Seen
  <2> QED BY <2>1, <2>2, SeenIsReached
<1>4. UNION {ListedFiles(d) : d \in Reached} = EffectiveFiles
  BY <1>2, <1>3
<1>5. \A e \in Reached \ {Top} :
         \E d \in ViewFolders \cup {shelf[f] : f \in EffectiveFiles} :
            e \in folder_ancestor_ids(d)
  BY ReachedIsSeen, SeenLeadsSomewhere
<1> QED BY <1>4, <1>5 DEF BrowsingExact

(* Types hold, and browsing shows just what the user may view.              *)
THEOREM AccessTypeCorrect == FileAccessSpec => []FileAccessTypeOK
<1>1. AccessInv => FileAccessTypeOK
  BY DEF AccessInv
<1> QED BY <1>1, AccessInvInit, AccessInvStep, PTL DEF FileAccessSpec

THEOREM BrowsingIsExact == FileAccessSpec => []BrowsingExact
BY AccessInvInit, AccessInvStep, AccessInvIsExact, PTL DEF FileAccessSpec
=============================================================================
