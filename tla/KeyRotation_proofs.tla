-------------------------- MODULE KeyRotation_proofs --------------------------
(***************************************************************************)
(* Proofs about KeyRotation, for every instance - any number of columns,   *)
(* of rotating threads and of threads that store secrets, failing          *)
(* activations and crashes included.  The types; that no key that a        *)
(* committed ciphertext or keys/current needs is lost but those of an      *)
(* activation that failed and of rotations that shared a number; that the  *)
(* database is under one key, but for the secrets whose commit straddled a *)
(* re-encryption; that the re-encryption keeps the secrets; and that the   *)
(* process reads what it serves until a rotation is cut in its activation. *)
(***************************************************************************)
EXTENDS KeyRotation, TLAPS

(* The first boot finds every variable in its type.                        *)
LEMMA RotationTypeInit == RotationInit => RotationTypeOK
<1> SUFFICES ASSUME RotationInit PROVE RotationTypeOK
  OBVIOUS
<1> USE ConstantsAssumption DEF RotationInit, ConstantsAssumption, Versions
<1>1. Empty \in Ciphertext /\ Unread \in Ciphertext /\ [key |-> EnvKey, val |-> 0] \in Ciphertext
  BY DEF Empty, Unread, EnvKey, Ciphertext
<1>2. rows \in [Columns -> Ciphertext] /\ wct \in [Writers -> Ciphertext]
  BY <1>1
<1>3. buf \in [Rotators -> [Columns -> Ciphertext]]
  BY <1>1 DEF NothingRead
<1>4. files \in [Versions -> Nat] /\ pointer \in 0..MaxVersion /\ cacheKey \in Nat
      /\ cacheVer \in 0..MaxVersion
      /\ verRows \in [Versions -> {"absent", "active", "retired", "pending"}]
  OBVIOUS
<1>5. /\ rotAt \in [Rotators -> {"idle", "begun", "picked", "written", "reading",
                               "committed", "pointed", "failed"}]
      /\ oldKey \in [Rotators -> Nat] /\ newKey \in [Rotators -> Nat]
      /\ oldVer \in [Rotators -> 0..MaxVersion] /\ newVer \in [Rotators -> 0..MaxVersion]
  OBVIOUS
<1>6. wpc \in [Writers -> {"idle", "encrypted"}] /\ wcol \in [Writers -> Columns]
  OBVIOUS
<1>7. phase = "down" /\ keysMade \in Nat /\ crashes \in 0..MaxCrashes /\ writes \in 0..MaxWrites
  OBVIOUS
<1>8. stranded \in BOOLEAN /\ wlate \in [Writers -> BOOLEAN]
  BY Zenon
<1>9. /\ doomedKeys \subseteq Nat /\ doomedVers \subseteq 0..MaxVersion /\ straddled \subseteq Columns
      /\ late \in [Rotators -> SUBSET Columns]
  OBVIOUS
<1> HIDE DEF RotationInit
<1> QED BY <1>2, <1>3, <1>4, <1>5, <1>6, <1>7, <1>8, <1>9 DEF RotationTypeOK

(* What the end of a request leaves of its local variables.                *)
LEMMA EndRotationTypes ==
  ASSUME RotationTypeOK, NEW r \in Rotators, EndRotation(r)
  PROVE  /\ rotAt' \in [Rotators -> {"idle", "begun", "picked", "written", "reading",
                                   "committed", "pointed", "failed"}]
         /\ oldKey' \in [Rotators -> Nat] /\ newKey' \in [Rotators -> Nat]
         /\ oldVer' \in [Rotators -> 0..MaxVersion]
         /\ newVer' \in [Rotators -> 0..MaxVersion]
         /\ buf' \in [Rotators -> [Columns -> Ciphertext]]
         /\ late' \in [Rotators -> SUBSET Columns]
  BY ConstantsAssumption
     DEF ConstantsAssumption, RotationTypeOK, EndRotation, NothingRead, Unread, Ciphertext

(* Every step of the boot, of a rotation, of a writer and the crash keep    *)
(* the variables in their types.                                            *)
LEMMA RotationTypeStep == RotationTypeOK /\ [RotationNext]_rotationVars => RotationTypeOK'
<1> SUFFICES ASSUME RotationTypeOK, [RotationNext]_rotationVars PROVE RotationTypeOK'
  OBVIOUS
<1> USE ConstantsAssumption DEF ConstantsAssumption, RotationTypeOK, Versions, overtaken
<1>1. CASE Boot
  <2> USE DEF disk, cache, rotation, writing
  <2>1. CASE BootLoad
    BY <2>1 DEF BootLoad
  <2>2. CASE BootRefuse
    BY <2>2 DEF BootRefuse
  <2>3. CASE BootWriteKey
    BY <2>3 DEF BootWriteKey, EnvKey
  <2>4. CASE BootWritePointer
    BY <2>4 DEF BootWritePointer
  <2> QED BY <1>1, <2>1, <2>2, <2>3, <2>4 DEF Boot
<1>2. CASE ProcessCrash
  <2>1. stranded' \in BOOLEAN /\ wlate' \in [Writers -> BOOLEAN]
    BY <1>2, Zenon DEF ProcessCrash
  <2>2. UNCHANGED <<disk, wcol, keysMade, writes, doomedKeys, doomedVers, straddled>>
        /\ phase' = "down" /\ cacheKey' = 0 /\ cacheVer' = 0 /\ crashes' \in 0..MaxCrashes
    BY <1>2 DEF ProcessCrash
  <2>3. /\ rotAt' \in [Rotators -> {"idle", "begun", "picked", "written", "reading",
                                   "committed", "pointed", "failed"}]
        /\ oldKey' \in [Rotators -> Nat] /\ newKey' \in [Rotators -> Nat]
        /\ oldVer' \in [Rotators -> 0..MaxVersion] /\ newVer' \in [Rotators -> 0..MaxVersion]
        /\ buf' \in [Rotators -> [Columns -> Ciphertext]] /\ late' \in [Rotators -> SUBSET Columns]
    BY <1>2 DEF ProcessCrash, NothingRead, Unread, Ciphertext
  <2>4. wpc' \in [Writers -> {"idle", "encrypted"}] /\ wct' \in [Writers -> Ciphertext]
    BY <1>2 DEF ProcessCrash, Empty, Ciphertext
  <2> QED BY <2>1, <2>2, <2>3, <2>4 DEF disk
<1>3. ASSUME NEW r \in Rotators, Rotate(r) PROVE RotationTypeOK'
  <2>0. EndRotation(r)
          => /\ rotAt' \in [Rotators -> {"idle", "begun", "picked", "written", "reading",
                                       "committed", "pointed", "failed"}]
             /\ oldKey' \in [Rotators -> Nat] /\ newKey' \in [Rotators -> Nat]
             /\ oldVer' \in [Rotators -> 0..MaxVersion]
             /\ newVer' \in [Rotators -> 0..MaxVersion]
             /\ buf' \in [Rotators -> [Columns -> Ciphertext]]
             /\ late' \in [Rotators -> SUBSET Columns]
    BY EndRotationTypes
  <2> USE DEF disk, cache, rotation, writing
  <2>1. CASE RotateBegin(r)
    BY <2>1 DEF RotateBegin
  <2>2. CASE RotatePick(r)
    <3>1. PICK v \in Versions : newVer' = [newVer EXCEPT ![r] = v] /\ SharedNumber(r, v)
      BY <2>2 DEF RotatePick
    <3>2. newVer' \in [Rotators -> 0..MaxVersion]
      BY <3>1
    <3>3. keysMade' \in Nat /\ newKey' \in [Rotators -> Nat]
      BY <2>2 DEF RotatePick
    <3>4. rotAt' \in [Rotators -> {"idle", "begun", "picked", "written", "reading",
                                 "committed", "pointed", "failed"}]
      BY <2>2 DEF RotatePick
    <3>5. UNCHANGED <<disk, phase, cache, oldKey, oldVer, buf, late, writing, crashes, writes,
                      straddled>>
      BY <2>2 DEF RotatePick
    <3> DEFINE K == {newKey[q] : q \in Rivals(r, v)}
    <3>6. K \subseteq Nat
      BY DEF Rivals
    <3>7. \/ /\ doomedKeys' = doomedKeys \cup {keysMade + 1} \cup K
             /\ doomedVers' = doomedVers \cup {v} /\ stranded' = TRUE
          \/ UNCHANGED <<stranded, doomedKeys, doomedVers>>
      BY <3>1 DEF SharedNumber
    <3> HIDE DEF K
    <3>8. doomedKeys' \subseteq Nat /\ doomedVers' \subseteq 0..MaxVersion
      <4>1. keysMade + 1 \in Nat /\ v \in 0..MaxVersion
        OBVIOUS
      <4>2. CASE UNCHANGED <<stranded, doomedKeys, doomedVers>>
        BY <4>2
      <4>3. CASE doomedKeys' = doomedKeys \cup {keysMade + 1} \cup K /\ doomedVers' = doomedVers \cup {v}
        <5>1. doomedKeys \subseteq Nat /\ doomedVers \subseteq 0..MaxVersion
          OBVIOUS
        <5> QED BY <3>6, <4>1, <4>3, <5>1, Zenon
      <4> QED BY <3>7, <4>2, <4>3
    <3>9. stranded' \in BOOLEAN
      BY <3>7, Zenon
    <3> QED BY <3>2, <3>3, <3>4, <3>5, <3>8, <3>9
  <2>3. CASE RotateWritePending(r)
    BY <2>3 DEF RotateWritePending
  <2>4. CASE RotateRegister(r)
    BY <2>4 DEF RotateRegister
  <2>5. CASE RotateSetupFails(r)
    BY <2>0, <2>5 DEF RotateSetupFails
  <2>6. ASSUME NEW c \in Columns, RotateRead(r, c) PROVE RotationTypeOK'
    <3>1. ReadColumn(r, c) \in Ciphertext
      BY DEF ReadColumn, Empty, Ciphertext
    <3> QED BY <2>6, <3>1 DEF RotateRead
  <2>7. CASE RotateFails(r)
    BY <2>7 DEF RotateFails
  <2>8. CASE RotateCommit(r)
    <3>1. \A c \in Columns : Flushed(r, c) \in Ciphertext
      BY DEF Flushed
    <3>2. rows' \in [Columns -> Ciphertext]
      BY <2>8, <3>1 DEF RotateCommit
    <3>3. stranded' \in BOOLEAN /\ wlate' \in [Writers -> BOOLEAN]
      BY <2>8, Zenon DEF RotateCommit
    <3>4. late' \in [Rotators -> SUBSET Columns] /\ straddled' \subseteq Columns
      BY <2>8 DEF RotateCommit
    <3>5. rotAt' \in [Rotators -> {"idle", "begun", "picked", "written", "reading",
                                 "committed", "pointed", "failed"}]
      BY <2>8 DEF RotateCommit
    <3>6. UNCHANGED <<files, pointer, verRows, phase, cache, oldKey, oldVer, newKey, newVer,
                      buf, wpc, wcol, wct, keysMade, crashes, writes, doomedKeys, doomedVers>>
      BY <2>8 DEF RotateCommit
    <3> QED BY <3>2, <3>3, <3>4, <3>5, <3>6
  <2>9. CASE RotatePoint(r)
    BY <2>9 DEF RotatePoint
  <2>10. CASE RotateActivate(r)
    <3>1. Activated(r) \in [Versions -> {"absent", "active", "retired", "pending"}]
      BY DEF Activated
    <3> QED BY <2>0, <2>10, <3>1 DEF RotateActivate
  <2>11. CASE RotateActivationFails(r)
    BY <2>11 DEF RotateActivationFails
  <2>12. CASE RotateDeleteKeyFile(r)
    BY <2>0, <2>12 DEF RotateDeleteKeyFile
  <2> QED
    BY <1>3, <2>1, <2>2, <2>3, <2>4, <2>5, <2>6, <2>7, <2>8, <2>9, <2>10, <2>11, <2>12
       DEF Rotate
<1>4. ASSUME NEW w \in Writers, Write(w) PROVE RotationTypeOK'
  <2>1. ASSUME NEW c \in Columns, WriterEncrypt(w, c) PROVE RotationTypeOK'
    <3>1. wct' \in [Writers -> Ciphertext]
      BY <2>1 DEF WriterEncrypt, Ciphertext
    <3>2. writes' \in 0..MaxWrites
      BY <2>1 DEF WriterEncrypt
    <3>3. wcol' \in [Writers -> Columns] /\ wpc' \in [Writers -> {"idle", "encrypted"}]
      BY <2>1 DEF WriterEncrypt
    <3>4. UNCHANGED <<disk, phase, cache, rotation, keysMade, crashes, overtaken>>
      BY <2>1 DEF WriterEncrypt
    <3>5. wlate' \in [Writers -> BOOLEAN]
      <4> DEFINE b == stranded \/ \E q \in Rotators : InActivation(q)
      <4>1. wlate' = [wlate EXCEPT ![w] = b] /\ b \in BOOLEAN
        BY <2>1, Zenon DEF WriterEncrypt
      <4> HIDE DEF b
      <4> QED BY <4>1
    <3> QED BY <3>1, <3>2, <3>3, <3>4, <3>5 DEF disk, cache, rotation
  <2>2. CASE WriterCommit(w)
    <3>1. late' \in [Rotators -> SUBSET Columns] /\ straddled' \subseteq Columns
      BY <2>2 DEF WriterCommit
    <3>2. rows' \in [Columns -> Ciphertext] /\ wct' \in [Writers -> Ciphertext]
          /\ wpc' \in [Writers -> {"idle", "encrypted"}]
      BY <2>2 DEF WriterCommit, Empty, Ciphertext
    <3>3. UNCHANGED <<files, pointer, verRows, phase, cache, rotAt, oldKey, oldVer, newKey,
                      newVer, buf, wcol, wlate, keysMade, crashes, writes, stranded,
                      doomedKeys, doomedVers>>
      BY <2>2 DEF WriterCommit
    <3> QED BY <3>1, <3>2, <3>3 DEF cache
  <2> QED BY <1>4, <2>1, <2>2 DEF Write
<1>5. CASE UNCHANGED rotationVars
  BY <1>5 DEF rotationVars, disk, cache, rotation, writing
<1> QED BY <1>1, <1>2, <1>3, <1>4, <1>5 DEF RotationNext

(* The variables of the vault always have their types, for any number of    *)
(* columns, rotating threads and writers, with or without faults.           *)
THEOREM RotationTypeCorrect == RotationSpec => []RotationTypeOK
  BY RotationTypeInit, RotationTypeStep, PTL DEF RotationSpec

-----------------------------------------------------------------------------
(* No key is lost.  The inductive invariant says, besides the two results,  *)
(* which key every place may hold and what a rotation may rely on at each   *)
(* of its stages.                                                           *)

(* A rotation that has taken its new key and number.                        *)
InFlight(r) == rotAt[r] \notin {"idle", "begun"}

(* Its number is one whose key file may be overwritten or deleted.          *)
Doomed(r) == newVer[r] \in doomedVers

KeysIssued ==
    /\ keysMade >= 1
    /\ \A v \in Versions : files[v] <= keysMade
    /\ cacheKey <= keysMade
    /\ \A c \in Columns : rows[c].key <= keysMade
    /\ \A w \in Writers : wct[w].key <= keysMade
    /\ \A r \in Rotators : newKey[r] <= keysMade

CacheBacked ==
    phase = "up" =>
        /\ cacheVer \in Versions /\ cacheKey # 0
        /\ \/ files[cacheVer] = cacheKey
           \/ cacheVer \in doomedVers /\ cacheKey \in doomedKeys

(* A key that is on disk, or that was given up.                             *)
Safe(k) == Known(k) \/ k \in doomedKeys

WritersRecoverable == \A w \in Writers : wct[w].key # 0 => Safe(wct[w].key)

(* Until keys/current exists nothing is encrypted but under the             *)
(* environment's key.                                                       *)
BeforeFirstKey ==
    /\ pointer = 0 =>
         /\ phase \in {"down", "seeding"} /\ doomedVers = {}
         /\ \A c \in Columns : rows[c].key # 0 => EnvKeyPresent /\ rows[c].key = EnvKey
    /\ phase = "seeding" => pointer = 0 /\ files[1] # 0 /\ (EnvKeyPresent => files[1] = EnvKey)

OnlyWhenUp ==
    phase # "up" => /\ \A r \in Rotators : rotAt[r] = "idle"
                    /\ \A w \in Writers : wpc[w] = "idle" /\ wct[w].key = 0

(* What is given up is given up together: a number with its file's key and  *)
(* with the key of every rotation that holds it, and never unnoticed.       *)
Doom ==
    /\ \A v \in Versions : v \in doomedVers => files[v] = 0 \/ files[v] \in doomedKeys
    /\ \A r \in Rotators : InFlight(r) /\ Doomed(r) => newKey[r] \in doomedKeys
    /\ ~stranded => doomedKeys = {} /\ doomedVers = {}

(* Two rotations never have one key, and one number only if it is doomed.   *)
Apart ==
    \A q, r \in Rotators :
        q # r /\ InFlight(q) /\ InFlight(r) =>
            newKey[q] # newKey[r] /\ (newVer[q] = newVer[r] => Doomed(r))

(* The rotation's key is in no use yet.                                     *)
NotInUse(r) ==
    /\ cacheKey # newKey[r] /\ cacheVer # newVer[r] /\ pointer # newVer[r]
    /\ \A c \in Columns : rows[c].key # newKey[r]
    /\ \A w \in Writers : wct[w].key # newKey[r]

Stage(r) ==
    /\ InFlight(r) => newVer[r] \in Versions /\ newKey[r] # 0
    /\ rotAt[r] = "picked" => Doomed(r) \/ files[newVer[r]] = 0
    /\ rotAt[r] \in {"written", "reading", "committed", "pointed", "failed"} =>
         Doomed(r) \/ files[newVer[r]] = newKey[r]
    /\ rotAt[r] \in {"picked", "written", "reading", "failed"} => Doomed(r) \/ NotInUse(r)
    /\ rotAt[r] = "reading" => \A c \in Columns : buf[r][c].key \in {0, newKey[r]}
    /\ rotAt[r] \in {"idle", "begun", "picked", "written"} => buf[r] = NothingRead

Stages == \A r \in Rotators : Stage(r)

NoKeyLost ==
    /\ RotationTypeOK /\ KeysIssued /\ CacheBacked /\ BeforeFirstKey /\ OnlyWhenUp
    /\ Doom /\ Apart /\ Stages
    /\ WritersRecoverable /\ RowsRecoverable /\ PointerResolves

(* Before the first boot only the environment's key is in use.              *)
LEMMA NoKeyLostInit == RotationInit => NoKeyLost
<1> SUFFICES ASSUME RotationInit PROVE NoKeyLost
  OBVIOUS
<1> USE ConstantsAssumption DEF ConstantsAssumption
<1>1. RotationTypeOK
  BY RotationTypeInit
<1>2. \A c \in Columns : rows[c].key # 0 => EnvKeyPresent /\ rows[c].key = EnvKey
  BY DEF RotationInit, Empty, EnvKey
<1>3. KeysIssued /\ WritersRecoverable
  BY <1>2 DEF RotationInit, KeysIssued, WritersRecoverable, Empty, EnvKey
<1>4. CacheBacked /\ BeforeFirstKey /\ OnlyWhenUp /\ PointerResolves
  BY <1>2 DEF RotationInit, CacheBacked, BeforeFirstKey, OnlyWhenUp, PointerResolves, Empty
<1>5. Stages /\ Apart
  BY DEF RotationInit, Stages, Stage, Apart, InFlight
<1>6. Doom
  BY DEF RotationInit, Doom, InFlight
<1>7. RowsRecoverable
  BY <1>2 DEF RowsRecoverable, Known
<1> QED BY <1>1, <1>3, <1>4, <1>5, <1>6, <1>7 DEF NoKeyLost

(* While nobody rotates and nothing is being written, the stages say        *)
(* nothing.                                                                 *)
LEMMA IdleStages ==
  ASSUME \A r \in Rotators : rotAt'[r] = "idle" /\ buf'[r] = NothingRead
  PROVE  Stages' /\ Apart'
  BY DEF Stages, Stage, Apart, InFlight

(* A boot writes the first key's file before the pointer that names it.     *)
LEMMA BootKeepsKeys ==
  ASSUME NoKeyLost, RotationTypeOK', Boot PROVE NoKeyLost'
<1> USE ConstantsAssumption DEF ConstantsAssumption, Versions
<1>0. /\ phase # "up"
      /\ UNCHANGED <<rows, rotAt, newKey, newVer, buf, wpc, wct, stranded, doomedKeys, doomedVers>>
  BY DEF Boot, BootLoad, BootRefuse, BootWriteKey, BootWritePointer, disk, rotation, writing, overtaken
<1>1. /\ \A r \in Rotators : rotAt[r] = "idle"
      /\ \A w \in Writers : wpc[w] = "idle" /\ wct[w].key = 0
  BY <1>0 DEF NoKeyLost, OnlyWhenUp
<1>2. \A r \in Rotators : rotAt'[r] = "idle" /\ buf'[r] = NothingRead
  BY <1>0, <1>1 DEF NoKeyLost, Stages, Stage
<1>3. Stages' /\ Apart'
  BY <1>2, IdleStages
<1>4. OnlyWhenUp' /\ WritersRecoverable'
  BY <1>0, <1>1 DEF OnlyWhenUp, WritersRecoverable
<1>5. /\ \A c \in Columns : rows[c].key \in Nat
      /\ \A w \in Writers : wct[w].key \in Nat
      /\ keysMade \in Nat /\ files \in [Versions -> Nat] /\ pointer \in 0..MaxVersion
  BY DEF NoKeyLost, RotationTypeOK, Ciphertext
<1>6. CASE BootLoad
  <2>1. /\ UNCHANGED <<files, pointer, keysMade>> /\ pointer # 0 /\ files[pointer] # 0
        /\ cacheKey' = files[pointer] /\ cacheVer' = pointer /\ phase' = "up"
    BY <1>6 DEF BootLoad
  <2>2. KeysIssued' /\ CacheBacked'
    BY <1>0, <1>5, <2>1 DEF NoKeyLost, KeysIssued, CacheBacked
  <2>3. BeforeFirstKey' /\ PointerResolves'
    BY <1>0, <2>1 DEF NoKeyLost, BeforeFirstKey, PointerResolves
  <2>4. Doom' /\ RowsRecoverable'
    BY <1>0, <1>1, <2>1 DEF NoKeyLost, Doom, InFlight, RowsRecoverable, Known
  <2> QED BY <1>3, <1>4, <2>2, <2>3, <2>4 DEF NoKeyLost
<1>7. CASE BootRefuse
  <2>1. UNCHANGED <<files, pointer, keysMade, cacheKey, cacheVer>> /\ pointer # 0 /\ phase' = "refused"
    BY <1>7 DEF BootRefuse, disk, cache
  <2>2. KeysIssued' /\ CacheBacked'
    BY <1>0, <2>1 DEF NoKeyLost, KeysIssued, CacheBacked
  <2>3. BeforeFirstKey' /\ PointerResolves'
    BY <1>0, <2>1 DEF NoKeyLost, BeforeFirstKey, PointerResolves
  <2>4. Doom' /\ RowsRecoverable'
    BY <1>0, <1>1, <2>1 DEF NoKeyLost, Doom, InFlight, RowsRecoverable, Known
  <2> QED BY <1>3, <1>4, <2>2, <2>3, <2>4 DEF NoKeyLost
<1>8. CASE BootWriteKey
  <2> DEFINE k == IF EnvKeyPresent THEN EnvKey ELSE keysMade + 1
  <2>1. /\ pointer = 0 /\ UNCHANGED <<pointer, cacheKey, cacheVer>> /\ phase' = "seeding"
        /\ keysMade' \in {keysMade, keysMade + 1} /\ k <= keysMade' /\ k # 0
        /\ files' = [files EXCEPT ![1] = k]
    BY <1>5, <1>8 DEF BootWriteKey, cache, EnvKey, NoKeyLost, KeysIssued
  <2>2. keysMade <= keysMade' /\ keysMade' \in Nat
    BY <1>5, <2>1
  <2>3. cacheKey \in Nat /\ \A r \in Rotators : newKey[r] \in Nat
    BY DEF NoKeyLost, RotationTypeOK
  <2>4. /\ EnvKeyPresent => k = EnvKey
        /\ k \in Nat
    BY <1>5 DEF EnvKey
  <2> HIDE DEF k
  <2>5. KeysIssued' /\ CacheBacked'
    BY <1>0, <1>5, <2>1, <2>2, <2>3, <2>4 DEF NoKeyLost, KeysIssued, CacheBacked
  <2>6. /\ doomedVers = {}
        /\ \A c \in Columns : rows[c].key # 0 => EnvKeyPresent /\ rows[c].key = EnvKey
    BY <2>1 DEF NoKeyLost, BeforeFirstKey
  <2>7. BeforeFirstKey' /\ PointerResolves'
    BY <1>0, <1>5, <2>1, <2>4, <2>6 DEF BeforeFirstKey, PointerResolves
  <2>8. Doom' /\ RowsRecoverable'
    BY <1>0, <1>1, <2>6 DEF NoKeyLost, Doom, InFlight, RowsRecoverable, Known
  <2> QED BY <1>3, <1>4, <2>5, <2>7, <2>8 DEF NoKeyLost
<1>9. CASE BootWritePointer
  <2>1. /\ UNCHANGED <<files, keysMade>> /\ phase = "seeding" /\ phase' = "up"
        /\ pointer' = 1 /\ cacheKey' = files[1] /\ cacheVer' = 1
    BY <1>9 DEF BootWritePointer
  <2>2. files[1] # 0
    BY <2>1 DEF NoKeyLost, BeforeFirstKey
  <2>3. KeysIssued' /\ CacheBacked'
    BY <1>0, <1>5, <2>1, <2>2 DEF NoKeyLost, KeysIssued, CacheBacked
  <2>4. BeforeFirstKey' /\ PointerResolves'
    BY <2>1, <2>2 DEF BeforeFirstKey, PointerResolves
  <2>5. Doom' /\ RowsRecoverable'
    BY <1>0, <1>1, <2>1 DEF NoKeyLost, Doom, InFlight, RowsRecoverable, Known
  <2> QED BY <1>3, <1>4, <2>3, <2>4, <2>5 DEF NoKeyLost
<1> QED BY <1>6, <1>7, <1>8, <1>9 DEF Boot

(* A crash loses the cache and the open transactions, nothing on disk.      *)
LEMMA CrashKeepsKeys ==
  ASSUME NoKeyLost, RotationTypeOK', ProcessCrash PROVE NoKeyLost'
<1>1. /\ UNCHANGED <<files, pointer, rows, keysMade, doomedKeys, doomedVers>>
      /\ phase' = "down" /\ cacheKey' = 0
      /\ \A w \in Writers : wpc'[w] = "idle" /\ wct'[w].key = 0
      /\ stranded => stranded'
  BY DEF ProcessCrash, disk, Empty
<1>2. \A r \in Rotators : rotAt'[r] = "idle" /\ buf'[r] = NothingRead /\ newKey'[r] = 0
  BY DEF ProcessCrash
<1>3. Stages' /\ Apart'
  BY <1>2, IdleStages
<1>4. KeysIssued'
  BY <1>1, <1>2 DEF NoKeyLost, RotationTypeOK, KeysIssued
<1>5. CacheBacked' /\ WritersRecoverable'
  BY <1>1 DEF CacheBacked, WritersRecoverable
<1>6. BeforeFirstKey' /\ OnlyWhenUp' /\ PointerResolves'
  BY <1>1, <1>2 DEF NoKeyLost, BeforeFirstKey, OnlyWhenUp, PointerResolves
<1>7. Doom' /\ RowsRecoverable'
  BY <1>1, <1>2 DEF NoKeyLost, Doom, InFlight, RowsRecoverable, Known
<1> QED BY <1>3, <1>4, <1>5, <1>6, <1>7 DEF NoKeyLost

(* What a step that leaves a rotation's local variables alone has to keep   *)
(* for that rotation.                                                       *)
LEMMA StageFrame ==
  ASSUME NEW q \in Rotators, Stage(q),
         UNCHANGED <<rotAt[q], newKey[q], newVer[q], buf[q]>>,
         Doomed(q) => Doomed(q)',
         InFlight(q) /\ ~Doomed(q)' => files'[newVer[q]] = files[newVer[q]],
         InFlight(q) /\ ~Doomed(q)' /\ NotInUse(q) => NotInUse(q)'
  PROVE  Stage(q)'
  BY DEF Stage, InFlight

(* A secret is encrypted with the cached key, whose file stays.             *)
LEMMA WriteKeepsKeys ==
  ASSUME NoKeyLost, RotationTypeOK', NEW w \in Writers, Write(w) PROVE NoKeyLost'
<1>1. /\ UNCHANGED <<files, pointer, phase, cacheKey, cacheVer, rotAt, newKey, newVer, buf,
                     keysMade, stranded, doomedKeys, doomedVers>>
      /\ \A x \in Writers : wct'[x].key \in {0, wct[x].key, cacheKey}
      /\ \A d \in Columns : rows'[d].key \in {rows[d].key, wct[w].key}
      /\ \A x \in Writers : x # w => wpc'[x] = wpc[x] /\ wct'[x] = wct[x]
  <2>1. CASE \E c \in Columns : WriterEncrypt(w, c)
    BY <2>1 DEF NoKeyLost, RotationTypeOK, WriterEncrypt, disk, cache, rotation, overtaken
  <2>2. CASE WriterCommit(w)
    BY <2>2 DEF NoKeyLost, RotationTypeOK, WriterCommit, Empty, cache
  <2> QED BY <2>1, <2>2 DEF Write
<1>2. phase = "up" /\ pointer # 0
  BY DEF NoKeyLost, OnlyWhenUp, BeforeFirstKey, Write, WriterEncrypt, WriterCommit
<1>3. KeysIssued'
  <2>1. keysMade \in Nat /\ 0 <= keysMade /\ KeysIssued
    BY DEF NoKeyLost, RotationTypeOK
  <2>2. \A x \in Writers : wct'[x].key <= keysMade
    BY <1>1, <2>1 DEF KeysIssued
  <2>3. \A d \in Columns : rows'[d].key <= keysMade
    BY <1>1, <2>1 DEF KeysIssued
  <2> QED BY <1>1, <2>1, <2>2, <2>3 DEF KeysIssued
<1>4. CacheBacked' /\ BeforeFirstKey' /\ OnlyWhenUp' /\ PointerResolves'
  BY <1>1, <1>2 DEF NoKeyLost, CacheBacked, BeforeFirstKey, OnlyWhenUp, PointerResolves
<1>5. Doom' /\ Apart'
  BY <1>1 DEF NoKeyLost, Doom, Apart, InFlight, Doomed
<1>6. Stages'
  <2>1. ASSUME NEW q \in Rotators PROVE Stage(q)'
    <3>1. NotInUse(q) /\ newKey[q] # 0 => NotInUse(q)'
      BY <1>1 DEF NotInUse
    <3>2. Stage(q) /\ (InFlight(q) => newKey[q] # 0)
      BY DEF NoKeyLost, Stages, Stage
    <3>3. Doomed(q)' = Doomed(q)
      BY <1>1 DEF Doomed
    <3> QED BY <1>1, <3>1, <3>2, <3>3, StageFrame
  <2> QED BY <2>1 DEF Stages
<1>7. WritersRecoverable' /\ RowsRecoverable'
  <2>1. \A k : Safe(k)' <=> Safe(k)
    BY <1>1 DEF Safe, Known
  <2>2. Safe(cacheKey)
    BY <1>2 DEF NoKeyLost, CacheBacked, Safe, Known
  <2>3. WritersRecoverable'
    BY <1>1, <2>1, <2>2 DEF NoKeyLost, WritersRecoverable
  <2>4. RowsRecoverable'
    <3>1. \A d \in Columns : rows'[d].key # 0 => Safe(rows'[d].key)
      BY <1>1 DEF NoKeyLost, WritersRecoverable, RowsRecoverable, Safe
    <3> QED BY <2>1, <3>1 DEF RowsRecoverable, Safe
  <2> QED BY <2>3, <2>4
<1> QED BY <1>3, <1>4, <1>5, <1>6, <1>7 DEF NoKeyLost

(* A rotation runs in a process that has its key.                           *)
LEMMA RotateIsUp ==
  ASSUME NoKeyLost, NEW r \in Rotators, Rotate(r)
  PROVE  /\ phase = "up" /\ pointer # 0
         /\ UNCHANGED <<phase, wpc, wct>>
<1>1. phase = "up"
  <2>1. phase = "up" \/ rotAt[r] # "idle"
    BY DEF Rotate, RotateBegin, RotatePick, RotateWritePending, RotateRegister, RotateSetupFails,
       RotateRead, RotateFails, RotateCommit, RotatePoint, RotateActivate, RotateActivationFails,
       RotateDeleteKeyFile, InActivation
  <2> QED BY <2>1 DEF NoKeyLost, OnlyWhenUp
<1>2. UNCHANGED <<phase, wpc, wct>>
  BY DEF Rotate, RotateBegin, RotatePick, RotateWritePending, RotateRegister,
     RotateSetupFails, RotateRead, RotateFails, RotateCommit, RotatePoint, RotateActivate,
     RotateActivationFails, RotateDeleteKeyFile, writing
<1> QED BY <1>1, <1>2 DEF NoKeyLost, BeforeFirstKey

(* The local variables after the end of a request.                          *)
LEMMA EndRotationEffect ==
  ASSUME RotationTypeOK, NEW r \in Rotators, EndRotation(r)
  PROVE  /\ rotAt'[r] = "idle" /\ newKey'[r] = 0 /\ newVer'[r] = 0 /\ buf'[r] = NothingRead
         /\ \A q \in Rotators \ {r} : UNCHANGED <<rotAt[q], newKey[q], newVer[q], buf[q], late[q]>>
  BY DEF RotationTypeOK, EndRotation

(* The stages that only look, or that give up before the re-encryption: one *)
(* rotation's local variables change and nothing else.                      *)
LEMMA LocalStep ==
  ASSUME NoKeyLost, RotationTypeOK', NEW r \in Rotators, phase = "up",
         UNCHANGED <<files, pointer, rows, phase, cacheKey, cacheVer, wpc, wct, keysMade,
                     stranded, doomedKeys, doomedVers>>,
         \A q \in Rotators \ {r} : UNCHANGED <<rotAt[q], newKey[q], newVer[q], buf[q]>>,
         newKey'[r] \in {0, newKey[r]},
         InFlight(r)' => InFlight(r) /\ UNCHANGED <<newKey[r], newVer[r]>>,
         Stage(r)'
  PROVE  NoKeyLost'
<1>1. KeysIssued'
  <2>1. keysMade \in Nat /\ KeysIssued
    BY DEF NoKeyLost, RotationTypeOK
  <2>2. \A q \in Rotators : newKey'[q] \in {0, newKey[q]}
    OBVIOUS
  <2>3. \A q \in Rotators : newKey'[q] <= keysMade
    BY <2>1, <2>2 DEF KeysIssued
  <2> QED BY <2>1, <2>3 DEF KeysIssued
<1>2. CacheBacked' /\ BeforeFirstKey' /\ OnlyWhenUp' /\ PointerResolves'
  BY DEF NoKeyLost, CacheBacked, BeforeFirstKey, OnlyWhenUp, PointerResolves
<1>3. \A q \in Rotators : InFlight(q)' => InFlight(q) /\ UNCHANGED <<newKey[q], newVer[q]>>
  BY DEF InFlight
<1>4. Doom' /\ Apart'
  BY <1>3 DEF NoKeyLost, Doom, Apart, Doomed
<1>5. Stages'
  <2>1. ASSUME NEW q \in Rotators \ {r} PROVE Stage(q)'
    BY StageFrame DEF NoKeyLost, Stages, Doomed, NotInUse
  <2> QED BY <2>1 DEF Stages
<1>6. WritersRecoverable' /\ RowsRecoverable'
  BY DEF NoKeyLost, WritersRecoverable, RowsRecoverable, Safe, Known
<1> QED BY <1>1, <1>2, <1>4, <1>5, <1>6 DEF NoKeyLost

(* Two rotations that pick one number are marked, with their keys.          *)
LEMMA SharedNumberEffect ==
  ASSUME NEW r \in Rotators, NEW v \in Versions, SharedNumber(r, v)
  PROVE  /\ doomedVers \subseteq doomedVers' /\ doomedVers' \subseteq doomedVers \cup {v}
         /\ doomedKeys \subseteq doomedKeys'
         /\ Rivals(r, v) # {} => v \in doomedVers'
         /\ v \in doomedVers' => keysMade + 1 \in doomedKeys'
         /\ v \in doomedVers' => \A q \in Rivals(r, v) : newKey[q] \in doomedKeys'
         /\ ~stranded' => UNCHANGED <<stranded, doomedKeys, doomedVers>>
         /\ stranded => stranded'
<1>1. CASE Rivals(r, v) # {} \/ v \in doomedVers
  BY <1>1, Zenon DEF SharedNumber
<1>2. CASE ~(Rivals(r, v) # {} \/ v \in doomedVers)
  BY <1>2, Zenon DEF SharedNumber
<1> QED BY <1>1, <1>2

LEMMA PickKeepsKeys ==
  ASSUME NoKeyLost, RotationTypeOK', NEW r \in Rotators, RotatePick(r) PROVE NoKeyLost'
<1>1. /\ UNCHANGED <<files, pointer, rows, phase, cacheKey, cacheVer, wpc, wct, buf>>
      /\ rotAt[r] = "begun" /\ rotAt' = [rotAt EXCEPT ![r] = "picked"]
      /\ newKey' = [newKey EXCEPT ![r] = keysMade + 1] /\ keysMade' = keysMade + 1
  BY DEF RotatePick, disk, cache, writing
<1>2. PICK v \in Versions : /\ next_key_version(v) /\ newVer' = [newVer EXCEPT ![r] = v]
                            /\ SharedNumber(r, v)
  BY DEF RotatePick
<1>3. files[v] = 0 /\ v # cacheVer
  BY <1>2, ConstantsAssumption
     DEF ConstantsAssumption, next_key_version, KnownVersions, NoKeyLost, RotationTypeOK, Versions
<1>4. /\ rotAt'[r] = "picked" /\ newKey'[r] = keysMade + 1 /\ newVer'[r] = v
      /\ \A q \in Rotators \ {r} : UNCHANGED <<rotAt[q], newKey[q], newVer[q]>>
  BY <1>1, <1>2 DEF NoKeyLost, RotationTypeOK
<1>5. phase = "up" /\ pointer # 0
  BY <1>1 DEF NoKeyLost, OnlyWhenUp, BeforeFirstKey
<1>6. keysMade \in Nat /\ KeysIssued
  BY DEF NoKeyLost, RotationTypeOK
<1>7. /\ doomedVers \subseteq doomedVers' /\ doomedVers' \subseteq doomedVers \cup {v}
      /\ doomedKeys \subseteq doomedKeys'
      /\ Rivals(r, v) # {} => v \in doomedVers'
      /\ v \in doomedVers' => keysMade + 1 \in doomedKeys'
      /\ v \in doomedVers' => \A q \in Rivals(r, v) : newKey[q] \in doomedKeys'
      /\ ~stranded' => UNCHANGED <<stranded, doomedKeys, doomedVers>>
  BY <1>2, SharedNumberEffect
(* Whoever else holds the number either is a rival or held it doomed.       *)
<1>8. ASSUME NEW q \in Rotators \ {r}, InFlight(q), newVer[q] = v
      PROVE  v \in doomedVers' /\ newKey[q] \in doomedKeys'
  <2>1. Stage(q)
    BY DEF NoKeyLost, Stages
  <2>2. CASE Doomed(q)
    BY <1>7, <1>8, <2>2 DEF NoKeyLost, Doom, Doomed
  <2>3. CASE ~Doomed(q)
    <3>1. rotAt[q] = "picked"
      BY <1>3, <1>8, <2>1, <2>3 DEF Stage, InFlight, NoKeyLost, RotationTypeOK
    <3>2. q \in Rivals(r, v)
      BY <1>8, <3>1 DEF Rivals
    <3> QED BY <1>7, <3>2
  <2> QED BY <2>2, <2>3
<1>9. KeysIssued'
  <2>1. /\ \A c \in Columns : rows[c].key \in Nat
        /\ \A w \in Writers : wct[w].key \in Nat
        /\ \A q \in Rotators : newKey[q] \in Nat
        /\ \A x \in Versions : files[x] \in Nat
        /\ cacheKey \in Nat
    BY DEF NoKeyLost, RotationTypeOK, Ciphertext
  <2>2. \A n \in Nat : n <= keysMade => n <= keysMade'
    BY <1>1, <1>6
  <2>3. keysMade' >= 1 /\ keysMade + 1 <= keysMade'
    BY <1>1, <1>6 DEF KeysIssued
  <2>4. \A q \in Rotators : newKey'[q] <= keysMade'
    BY <1>4, <1>6, <2>1, <2>2, <2>3 DEF KeysIssued
  <2> QED BY <1>1, <1>6, <2>1, <2>2, <2>3, <2>4 DEF KeysIssued
<1>10. CacheBacked' /\ BeforeFirstKey' /\ OnlyWhenUp' /\ PointerResolves'
  BY <1>1, <1>5, <1>7 DEF NoKeyLost, CacheBacked, BeforeFirstKey, OnlyWhenUp, PointerResolves
<1>11. Doom'
  <2>1. \A x \in Versions : x \in doomedVers' => files'[x] = 0 \/ files'[x] \in doomedKeys'
    BY <1>1, <1>3, <1>7 DEF NoKeyLost, Doom
  <2>2. ASSUME NEW q \in Rotators, InFlight(q)', Doomed(q)' PROVE newKey'[q] \in doomedKeys'
    <3>1. CASE q = r
      BY <1>4, <1>7, <2>2, <3>1 DEF Doomed
    <3>2. CASE q # r
      <4>1. InFlight(q) /\ newVer[q] \in doomedVers'
        BY <1>4, <2>2, <3>2 DEF InFlight, Doomed
      <4>2. CASE newVer[q] = v
        BY <1>4, <1>8, <3>2, <4>1, <4>2
      <4>3. CASE newVer[q] \in doomedVers
        BY <1>4, <1>7, <3>2, <4>1, <4>3 DEF NoKeyLost, Doom, Doomed
      <4> QED BY <1>7, <4>1, <4>2, <4>3
    <3> QED BY <3>1, <3>2
  <2>3. ~stranded' => doomedKeys' = {} /\ doomedVers' = {}
    BY <1>7 DEF NoKeyLost, Doom
  <2> QED BY <2>1, <2>2, <2>3 DEF Doom
<1>12. Apart'
  <2>1. ASSUME NEW q \in Rotators, NEW s \in Rotators, q # s, InFlight(q)', InFlight(s)'
        PROVE  newKey'[q] # newKey'[s] /\ (newVer'[q] = newVer'[s] => newVer'[s] \in doomedVers')
    <3>1. \A x \in Rotators : newKey[x] <= keysMade /\ newKey[x] \in Nat
      BY <1>6 DEF KeysIssued, NoKeyLost, RotationTypeOK
    <3>2. CASE q # r /\ s # r
      <4>1. InFlight(q) /\ InFlight(s)
        BY <1>4, <2>1, <3>2 DEF InFlight
      <4> QED BY <1>4, <1>7, <2>1, <3>2, <4>1 DEF NoKeyLost, Apart, Doomed
    <3>3. CASE q = r
      <4>1. s # r /\ InFlight(s)
        BY <1>4, <2>1, <3>3 DEF InFlight
      <4> QED BY <1>4, <1>6, <1>8, <3>1, <3>3, <4>1
    <3>4. CASE s = r
      <4>1. q # r /\ InFlight(q)
        BY <1>4, <2>1, <3>4 DEF InFlight
      <4> QED BY <1>4, <1>6, <1>8, <3>1, <3>4, <4>1
    <3> QED BY <3>2, <3>3, <3>4
  <2> QED BY <2>1 DEF Apart, Doomed
<1>13. Stages'
  <2>1. ASSUME NEW q \in Rotators \ {r} PROVE Stage(q)'
    BY <1>1, <1>4, <1>7, StageFrame DEF NoKeyLost, Stages, Doomed, NotInUse
  <2>2. Stage(r)'
    <3>1. /\ cacheKey # keysMade + 1
          /\ \A c \in Columns : rows[c].key # keysMade + 1
          /\ \A w \in Writers : wct[w].key # keysMade + 1
      BY <1>6 DEF KeysIssued, NoKeyLost, RotationTypeOK, Ciphertext
    <3>2. pointer = v => v \in doomedVers'
      BY <1>3, <1>5, <1>7 DEF NoKeyLost, PointerResolves
    <3>3. Doomed(r)' \/ NotInUse(r)'
      BY <1>1, <1>3, <1>4, <3>1, <3>2 DEF NotInUse, Doomed
    <3>4. keysMade + 1 # 0 /\ buf'[r] = NothingRead
      BY <1>1, <1>6 DEF NoKeyLost, Stages, Stage
    <3> QED BY <1>1, <1>3, <1>4, <3>3, <3>4 DEF Stage, InFlight
  <2> QED BY <2>1, <2>2 DEF Stages
<1>14. WritersRecoverable' /\ RowsRecoverable'
  BY <1>1, <1>7 DEF NoKeyLost, WritersRecoverable, RowsRecoverable, Safe, Known
<1> QED BY <1>9, <1>10, <1>11, <1>12, <1>13, <1>14 DEF NoKeyLost

(* The key file of a rotation is written or deleted: whatever its number    *)
(* named before, nothing that was not given up needs it.                    *)
LEMMA FileChangeIsSafe ==
  ASSUME NoKeyLost, NEW r \in Rotators, InFlight(r),
         UNCHANGED <<doomedKeys, doomedVers>>,
         \A v \in Versions \ {newVer[r]} : files'[v] = files[v],
         NEW k, k # 0, Safe(k),
         Doomed(r) \/ files[newVer[r]] # k
  PROVE  Safe(k)'
<1>1. CASE k \in doomedKeys
  BY <1>1 DEF Safe
<1>2. CASE EnvKeyPresent /\ k = EnvKey
  BY <1>2 DEF Safe, Known
<1>3. ASSUME NEW v \in Versions, files[v] = k PROVE Safe(k)'
  <2>1. CASE v # newVer[r]
    BY <1>3, <2>1 DEF Safe, Known
  <2>2. CASE v = newVer[r]
    BY <1>3, <2>2 DEF NoKeyLost, Doom, Doomed, Safe
  <2> QED BY <2>1, <2>2
<1> QED BY <1>1, <1>2, <1>3 DEF Safe, Known

LEMMA WritePendingKeepsKeys ==
  ASSUME NoKeyLost, RotationTypeOK', NEW r \in Rotators, RotateWritePending(r) PROVE NoKeyLost'
<1>1. /\ UNCHANGED <<pointer, rows, phase, cacheKey, cacheVer, wpc, wct, buf, newKey, newVer,
                     keysMade, stranded, doomedKeys, doomedVers>>
      /\ rotAt[r] = "picked" /\ rotAt' = [rotAt EXCEPT ![r] = "written"]
      /\ files' = [files EXCEPT ![newVer[r]] = newKey[r]]
  BY DEF RotateWritePending, cache, writing, overtaken
<1>2. InFlight(r) /\ Stage(r) /\ newVer[r] \in Versions /\ newKey[r] # 0
  BY <1>1 DEF NoKeyLost, Stages, Stage, InFlight
<1>3. \A v \in Versions : files'[v] = IF v = newVer[r] THEN newKey[r] ELSE files[v]
  BY <1>1, <1>2 DEF NoKeyLost, RotationTypeOK
<1>4. rotAt'[r] = "written" /\ \A q \in Rotators \ {r} : rotAt'[q] = rotAt[q]
  BY <1>1 DEF NoKeyLost, RotationTypeOK
<1>5. \A q \in Rotators : InFlight(q)' <=> InFlight(q)
  BY <1>1, <1>4 DEF InFlight
<1>6. phase = "up" /\ pointer # 0 /\ Doom
  BY <1>1 DEF NoKeyLost, OnlyWhenUp, BeforeFirstKey
<1>7. KeysIssued'
  BY <1>1, <1>3 DEF NoKeyLost, KeysIssued
<1>8. CacheBacked'
  <2>1. CASE cacheVer = newVer[r]
    BY <1>1, <1>2, <1>6, <2>1 DEF NoKeyLost, CacheBacked, Stage, NotInUse, Doom, Doomed
  <2>2. CASE cacheVer # newVer[r]
    BY <1>1, <1>3, <1>6, <2>2 DEF NoKeyLost, CacheBacked
  <2> QED BY <2>1, <2>2
<1>9. BeforeFirstKey' /\ OnlyWhenUp' /\ PointerResolves'
  BY <1>1, <1>2, <1>3, <1>6, ConstantsAssumption
     DEF ConstantsAssumption, NoKeyLost, RotationTypeOK, Versions, BeforeFirstKey, OnlyWhenUp,
         PointerResolves
<1>10. Doom' /\ Apart'
  <2>1. \A v \in Versions : v \in doomedVers' => files'[v] = 0 \/ files'[v] \in doomedKeys'
    BY <1>1, <1>2, <1>3, <1>6 DEF Doom, Doomed
  <2>2. \A q \in Rotators : InFlight(q)' /\ Doomed(q)' => newKey'[q] \in doomedKeys'
    BY <1>1, <1>5, <1>6 DEF Doom, Doomed
  <2> QED BY <1>1, <1>5, <1>6, <2>1, <2>2 DEF NoKeyLost, Apart, Doom, Doomed
<1>11. Stages'
  <2>1. ASSUME NEW q \in Rotators \ {r} PROVE Stage(q)'
    <3>1. InFlight(q) /\ ~Doomed(q)' => files'[newVer[q]] = files[newVer[q]]
      BY <1>1, <1>2, <1>3 DEF NoKeyLost, Apart, Doomed, Stages, Stage
    <3>2. NotInUse(q) => NotInUse(q)'
      BY <1>1 DEF NotInUse
    <3> QED BY <1>1, <1>4, <3>1, <3>2, StageFrame DEF NoKeyLost, Stages, Doomed
  <2>2. Stage(r)'
    <3>1. NotInUse(r) => NotInUse(r)'
      BY <1>1 DEF NotInUse
    <3> QED BY <1>1, <1>2, <1>3, <1>4, <3>1 DEF Stage, Doomed, InFlight
  <2> QED BY <2>1, <2>2 DEF Stages
<1>12. WritersRecoverable' /\ RowsRecoverable'
  <2>1. \A k : k # 0 /\ Safe(k) => Safe(k)'
    BY <1>1, <1>2, <1>3, FileChangeIsSafe DEF Stage
  <2> QED BY <1>1, <2>1 DEF NoKeyLost, WritersRecoverable, RowsRecoverable, Safe
<1> QED BY <1>7, <1>8, <1>9, <1>10, <1>11, <1>12 DEF NoKeyLost

(* except: delete_key_file - of a key that is in no use, or given up.       *)
LEMMA DeleteKeepsKeys ==
  ASSUME NoKeyLost, RotationTypeOK', NEW r \in Rotators, RotateDeleteKeyFile(r) PROVE NoKeyLost'
<1>1. /\ UNCHANGED <<pointer, rows, phase, cacheKey, cacheVer, wpc, wct,
                     keysMade, stranded, doomedKeys, doomedVers>>
      /\ rotAt[r] = "failed"
      /\ files' = [files EXCEPT ![newVer[r]] = 0]
  BY DEF RotateDeleteKeyFile, cache, writing, overtaken
<1>2. InFlight(r) /\ Stage(r) /\ newVer[r] \in Versions /\ newKey[r] # 0
  BY <1>1 DEF NoKeyLost, Stages, Stage, InFlight
<1>3. \A v \in Versions : files'[v] = IF v = newVer[r] THEN 0 ELSE files[v]
  BY <1>1, <1>2 DEF NoKeyLost, RotationTypeOK
<1>4. /\ rotAt'[r] = "idle" /\ newKey'[r] = 0 /\ buf'[r] = NothingRead
      /\ \A q \in Rotators \ {r} : UNCHANGED <<rotAt[q], newKey[q], newVer[q], buf[q]>>
  BY EndRotationEffect DEF NoKeyLost, RotateDeleteKeyFile
<1>5. \A q \in Rotators : InFlight(q)' => q # r /\ InFlight(q)
  BY <1>1, <1>4 DEF InFlight
<1>6. phase = "up" /\ pointer # 0 /\ Doom /\ keysMade \in Nat
  BY <1>1 DEF NoKeyLost, OnlyWhenUp, BeforeFirstKey, RotationTypeOK
<1>7. Doomed(r) \/ (files[newVer[r]] = newKey[r] /\ NotInUse(r))
  BY <1>1, <1>2 DEF Stage
<1>8. KeysIssued'
  <2>1. \A q \in Rotators : newKey'[q] <= keysMade
    BY <1>4, <1>6 DEF NoKeyLost, KeysIssued
  <2> QED BY <1>1, <1>3, <1>6, <2>1 DEF NoKeyLost, KeysIssued
<1>9. CacheBacked'
  <2>1. CASE cacheVer = newVer[r]
    BY <1>1, <1>6, <1>7, <2>1 DEF NoKeyLost, CacheBacked, NotInUse, Doom, Doomed
  <2>2. CASE cacheVer # newVer[r]
    BY <1>1, <1>3, <1>6, <2>2 DEF NoKeyLost, CacheBacked
  <2> QED BY <2>1, <2>2
<1>10. BeforeFirstKey' /\ OnlyWhenUp'
  BY <1>1, <1>6 DEF NoKeyLost, BeforeFirstKey, OnlyWhenUp
<1>11. PointerResolves'
  <2>1. pointer \in Versions
    BY <1>6, ConstantsAssumption DEF ConstantsAssumption, NoKeyLost, RotationTypeOK, Versions
  <2> QED BY <1>1, <1>3, <1>7, <2>1 DEF NoKeyLost, PointerResolves, NotInUse, Doomed
<1>12. Doom' /\ Apart'
  <2>1. \A v \in Versions : v \in doomedVers' => files'[v] = 0 \/ files'[v] \in doomedKeys'
    BY <1>1, <1>3, <1>6 DEF Doom
  <2>2. \A q \in Rotators : InFlight(q)' /\ Doomed(q)' => newKey'[q] \in doomedKeys'
    BY <1>1, <1>4, <1>5, <1>6 DEF Doom, Doomed
  <2>3. Apart'
    BY <1>1, <1>4, <1>5 DEF NoKeyLost, Apart, Doomed
  <2> QED BY <1>1, <1>6, <2>1, <2>2, <2>3 DEF Doom
<1>13. Stages'
  <2>1. ASSUME NEW q \in Rotators \ {r} PROVE Stage(q)'
    <3>1. InFlight(q) /\ ~Doomed(q)' => files'[newVer[q]] = files[newVer[q]]
      BY <1>1, <1>2, <1>3, <1>4 DEF NoKeyLost, Apart, Doomed, Stages, Stage
    <3>2. NotInUse(q) => NotInUse(q)'
      BY <1>1, <1>4 DEF NotInUse
    <3> QED BY <1>1, <1>4, <3>1, <3>2, StageFrame DEF NoKeyLost, Stages, Doomed
  <2>2. Stage(r)'
    BY <1>4 DEF Stage, InFlight
  <2> QED BY <2>1, <2>2 DEF Stages
<1>14. WritersRecoverable' /\ RowsRecoverable'
  <2>1. \A k : k # 0 /\ Safe(k) /\ (Doomed(r) \/ files[newVer[r]] # k) => Safe(k)'
    BY <1>1, <1>2, <1>3, FileChangeIsSafe
  <2>2. \A w \in Writers : Doomed(r) \/ files[newVer[r]] # wct[w].key
    BY <1>7 DEF NotInUse
  <2>3. \A c \in Columns : Doomed(r) \/ files[newVer[r]] # rows[c].key
    BY <1>7 DEF NotInUse
  <2> QED BY <1>1, <2>1, <2>2, <2>3 DEF NoKeyLost, WritersRecoverable, RowsRecoverable, Safe
<1> QED BY <1>8, <1>9, <1>10, <1>11, <1>12, <1>13, <1>14 DEF NoKeyLost

LEMMA CommitKeepsKeys ==
  ASSUME NoKeyLost, RotationTypeOK', NEW r \in Rotators, RotateCommit(r) PROVE NoKeyLost'
<1>1. /\ UNCHANGED <<files, pointer, phase, cacheKey, cacheVer, wpc, wct, newKey, newVer, buf,
                     keysMade, doomedKeys, doomedVers>>
      /\ rotAt[r] = "reading" /\ rotAt' = [rotAt EXCEPT ![r] = "committed"]
      /\ stranded => stranded'
  BY DEF RotateCommit, cache
<1>2. InFlight(r) /\ Stage(r) /\ newVer[r] \in Versions /\ newKey[r] # 0
  BY <1>1 DEF NoKeyLost, Stages, Stage, InFlight
<1>3. \A c \in Columns : rows'[c].key \in {rows[c].key, newKey[r]}
  BY <1>1, <1>2 DEF RotateCommit, Flushed, Stage
<1>4. rotAt'[r] = "committed" /\ \A q \in Rotators \ {r} : rotAt'[q] = rotAt[q]
  BY <1>1 DEF NoKeyLost, RotationTypeOK
<1>5. \A q \in Rotators : InFlight(q)' <=> InFlight(q)
  BY <1>1, <1>4 DEF InFlight
<1>6. phase = "up" /\ pointer # 0 /\ Doom
  BY <1>1 DEF NoKeyLost, OnlyWhenUp, BeforeFirstKey
<1>7. KeysIssued'
  BY <1>1, <1>3 DEF NoKeyLost, KeysIssued
<1>8. CacheBacked' /\ BeforeFirstKey' /\ OnlyWhenUp' /\ PointerResolves'
  BY <1>1, <1>6 DEF NoKeyLost, CacheBacked, BeforeFirstKey, OnlyWhenUp, PointerResolves
<1>9. Doom' /\ Apart'
  BY <1>1, <1>5, <1>6 DEF NoKeyLost, Doom, Apart, Doomed
<1>10. Stages'
  <2>1. ASSUME NEW q \in Rotators \ {r} PROVE Stage(q)'
    <3>1. InFlight(q) => newKey[q] # newKey[r]
      BY <1>2 DEF NoKeyLost, Apart
    <3>2. InFlight(q) /\ NotInUse(q) => NotInUse(q)'
      BY <1>1, <1>3, <3>1 DEF NotInUse
    <3> QED BY <1>1, <1>4, <3>2, StageFrame DEF NoKeyLost, Stages, Doomed
  <2>2. Stage(r)'
    BY <1>1, <1>2, <1>4 DEF Stage, InFlight, Doomed
  <2> QED BY <2>1, <2>2 DEF Stages
<1>11. WritersRecoverable' /\ RowsRecoverable'
  <2>1. \A k : Safe(k)' <=> Safe(k)
    BY <1>1 DEF Safe, Known
  <2>2. Safe(newKey[r])
    BY <1>1, <1>2, <1>6 DEF Stage, Doom, Safe, Known
  <2>3. \A c \in Columns : rows'[c].key # 0 => Safe(rows'[c].key)
    BY <1>3, <2>2 DEF NoKeyLost, RowsRecoverable, Safe
  <2> QED BY <1>1, <2>1, <2>3 DEF NoKeyLost, WritersRecoverable, RowsRecoverable, Safe
<1> QED BY <1>7, <1>8, <1>9, <1>10, <1>11 DEF NoKeyLost

LEMMA PointKeepsKeys ==
  ASSUME NoKeyLost, RotationTypeOK', NEW r \in Rotators, RotatePoint(r) PROVE NoKeyLost'
<1>1. /\ UNCHANGED <<files, rows, phase, cacheKey, cacheVer, wpc, wct, newKey, newVer, buf,
                     keysMade, stranded, doomedKeys, doomedVers>>
      /\ rotAt[r] = "committed" /\ rotAt' = [rotAt EXCEPT ![r] = "pointed"]
      /\ pointer' = newVer[r]
  BY DEF RotatePoint, cache, writing, overtaken
<1>2. InFlight(r) /\ Stage(r) /\ newVer[r] \in Versions /\ newKey[r] # 0
  BY <1>1 DEF NoKeyLost, Stages, Stage, InFlight
<1>3. newVer[r] # 0
  BY <1>2, ConstantsAssumption DEF ConstantsAssumption, Versions
<1>4. rotAt'[r] = "pointed" /\ \A q \in Rotators \ {r} : rotAt'[q] = rotAt[q]
  BY <1>1 DEF NoKeyLost, RotationTypeOK
<1>5. \A q \in Rotators : InFlight(q)' <=> InFlight(q)
  BY <1>1, <1>4 DEF InFlight
<1>6. phase = "up" /\ Doom
  BY <1>1 DEF NoKeyLost, OnlyWhenUp
<1>7. KeysIssued' /\ CacheBacked'
  BY <1>1 DEF NoKeyLost, KeysIssued, CacheBacked
<1>8. BeforeFirstKey' /\ OnlyWhenUp' /\ PointerResolves'
  BY <1>1, <1>2, <1>3, <1>6 DEF BeforeFirstKey, OnlyWhenUp, PointerResolves, Stage, Doomed
<1>9. Doom' /\ Apart'
  BY <1>1, <1>5, <1>6 DEF NoKeyLost, Doom, Apart, Doomed
<1>10. Stages'
  <2>1. ASSUME NEW q \in Rotators \ {r} PROVE Stage(q)'
    <3>1. InFlight(q) /\ ~Doomed(q) => newVer[q] # newVer[r]
      BY <1>2 DEF NoKeyLost, Apart, Doomed
    <3>2. InFlight(q) /\ ~Doomed(q)' /\ NotInUse(q) => NotInUse(q)'
      BY <1>1, <3>1 DEF NotInUse, Doomed
    <3> QED BY <1>1, <1>4, <3>2, StageFrame DEF NoKeyLost, Stages, Doomed
  <2>2. Stage(r)'
    BY <1>1, <1>2, <1>4 DEF Stage, InFlight, Doomed
  <2> QED BY <2>1, <2>2 DEF Stages
<1>11. WritersRecoverable' /\ RowsRecoverable'
  BY <1>1 DEF NoKeyLost, WritersRecoverable, RowsRecoverable, Safe, Known
<1> QED BY <1>7, <1>8, <1>9, <1>10, <1>11 DEF NoKeyLost

LEMMA ActivateKeepsKeys ==
  ASSUME NoKeyLost, RotationTypeOK', NEW r \in Rotators, RotateActivate(r) PROVE NoKeyLost'
<1>1. /\ UNCHANGED <<files, pointer, rows, phase, wpc, wct,
                     keysMade, stranded, doomedKeys, doomedVers>>
      /\ rotAt[r] = "pointed"
      /\ cacheKey' = newKey[r] /\ cacheVer' = newVer[r]
  BY DEF RotateActivate, writing, overtaken
<1>2. InFlight(r) /\ Stage(r) /\ newVer[r] \in Versions /\ newKey[r] # 0
  BY <1>1 DEF NoKeyLost, Stages, Stage, InFlight
<1>3. /\ rotAt'[r] = "idle" /\ newKey'[r] = 0 /\ buf'[r] = NothingRead
      /\ \A q \in Rotators \ {r} : UNCHANGED <<rotAt[q], newKey[q], newVer[q], buf[q]>>
  BY EndRotationEffect DEF NoKeyLost, RotateActivate
<1>4. \A q \in Rotators : InFlight(q)' => q # r /\ InFlight(q)
  BY <1>1, <1>3 DEF InFlight
<1>5. phase = "up" /\ pointer # 0 /\ Doom /\ keysMade \in Nat
  BY <1>1 DEF NoKeyLost, OnlyWhenUp, BeforeFirstKey, RotationTypeOK
<1>6. KeysIssued'
  <2>1. \A q \in Rotators : newKey'[q] <= keysMade
    BY <1>3, <1>5 DEF NoKeyLost, KeysIssued
  <2> QED BY <1>1, <1>5, <2>1 DEF NoKeyLost, KeysIssued
<1>7. CacheBacked'
  BY <1>1, <1>2, <1>5 DEF CacheBacked, Stage, Doom, Doomed
<1>8. BeforeFirstKey' /\ OnlyWhenUp' /\ PointerResolves'
  BY <1>1, <1>5 DEF NoKeyLost, BeforeFirstKey, OnlyWhenUp, PointerResolves
<1>9. Doom' /\ Apart'
  BY <1>1, <1>3, <1>4, <1>5 DEF NoKeyLost, Doom, Apart, Doomed
<1>10. Stages'
  <2>1. ASSUME NEW q \in Rotators \ {r} PROVE Stage(q)'
    <3>1. InFlight(q) /\ ~Doomed(q) => newVer[q] # newVer[r] /\ newKey[q] # newKey[r]
      BY <1>2 DEF NoKeyLost, Apart, Doomed
    <3>2. InFlight(q) /\ ~Doomed(q)' /\ NotInUse(q) => NotInUse(q)'
      BY <1>1, <1>3, <3>1 DEF NotInUse, Doomed
    <3> QED BY <1>1, <1>3, <3>2, StageFrame DEF NoKeyLost, Stages, Doomed
  <2>2. Stage(r)'
    BY <1>3 DEF Stage, InFlight
  <2> QED BY <2>1, <2>2 DEF Stages
<1>11. WritersRecoverable' /\ RowsRecoverable'
  BY <1>1 DEF NoKeyLost, WritersRecoverable, RowsRecoverable, Safe, Known
<1> QED BY <1>6, <1>7, <1>8, <1>9, <1>10, <1>11 DEF NoKeyLost

(* A failed activation gives the new key up, with its number.               *)
LEMMA ActivationFailsKeepsKeys ==
  ASSUME NoKeyLost, RotationTypeOK', NEW r \in Rotators, RotateActivationFails(r) PROVE NoKeyLost'
<1>1. /\ UNCHANGED <<files, pointer, rows, phase, cacheKey, cacheVer, wpc, wct, newKey, newVer, buf,
                     keysMade>>
      /\ rotAt[r] \in {"committed", "pointed"} /\ rotAt' = [rotAt EXCEPT ![r] = "failed"]
      /\ stranded' = TRUE
      /\ doomedKeys' = doomedKeys \cup {newKey[r]} /\ doomedVers' = doomedVers \cup {newVer[r]}
  BY DEF RotateActivationFails, InActivation, disk, cache, writing
<1>2. InFlight(r) /\ Stage(r) /\ newVer[r] \in Versions /\ newKey[r] # 0
  BY <1>1 DEF NoKeyLost, Stages, Stage, InFlight
<1>3. rotAt'[r] = "failed" /\ \A q \in Rotators \ {r} : rotAt'[q] = rotAt[q]
  BY <1>1 DEF NoKeyLost, RotationTypeOK
<1>4. \A q \in Rotators : InFlight(q)' <=> InFlight(q)
  BY <1>1, <1>3 DEF InFlight
<1>5. phase = "up" /\ pointer # 0 /\ Doom
  BY <1>1 DEF NoKeyLost, OnlyWhenUp, BeforeFirstKey
<1>6. KeysIssued' /\ CacheBacked'
  BY <1>1 DEF NoKeyLost, KeysIssued, CacheBacked
<1>7. BeforeFirstKey' /\ OnlyWhenUp' /\ PointerResolves'
  BY <1>1, <1>5 DEF NoKeyLost, BeforeFirstKey, OnlyWhenUp, PointerResolves
<1>8. Doom'
  <2>1. \A v \in Versions : v \in doomedVers' => files'[v] = 0 \/ files'[v] \in doomedKeys'
    BY <1>1, <1>2, <1>5 DEF Doom, Stage, Doomed
  <2>2. ASSUME NEW q \in Rotators, InFlight(q)', Doomed(q)' PROVE newKey'[q] \in doomedKeys'
    <3>1. q = r \/ Doomed(q)
      BY <1>1, <1>2, <1>4, <2>2 DEF NoKeyLost, Apart, Doomed
    <3> QED BY <1>1, <1>4, <1>5, <2>2, <3>1 DEF Doom
  <2> QED BY <1>1, <2>1, <2>2 DEF Doom
<1>9. Apart'
  BY <1>1, <1>4 DEF NoKeyLost, Apart, Doomed
<1>10. Stages'
  <2>1. ASSUME NEW q \in Rotators \ {r} PROVE Stage(q)'
    <3>1. NotInUse(q) => NotInUse(q)'
      BY <1>1 DEF NotInUse
    <3> QED BY <1>1, <1>3, <3>1, StageFrame DEF NoKeyLost, Stages, Doomed
  <2>2. Stage(r)'
    BY <1>1, <1>2, <1>3 DEF Stage, InFlight, Doomed
  <2> QED BY <2>1, <2>2 DEF Stages
<1>11. WritersRecoverable' /\ RowsRecoverable'
  BY <1>1 DEF NoKeyLost, WritersRecoverable, RowsRecoverable, Safe, Known
<1> QED BY <1>6, <1>7, <1>8, <1>9, <1>10, <1>11 DEF NoKeyLost

(* The stages at which only the rotation's local variables change.          *)
LEMMA LocalStages ==
  ASSUME NoKeyLost, RotationTypeOK', NEW r \in Rotators, Rotate(r),
         ~RotatePick(r), ~RotateWritePending(r), ~RotateCommit(r), ~RotatePoint(r),
         ~RotateActivate(r), ~RotateActivationFails(r), ~RotateDeleteKeyFile(r)
  PROVE  NoKeyLost'
<1>0. Stage(r) /\ phase = "up" /\ UNCHANGED <<phase, wpc, wct>>
  BY RotateIsUp DEF NoKeyLost, Stages
<1>1. /\ UNCHANGED <<files, pointer, rows, cacheKey, cacheVer, keysMade,
                     stranded, doomedKeys, doomedVers>>
      /\ \A q \in Rotators \ {r} : UNCHANGED <<rotAt[q], newKey[q], newVer[q], buf[q]>>
  <2>1. CASE RotateSetupFails(r)
    BY <2>1, EndRotationEffect DEF NoKeyLost, RotateSetupFails, disk, cache, overtaken
  <2>2. CASE ~RotateSetupFails(r)
    BY <2>2 DEF NoKeyLost, RotationTypeOK, Rotate, RotateBegin, RotateRegister, RotateRead, RotateFails,
       disk, cache, overtaken
  <2> QED BY <2>1, <2>2
<1>2. CASE RotateBegin(r)
  <2>1. rotAt[r] = "idle" /\ rotAt'[r] = "begun" /\ UNCHANGED <<newKey, newVer, buf>>
    BY <1>2 DEF NoKeyLost, RotationTypeOK, RotateBegin
  <2>2. Stage(r)' /\ ~InFlight(r)'
    BY <1>0, <2>1 DEF Stage, InFlight
  <2> QED BY <1>0, <1>1, <2>1, <2>2, LocalStep
<1>3. CASE RotateRegister(r)
  <2>1. rotAt[r] = "written" /\ rotAt'[r] = "reading" /\ UNCHANGED <<newKey, newVer, buf>>
    BY <1>3 DEF NoKeyLost, RotationTypeOK, RotateRegister
  <2>2. InFlight(r) /\ (NotInUse(r) => NotInUse(r)') /\ (Doomed(r) => Doomed(r)')
    BY <1>0, <1>1, <2>1 DEF InFlight, NotInUse, Doomed
  <2>3. \A c \in Columns : buf'[r][c].key \in {0, newKey'[r]}
    BY <1>0, <2>1 DEF Stage, NothingRead, Unread
  <2>4. Stage(r)'
    BY <1>0, <1>1, <2>1, <2>2, <2>3 DEF Stage, InFlight
  <2> QED BY <1>0, <1>1, <2>1, <2>2, <2>4, LocalStep
<1>4. CASE RotateSetupFails(r)
  <2>1. rotAt'[r] = "idle" /\ newKey'[r] = 0 /\ buf'[r] = NothingRead
    BY <1>4, EndRotationEffect DEF NoKeyLost, RotateSetupFails
  <2>2. Stage(r)' /\ ~InFlight(r)'
    BY <2>1 DEF Stage, InFlight
  <2> QED BY <1>0, <1>1, <2>1, <2>2, LocalStep
<1>5. CASE \E c \in Columns : RotateRead(r, c)
  <2>1. PICK c \in Columns : RotateRead(r, c)
    BY <1>5
  <2>2. /\ rotAt[r] = "reading" /\ UNCHANGED <<rotAt, newKey, newVer>>
        /\ buf' = [buf EXCEPT ![r][c] = ReadColumn(r, c)]
    BY <2>1 DEF RotateRead
  <2>3. \A d \in Columns : buf'[r][d] = IF d = c THEN ReadColumn(r, c) ELSE buf[r][d]
    BY <2>2 DEF NoKeyLost, RotationTypeOK
  <2>4. \A d \in Columns : buf'[r][d].key \in {0, newKey'[r]}
    BY <1>0, <2>2, <2>3 DEF Stage, ReadColumn, Empty
  <2>5. InFlight(r) /\ (NotInUse(r) => NotInUse(r)') /\ (Doomed(r) => Doomed(r)')
    BY <1>0, <1>1, <2>2 DEF InFlight, NotInUse, Doomed
  <2>6. Stage(r)'
    BY <1>0, <1>1, <2>2, <2>4, <2>5 DEF Stage, InFlight
  <2> QED BY <1>0, <1>1, <2>2, <2>5, <2>6, LocalStep
<1>6. CASE RotateFails(r)
  <2>1. rotAt[r] = "reading" /\ rotAt'[r] = "failed" /\ UNCHANGED <<newKey, newVer, buf>>
    BY <1>6 DEF NoKeyLost, RotationTypeOK, RotateFails
  <2>2. InFlight(r) /\ (NotInUse(r) => NotInUse(r)') /\ (Doomed(r) => Doomed(r)')
    BY <1>0, <1>1, <2>1 DEF InFlight, NotInUse, Doomed
  <2>3. Stage(r)'
    BY <1>0, <1>1, <2>1, <2>2 DEF Stage, InFlight
  <2> QED BY <1>0, <1>1, <2>1, <2>2, <2>3, LocalStep
<1> QED BY <1>2, <1>3, <1>4, <1>5, <1>6 DEF Rotate

LEMMA NoKeyLostStep == NoKeyLost /\ [RotationNext]_rotationVars => NoKeyLost'
<1> SUFFICES ASSUME NoKeyLost, [RotationNext]_rotationVars PROVE NoKeyLost'
  OBVIOUS
<1>1. RotationTypeOK'
  BY RotationTypeStep DEF NoKeyLost
<1>2. CASE UNCHANGED rotationVars
  BY <1>1, <1>2 DEF rotationVars, disk, cache, rotation, writing, overtaken, NoKeyLost, KeysIssued,
     CacheBacked, BeforeFirstKey, OnlyWhenUp, Doom, Apart, InFlight, Doomed, Stages, Stage, NotInUse,
     WritersRecoverable, RowsRecoverable, PointerResolves, Safe, Known
<1>3. ASSUME NEW r \in Rotators, Rotate(r) PROVE NoKeyLost'
  BY <1>1, <1>3, PickKeepsKeys, WritePendingKeepsKeys, CommitKeepsKeys, PointKeepsKeys,
     ActivateKeepsKeys, ActivationFailsKeepsKeys, DeleteKeepsKeys, LocalStages
<1> QED
  BY <1>1, <1>2, <1>3, BootKeepsKeys, CrashKeepsKeys, WriteKeepsKeys DEF RotationNext

LEMMA NoKeyLostAlways == RotationSpec => []NoKeyLost
  BY NoKeyLostInit, NoKeyLostStep, PTL DEF RotationSpec

(* Whatever the writers store, however many rotations run at once and       *)
(* wherever the process crashes, a committed ciphertext can be opened with  *)
(* a key that is on disk, unless it is under the key of a rotation whose    *)
(* activation failed or that shared its number with another.                *)
THEOREM RotationLosesNoKey == RotationSpec => []RowsRecoverable
<1>1. NoKeyLost => RowsRecoverable
  BY DEF NoKeyLost
<1> QED BY <1>1, NoKeyLostAlways, PTL

(* keys/current names a key file that exists at every instant, so that the  *)
(* next boot finds its key - a crash between any two steps of the first     *)
(* boot or of the rotations included - unless it names the number of such a *)
(* rotation.                                                                *)
THEOREM BootFindsItsKey == RotationSpec => []PointerResolves
<1>1. NoKeyLost => PointerResolves
  BY DEF NoKeyLost
<1> QED BY <1>1, NoKeyLostAlways, PTL

-----------------------------------------------------------------------------
(* One key, the same secrets, and a process that can read them.  The        *)
(* inductive invariant says which key opens the database at each stage of a *)
(* rotation, what a rotation has read, and what a writer holds.             *)

(* The key k opens every column whose last commit did not straddle.         *)
Opens(k) == \A c \in Columns \ straddled : rows[c].key \in {0, k}

(* No rotation is between its commit and its activation.                    *)
Quiet == \A r \in Rotators : ~InActivation(r)

(* What a rotation has read is the secret of the row under the new key, or  *)
(* nothing for an empty column, unless the column was committed since.      *)
Copies(r) ==
    rotAt[r] = "reading" =>
        \A c \in Columns \ late[r] : buf[r][c] # Unread =>
            IF rows[c].key = 0 THEN buf[r][c].key = 0
            ELSE buf[r][c] = [key |-> newKey[r], val |-> rows[c].val]

(* A writer that no re-encryption has overtaken holds the database's key.   *)
WriterFresh(w) ==
    wpc[w] = "encrypted" /\ ~wlate[w] => Quiet /\ wct[w].key = cacheKey /\ Opens(cacheKey)

Readable ==
    /\ \A q, r \in Rotators : InActivation(q) /\ InActivation(r) => q = r
    /\ phase = "up" /\ (\A r \in Rotators : rotAt[r] # "pointed") => pointer = cacheVer
    /\ \A r \in Rotators : rotAt[r] = "pointed" => pointer = newVer[r]
    /\ phase = "up" /\ Quiet => Opens(cacheKey)
    /\ \A r \in Rotators : InActivation(r) => Opens(newKey[r])
    /\ phase \in {"down", "refused"} /\ pointer # 0 => Opens(files[pointer])

Coherent ==
    /\ SingleKey
    /\ \A r \in Rotators : Copies(r)
    /\ \A w \in Writers : WriterFresh(w)
    /\ ~stranded => Readable

LEMMA CoherentInit == RotationInit => Coherent
<1> SUFFICES ASSUME RotationInit PROVE Coherent
  OBVIOUS
<1>1. SingleKey
  BY DEF RotationInit, SingleKey, Empty, EnvKey
<1>2. (\A r \in Rotators : Copies(r)) /\ \A w \in Writers : WriterFresh(w)
  BY DEF RotationInit, Copies, WriterFresh
<1>3. Readable
  BY DEF RotationInit, Readable, InActivation
<1> QED BY <1>1, <1>2, <1>3 DEF Coherent

(* The boot takes the key that keys/current names.                          *)
LEMMA BootReads ==
  ASSUME NoKeyLost, NoKeyLost', Coherent, Boot PROVE Coherent'
<1>1. /\ phase # "up"
      /\ UNCHANGED <<rows, rotAt, newKey, newVer, buf, late, wpc, wct, wlate, stranded, straddled>>
  BY DEF Boot, BootLoad, BootRefuse, BootWriteKey, BootWritePointer, disk, rotation, writing, overtaken
<1>2. /\ \A r \in Rotators : rotAt[r] = "idle"
      /\ \A w \in Writers : wpc[w] = "idle"
  BY <1>1 DEF NoKeyLost, OnlyWhenUp
<1>3. SingleKey' /\ (\A r \in Rotators : Copies(r)') /\ \A w \in Writers : WriterFresh(w)'
  BY <1>1, <1>2 DEF Coherent, SingleKey, Copies, WriterFresh
<1>4. \A r \in Rotators : ~InActivation(r)' /\ rotAt'[r] # "pointed"
  BY <1>1, <1>2 DEF InActivation
<1>5. ASSUME ~stranded', Readable,
             phase' = "up" => pointer' = cacheVer' /\ Opens(cacheKey)',
             phase' \in {"down", "refused"} /\ pointer' # 0 => Opens(files[pointer])'
      PROVE  Coherent'
  BY <1>3, <1>4, <1>5 DEF Coherent, Readable
<1>6. CASE stranded'
  BY <1>3, <1>6 DEF Coherent
<1>7. CASE ~stranded' /\ BootLoad
  <2>1. phase = "down" /\ pointer # 0 /\ UNCHANGED <<files, pointer>>
        /\ cacheKey' = files[pointer] /\ cacheVer' = pointer /\ phase' = "up" /\ Readable
    BY <1>1, <1>7 DEF BootLoad, Coherent
  <2>2. Opens(cacheKey)'
    BY <1>1, <2>1 DEF Readable, Opens
  <2> QED BY <1>5, <1>7, <2>1, <2>2
<1>8. CASE ~stranded' /\ BootRefuse
  <2>1. phase = "down" /\ UNCHANGED <<files, pointer>> /\ phase' = "refused" /\ Readable
    BY <1>1, <1>8 DEF BootRefuse, Coherent, disk
  <2>2. pointer # 0 => Opens(files[pointer])'
    BY <1>1, <2>1 DEF Readable, Opens
  <2> QED BY <1>5, <1>8, <2>1, <2>2
<1>9. CASE ~stranded' /\ BootWriteKey
  <2>1. phase' = "seeding" /\ Readable
    BY <1>1, <1>9 DEF BootWriteKey, Coherent
  <2> QED BY <1>5, <1>9, <2>1
<1>10. CASE ~stranded' /\ BootWritePointer
  <2>1. /\ phase = "seeding" /\ phase' = "up" /\ pointer' = 1 /\ cacheVer' = 1
        /\ cacheKey' = files[1] /\ Readable
    BY <1>1, <1>10 DEF BootWritePointer, Coherent
  <2>2. /\ \A c \in Columns : rows[c].key # 0 => EnvKeyPresent /\ rows[c].key = EnvKey
        /\ EnvKeyPresent => files[1] = EnvKey
    BY <2>1 DEF NoKeyLost, BeforeFirstKey
  <2>3. Opens(cacheKey)'
    BY <1>1, <2>1, <2>2 DEF Opens
  <2> QED BY <1>5, <1>10, <2>1, <2>3
<1> QED BY <1>6, <1>7, <1>8, <1>9, <1>10 DEF Boot

(* A crash leaves a database that the key of keys/current opens, unless a   *)
(* rotation had been committed and not yet pointed to.                      *)
LEMMA CrashReads ==
  ASSUME NoKeyLost, Coherent, ProcessCrash PROVE Coherent'
<1>1. /\ UNCHANGED <<files, pointer, rows, straddled>> /\ phase' = "down"
      /\ \A r \in Rotators : rotAt'[r] = "idle"
      /\ \A w \in Writers : wpc'[w] = "idle"
      /\ ~stranded' => ~stranded /\ \A r \in Rotators : rotAt[r] # "committed"
      /\ phase \in {"up", "seeding"}
  BY DEF ProcessCrash, disk
<1>2. SingleKey' /\ (\A r \in Rotators : Copies(r)') /\ \A w \in Writers : WriterFresh(w)'
  BY <1>1 DEF Coherent, SingleKey, Copies, WriterFresh
<1>3. ASSUME ~stranded', pointer # 0 PROVE Opens(files[pointer])
  <2>1. phase = "up" /\ Readable /\ \A r \in Rotators : rotAt[r] # "committed"
    BY <1>1, <1>3 DEF NoKeyLost, BeforeFirstKey, Coherent
  <2>2. doomedVers = {}
    BY <1>1, <1>3 DEF NoKeyLost, Doom
  <2>3. CASE \E r \in Rotators : rotAt[r] = "pointed"
    <3>1. PICK r \in Rotators : rotAt[r] = "pointed"
      BY <2>3
    <3>2. pointer = newVer[r] /\ Opens(newKey[r])
      BY <2>1, <3>1 DEF Readable, InActivation
    <3>3. files[newVer[r]] = newKey[r]
      BY <2>2, <3>1 DEF NoKeyLost, Stages, Stage, Doomed
    <3> QED BY <3>2, <3>3
  <2>4. CASE \A r \in Rotators : rotAt[r] # "pointed"
    <3>1. pointer = cacheVer /\ Opens(cacheKey)
      BY <2>1, <2>4 DEF Readable, Quiet, InActivation
    <3>2. files[cacheVer] = cacheKey
      BY <2>1, <2>2 DEF NoKeyLost, CacheBacked
    <3> QED BY <3>1, <3>2
  <2> QED BY <2>3, <2>4
<1>4. ~stranded' => Readable'
  BY <1>1, <1>3 DEF Readable, InActivation, Opens
<1> QED BY <1>2, <1>4 DEF Coherent

(* A secret is stored under the key that opens the database, or its column  *)
(* is marked.                                                               *)
LEMMA WriteReads ==
  ASSUME NoKeyLost, Coherent, NEW w \in Writers, Write(w) PROVE Coherent'
<1>1. CASE \E c \in Columns : WriterEncrypt(w, c)
  <2>1. PICK c \in Columns : WriterEncrypt(w, c)
    BY <1>1
  <2>2. /\ UNCHANGED <<files, pointer, rows, phase, cacheKey, cacheVer, rotAt, newKey, newVer, buf, late,
                       stranded, straddled>>
        /\ phase = "up"
        /\ wct'[w].key = cacheKey
        /\ \A x \in Writers \ {w} : UNCHANGED <<wpc[x], wct[x], wlate[x]>>
    BY <2>1 DEF NoKeyLost, RotationTypeOK, WriterEncrypt, disk, cache, rotation, overtaken
  <2>3. ~wlate'[w] => ~stranded /\ Quiet
    BY <2>1, Zenon DEF NoKeyLost, RotationTypeOK, WriterEncrypt, Quiet
  <2>4. Quiet' <=> Quiet
    BY <2>2 DEF Quiet, InActivation
  <2>5. \A k : Opens(k)' <=> Opens(k)
    BY <2>2 DEF Opens
  <2>6. WriterFresh(w)'
    <3>1. ~wlate'[w] => Quiet /\ Opens(cacheKey)
      BY <2>2, <2>3 DEF Coherent, Readable
    <3> QED BY <2>2, <2>4, <2>5, <3>1 DEF WriterFresh
  <2>7. \A x \in Writers \ {w} : WriterFresh(x)'
    BY <2>2, <2>4, <2>5 DEF Coherent, WriterFresh
  <2>8. SingleKey' /\ \A r \in Rotators : Copies(r)'
    BY <2>2 DEF Coherent, SingleKey, Copies
  <2>9. ~stranded' => Readable'
    BY <2>2, <2>4, <2>5 DEF Coherent, Readable, InActivation
  <2> QED BY <2>6, <2>7, <2>8, <2>9 DEF Coherent
<1>2. CASE WriterCommit(w)
  <2>1. /\ UNCHANGED <<files, pointer, phase, cacheKey, cacheVer, rotAt, newKey, newVer, buf, wlate,
                       stranded>>
        /\ wpc[w] = "encrypted" /\ wpc'[w] = "idle"
        /\ \A x \in Writers \ {w} : UNCHANGED <<wpc[x], wct[x]>>
        /\ rows'[wcol[w]] = wct[w] /\ wcol[w] \in Columns
        /\ \A c \in Columns \ {wcol[w]} : rows'[c] = rows[c]
    BY <1>2 DEF NoKeyLost, RotationTypeOK, WriterCommit, cache
  <2>2. /\ wlate[w] => straddled' = straddled \cup {wcol[w]}
        /\ ~wlate[w] => straddled' = straddled \ {wcol[w]}
        /\ \A q \in Rotators : LateFor(q, wcol[w]) => late'[q] = late[q] \cup {wcol[w]}
        /\ \A q \in Rotators : ~LateFor(q, wcol[w]) => late'[q] = late[q]
    BY <1>2 DEF WriterCommit
  <2>3. phase = "up"
    BY <2>1 DEF NoKeyLost, OnlyWhenUp
  <2>4. ~wlate[w] => Quiet /\ wct[w].key = cacheKey /\ Opens(cacheKey)
    BY <2>1 DEF Coherent, WriterFresh
  <2>5. Quiet' <=> Quiet
    BY <2>1 DEF Quiet, InActivation
  <2>6. \A k : Opens(k) /\ (wlate[w] \/ k = cacheKey) => Opens(k)'
    BY <2>1, <2>2, <2>4 DEF Opens
  <2>7. SingleKey'
    <3>1. CASE wlate[w]
      BY <2>1, <2>2, <3>1 DEF Coherent, SingleKey
    <3>2. CASE ~wlate[w]
      <4>1. Opens(cacheKey)'
        BY <2>1, <2>4, <2>6, <3>2
      <4>2. \A c \in Columns \ straddled' : rows'[c].key = 0 \/ rows'[c].key = cacheKey'
        BY <4>1 DEF Opens
      <4> QED BY <4>2 DEF SingleKey
    <3> QED BY <3>1, <3>2
  <2>8. ASSUME NEW q \in Rotators PROVE Copies(q)'
    BY <2>1, <2>2 DEF Coherent, Copies, LateFor
  <2>9. ASSUME NEW x \in Writers PROVE WriterFresh(x)'
    BY <2>1, <2>5, <2>6 DEF Coherent, WriterFresh
  <2>10. ~stranded' => Readable'
    <3>1. \A r \in Rotators : InActivation(r)' <=> InActivation(r)
      BY <2>1 DEF InActivation
    <3>2. \A r \in Rotators : InActivation(r) => wlate[w]
      BY <2>4 DEF Quiet
    <3> QED BY <2>1, <2>3, <2>5, <2>6, <3>1, <3>2 DEF Coherent, Readable
  <2> QED BY <2>7, <2>8, <2>9, <2>10 DEF Coherent
<1> QED BY <1>1, <1>2 DEF Write

(* A rotation that has read every column replaces each secret that nobody   *)
(* committed since by itself, under its own key.                            *)
LEMMA CommitReplacesAll ==
  ASSUME NoKeyLost, Coherent, NEW r \in Rotators, RotateCommit(r), NEW c \in Columns
  PROVE  /\ c \notin straddled' => rows'[c].key \in {0, newKey[r]}
         /\ c \notin late[r] => rows'[c].val = rows[c].val
<1>1. /\ rotAt[r] = "reading" /\ buf[r][c] # Unread /\ rows'[c] = Flushed(r, c)
      /\ straddled' = {d \in straddled \cup late[r] : buf[r][d].key = 0}
  BY DEF RotateCommit
<1>2. Copies(r) /\ buf[r][c].key \in {0, newKey[r]} /\ newKey[r] # 0
  BY <1>1 DEF Coherent, NoKeyLost, Stages, Stage, InFlight
<1>3. CASE buf[r][c].key # 0
  <2>1. rows'[c] = buf[r][c] /\ rows'[c].key = newKey[r]
    BY <1>1, <1>2, <1>3 DEF Flushed
  <2>2. c \notin late[r] => buf[r][c].val = rows[c].val
    <3>1. c \notin late[r] => buf[r][c] = [key |-> newKey[r], val |-> rows[c].val]
      BY <1>1, <1>2, <1>3 DEF Copies
    <3> QED BY <3>1
  <2> QED BY <2>1, <2>2
<1>4. CASE buf[r][c].key = 0
  <2>1. rows'[c] = rows[c]
    BY <1>1, <1>4 DEF Flushed
  <2>2. c \notin late[r] => rows[c].key = 0
    <3>1. c \notin late[r] /\ rows[c].key # 0
            => buf[r][c] = [key |-> newKey[r], val |-> rows[c].val]
      BY <1>1, <1>2 DEF Copies
    <3>2. c \notin late[r] /\ rows[c].key # 0 => buf[r][c].key = newKey[r]
      BY <3>1
    <3> QED BY <1>2, <1>4, <3>2
  <2>3. c \notin straddled' => c \notin late[r]
    BY <1>1, <1>4
  <2> QED BY <2>1, <2>2, <2>3
<1> QED BY <1>3, <1>4

LEMMA CommitReads ==
  ASSUME NoKeyLost, Coherent, NEW r \in Rotators, RotateCommit(r) PROVE Coherent'
<1>1. /\ UNCHANGED <<files, pointer, phase, cacheKey, cacheVer, newKey, newVer, buf, wpc, wct>>
      /\ rotAt[r] = "reading" /\ rotAt' = [rotAt EXCEPT ![r] = "committed"]
      /\ late' = [q \in Rotators |->
                    IF q = r THEN late[q] ELSE late[q] \cup {c \in Columns : LateFor(q, c)}]
  BY DEF RotateCommit, cache
<1>2. rotAt'[r] = "committed" /\ \A q \in Rotators \ {r} : rotAt'[q] = rotAt[q]
  BY <1>1 DEF NoKeyLost, RotationTypeOK
<1>3. /\ \A w \in Writers : wpc[w] = "encrypted" => wlate'[w]
      /\ ~stranded' => ~stranded /\ \A q \in Rotators \ {r} : ~InActivation(q)
  BY Zenon DEF RotateCommit
<1>4. Opens(newKey[r])'
  BY <1>1, CommitReplacesAll DEF Opens
<1>5. SingleKey'
  BY <1>4 DEF Opens, SingleKey
<1>6. ASSUME NEW q \in Rotators PROVE Copies(q)'
  BY <1>1, <1>2 DEF Copies, LateFor
<1>7. ASSUME NEW w \in Writers PROVE WriterFresh(w)'
  BY <1>1, <1>3 DEF WriterFresh
<1>8. ASSUME ~stranded' PROVE Readable'
  <2>1. phase = "up" /\ Readable
    BY <1>1, <1>3, <1>8 DEF NoKeyLost, OnlyWhenUp, Coherent
  <2>2. \A q \in Rotators : InActivation(q)' <=> q = r
    BY <1>2, <1>3, <1>8 DEF InActivation
  <2>3. \A q \in Rotators : rotAt[q] # "pointed" /\ rotAt'[q] # "pointed"
    BY <1>1, <1>2, <1>3, <1>8 DEF InActivation
  <2> QED BY <1>1, <1>4, <2>1, <2>2, <2>3 DEF Readable, Quiet
<1> QED BY <1>5, <1>6, <1>7, <1>8 DEF Coherent

LEMMA PointReads ==
  ASSUME NoKeyLost, Coherent, NEW r \in Rotators, RotatePoint(r) PROVE Coherent'
<1>1. /\ UNCHANGED <<files, rows, phase, cacheKey, cacheVer, newKey, newVer, buf, late, wpc, wct, wlate,
                     stranded, straddled>>
      /\ rotAt[r] = "committed" /\ rotAt' = [rotAt EXCEPT ![r] = "pointed"] /\ pointer' = newVer[r]
  BY DEF RotatePoint, cache, writing, overtaken
<1>2. rotAt'[r] = "pointed" /\ \A q \in Rotators \ {r} : rotAt'[q] = rotAt[q]
  BY <1>1 DEF NoKeyLost, RotationTypeOK
<1>3. \A q \in Rotators : InActivation(q)' <=> InActivation(q)
  BY <1>1, <1>2 DEF InActivation
<1>4. InActivation(r) /\ phase = "up"
  BY <1>1 DEF InActivation, NoKeyLost, OnlyWhenUp
<1>5. SingleKey' /\ (\A q \in Rotators : Copies(q)') /\ \A w \in Writers : WriterFresh(w)'
  BY <1>1, <1>2, <1>3 DEF Coherent, SingleKey, Copies, WriterFresh, Quiet, Opens
<1>6. ASSUME ~stranded' PROVE Readable'
  <2>1. Readable /\ \A q \in Rotators \ {r} : ~InActivation(q)
    BY <1>1, <1>4, <1>6 DEF Coherent, Readable
  <2>2. \A q \in Rotators : rotAt'[q] = "pointed" => q = r
    BY <1>3, <2>1 DEF InActivation
  <2>3. \A k : Opens(k)' <=> Opens(k)
    BY <1>1 DEF Opens
  <2> QED BY <1>1, <1>2, <1>3, <1>4, <2>1, <2>2, <2>3 DEF Readable, Quiet
<1> QED BY <1>5, <1>6 DEF Coherent

LEMMA ActivateReads ==
  ASSUME NoKeyLost, Coherent, NEW r \in Rotators, RotateActivate(r) PROVE Coherent'
<1>1. /\ UNCHANGED <<files, pointer, rows, phase, wpc, wct, wlate, stranded, straddled>>
      /\ rotAt[r] = "pointed" /\ cacheKey' = newKey[r] /\ cacheVer' = newVer[r]
  BY DEF RotateActivate, writing, overtaken
<1>2. /\ rotAt'[r] = "idle"
      /\ \A q \in Rotators \ {r} : UNCHANGED <<rotAt[q], newKey[q], newVer[q], buf[q], late[q]>>
  BY EndRotationEffect DEF NoKeyLost, RotateActivate
<1>3. InActivation(r) /\ phase = "up" /\ ~Quiet
  BY <1>1 DEF InActivation, NoKeyLost, OnlyWhenUp, Quiet
<1>4. SingleKey' /\ \A w \in Writers : WriterFresh(w)'
  BY <1>1, <1>3 DEF Coherent, SingleKey, WriterFresh
<1>5. ASSUME NEW q \in Rotators PROVE Copies(q)'
  BY <1>1, <1>2 DEF Coherent, Copies
<1>6. ASSUME ~stranded' PROVE Readable'
  <2>1. /\ Readable /\ pointer = newVer[r] /\ Opens(newKey[r])
        /\ \A q \in Rotators \ {r} : ~InActivation(q)
    BY <1>1, <1>3, <1>6 DEF Coherent, Readable
  <2>2. \A q \in Rotators : ~InActivation(q)' /\ rotAt'[q] # "pointed"
    BY <1>2, <2>1 DEF InActivation
  <2>3. Opens(cacheKey)'
    BY <1>1, <2>1 DEF Opens
  <2> QED BY <1>1, <1>3, <2>1, <2>2, <2>3 DEF Readable
<1> QED BY <1>4, <1>5, <1>6 DEF Coherent

(* The other stages leave the rows, the pointer and the cache alone.        *)
LEMMA OtherStagesRead ==
  ASSUME NoKeyLost, Coherent, NEW r \in Rotators, Rotate(r),
         ~RotateCommit(r), ~RotatePoint(r), ~RotateActivate(r)
  PROVE  Coherent'
<1>1. phase = "up" /\ UNCHANGED <<phase, wpc, wct>>
  BY RotateIsUp
<1>2. /\ UNCHANGED <<rows, pointer, cacheKey, cacheVer, wlate, straddled>>
      /\ rotAt'[r] \notin {"committed", "pointed"}
      /\ \A q \in Rotators \ {r} : UNCHANGED <<rotAt[q], newKey[q], newVer[q], buf[q], late[q]>>
  <2>1. CASE RotateSetupFails(r) \/ RotateDeleteKeyFile(r)
    <3>1. EndRotation(r) /\ UNCHANGED <<rows, pointer, cacheKey, cacheVer, wlate, straddled>>
      BY <2>1 DEF RotateSetupFails, RotateDeleteKeyFile, disk, cache, writing, overtaken
    <3> QED BY <3>1, EndRotationEffect DEF NoKeyLost
  <2>2. CASE RotatePick(r)
    <3>1. PICK v \in Versions : newVer' = [newVer EXCEPT ![r] = v]
      BY <2>2 DEF RotatePick
    <3> QED BY <2>2, <3>1 DEF NoKeyLost, RotationTypeOK, RotatePick, disk, cache, writing
  <2>3. CASE ~RotateSetupFails(r) /\ ~RotateDeleteKeyFile(r) /\ ~RotatePick(r)
    BY <2>3 DEF NoKeyLost, RotationTypeOK, Rotate, RotateBegin, RotateWritePending, RotateRegister,
       RotateRead, RotateFails, RotateActivationFails, disk, cache, writing, overtaken
  <2> QED BY <2>1, <2>2, <2>3
<1>3. stranded => stranded'
  <2>1. CASE RotatePick(r)
    <3>1. PICK v \in Versions : SharedNumber(r, v)
      BY <2>1 DEF RotatePick
    <3> QED BY <3>1, SharedNumberEffect
  <2>2. CASE ~RotatePick(r)
    BY <2>2 DEF Rotate, RotateBegin, RotateWritePending, RotateRegister, RotateSetupFails,
       RotateRead, RotateFails, RotateActivationFails, RotateDeleteKeyFile, overtaken
  <2> QED BY <2>1, <2>2
<1>4. \A q \in Rotators : InActivation(q)' => InActivation(q) /\ q # r
  BY <1>2 DEF InActivation
<1>5. InActivation(r) => stranded'
  BY DEF InActivation, Rotate, RotateBegin, RotatePick, RotateWritePending, RotateRegister,
     RotateSetupFails, RotateRead, RotateFails, RotateActivationFails, RotateDeleteKeyFile
<1>6. SingleKey' /\ \A w \in Writers : WriterFresh(w)'
  BY <1>1, <1>2, <1>4 DEF Coherent, SingleKey, WriterFresh, Quiet, Opens
<1>7. ASSUME NEW q \in Rotators PROVE Copies(q)'
  <2>1. CASE q # r
    BY <1>2, <2>1 DEF Coherent, Copies
  <2>2. CASE q = r /\ RotateRegister(r)
    <3>1. buf'[r] = NothingRead
      BY <2>2 DEF RotateRegister, NoKeyLost, Stages, Stage
    <3> QED BY <2>2, <3>1 DEF Copies, NothingRead
  <2>3. CASE q = r /\ \E c \in Columns : RotateRead(r, c)
    <3>1. PICK c \in Columns : RotateRead(r, c)
      BY <2>3
    <3>2. /\ rotAt[r] = "reading" /\ UNCHANGED <<rotAt, newKey, late>>
          /\ buf' = [buf EXCEPT ![r][c] = ReadColumn(r, c)]
      BY <3>1 DEF RotateRead
    <3>3. \A d \in Columns : buf'[r][d] = IF d = c THEN ReadColumn(r, c) ELSE buf[r][d]
      BY <3>2 DEF NoKeyLost, RotationTypeOK
    <3>4. Copies(r)
      BY DEF Coherent
    <3> QED BY <1>2, <2>3, <3>2, <3>3, <3>4 DEF Copies, ReadColumn, Empty
  <2>4. CASE q = r /\ ~RotateRegister(r) /\ ~\E c \in Columns : RotateRead(r, c)
    <3>1. rotAt'[r] # "reading"
      <4>1. CASE RotateSetupFails(r) \/ RotateDeleteKeyFile(r)
        BY <4>1, EndRotationEffect DEF NoKeyLost, RotateSetupFails, RotateDeleteKeyFile
      <4>2. CASE ~RotateSetupFails(r) /\ ~RotateDeleteKeyFile(r)
        BY <2>4, <4>2 DEF NoKeyLost, RotationTypeOK, Rotate, RotateBegin, RotatePick,
           RotateWritePending, RotateFails, RotateActivationFails
      <4> QED BY <4>1, <4>2
    <3> QED BY <2>4, <3>1 DEF Copies
  <2> QED BY <2>1, <2>2, <2>3, <2>4
<1>8. ASSUME ~stranded' PROVE Readable'
  <2>1. Readable /\ ~InActivation(r)
    BY <1>3, <1>5, <1>8 DEF Coherent
  <2>2. \A q \in Rotators : InActivation(q)' <=> InActivation(q)
    BY <1>2, <2>1 DEF InActivation
  <2>3. \A q \in Rotators : (rotAt'[q] = "pointed") <=> (rotAt[q] = "pointed")
    BY <1>2, <2>1 DEF InActivation
  <2>4. \A q \in Rotators : InActivation(q) => UNCHANGED <<newKey[q], newVer[q]>>
    BY <1>2, <2>1
  <2>5. (\A k : Opens(k)' <=> Opens(k)) /\ (Quiet' <=> Quiet)
    BY <1>2, <2>2 DEF Opens, Quiet
  <2>6. \A q \in Rotators : rotAt[q] = "pointed" => InActivation(q)
    BY DEF InActivation
  <2> QED BY <1>1, <1>2, <2>1, <2>2, <2>3, <2>4, <2>5, <2>6 DEF Readable
<1> QED BY <1>6, <1>7, <1>8 DEF Coherent

LEMMA CoherentStep ==
  NoKeyLost /\ NoKeyLost' /\ Coherent /\ [RotationNext]_rotationVars => Coherent'
<1> SUFFICES ASSUME NoKeyLost, NoKeyLost', Coherent, [RotationNext]_rotationVars PROVE Coherent'
  OBVIOUS
<1>1. CASE UNCHANGED rotationVars
  BY <1>1 DEF rotationVars, disk, cache, rotation, writing, overtaken, Coherent, SingleKey, Copies,
     WriterFresh, Readable, Quiet, Opens, InActivation
<1>2. ASSUME NEW r \in Rotators, Rotate(r) PROVE Coherent'
  BY <1>2, CommitReads, PointReads, ActivateReads, OtherStagesRead
<1> QED BY <1>1, <1>2, BootReads, CrashReads, WriteReads DEF RotationNext

LEMMA CoherentAlways == RotationSpec => [](NoKeyLost /\ Coherent)
<1>1. NoKeyLost /\ Coherent /\ [RotationNext]_rotationVars => (NoKeyLost /\ Coherent)'
  BY NoKeyLostStep, CoherentStep
<1> QED BY <1>1, NoKeyLostInit, CoherentInit, PTL DEF RotationSpec

(* No administrator sees a database under two keys: any number of rotations *)
(* at once, crashes at any step, failing commits and failing activations    *)
(* included.  Only a secret whose commit straddled a re-encryption may be   *)
(* under another key.                                                       *)
THEOREM OneKeyAtATime == RotationSpec => []SingleKey
<1>1. Coherent => SingleKey
  BY DEF Coherent
<1> QED BY <1>1, CoherentAlways, PTL

(* "Re-encrypt all Fernet columns with new_key" (rotate_fernet_key) changes *)
(* the keys and never the secrets, but for a secret that another thread     *)
(* commits between the read of its column and the rotation's commit.        *)
THEOREM SecretsOutliveRotation == RotationSpec => RotationPreservesSecrets
<1> DEFINE Kept == \A r \in Rotators : RotateCommit(r) =>
                      \A c \in Columns \ late[r] : rows'[c].val = rows[c].val
<1>1. NoKeyLost /\ Coherent => [Kept]_rotationVars
  BY CommitReplacesAll
<1> QED BY <1>1, CoherentAlways, PTL DEF RotationSpec, RotationPreservesSecrets

(* While it serves and does not rotate, the process reads every such secret *)
(* with its cached key until a rotation is cut in its activation or meets   *)
(* another one there: writers, failed re-encryptions, crashes and the boots *)
(* that follow them included.                                               *)
THEOREM ServedIsReadable == RotationSpec => []AtRestReadable
<1>1. Coherent => AtRestReadable
  BY DEF Coherent, Readable, Quiet, InActivation, Opens, AtRestReadable
<1> QED BY <1>1, CoherentAlways, PTL
=============================================================================
