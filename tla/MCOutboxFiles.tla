----------------------------- MODULE MCOutboxFiles -----------------------------
(* Small instances of SiemOutbox, KeyRotation, FileCatalogue and FileAccess, *)
(* which share no state: one of them runs in each behaviour, so that their   *)
(* state spaces add up.                                                      *)
EXTENDS SiemOutbox, KeyRotation, FileCatalogue, FileAccess, TLC

VARIABLE component

outboxFilesVars == <<vars, rotationVars, fileVars, accessVars, component>>

(* A component that does not run has one initial state, and a thread that   *)
(* has written nothing yet names one column.                                *)
OutboxFilesInit ==
    /\ component \in {"outbox", "vault", "files", "access"}
    /\ Init /\ RotationInit /\ FilesInit /\ FileAccessInit
    /\ component # "outbox" => enabled
    /\ component # "vault" => \A c \in Columns : rows[c] = Empty
    /\ \A w \in Writers : wcol[w] = CHOOSE c \in Columns : TRUE
    /\ component # "access" => member

OutboxFilesNext ==
    \/ /\ component = "outbox" /\ Next
       /\ UNCHANGED <<rotationVars, fileVars, accessVars, component>>
    \/ /\ component = "vault" /\ RotationNext
       /\ UNCHANGED <<vars, fileVars, accessVars, component>>
    \/ /\ component = "files" /\ FilesNext
       /\ UNCHANGED <<vars, rotationVars, accessVars, component>>
    \/ /\ component = "access" /\ FileAccessNext
       /\ UNCHANGED <<vars, rotationVars, fileVars, component>>

OutboxFilesSpec == OutboxFilesInit /\ [][OutboxFilesNext]_outboxFilesVars

(* The variables of the component that runs have their types; the others    *)
(* keep their initial values.                                               *)
OutboxFilesTypeOK ==
    /\ component = "outbox" => TypeOK
    /\ component = "vault" => RotationTypeOK
    /\ component = "files" => FilesTypeOK
    /\ component = "access" => FileAccessTypeOK

(* Threads, events and folders are interchangeable.  The configuration      *)
(* names both kinds of threads alike, and events like folders, so that they *)
(* share their permutations.                                                *)
OutboxFilesSymmetry == Permutations(Enqueuers) \cup Permutations(Events)
=============================================================================
