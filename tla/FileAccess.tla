------------------------------ MODULE FileAccess ------------------------------
(***************************************************************************)
(* What a user sees of the file catalogue (app/files/service.py): a grant   *)
(* on a folder counts for everything below it, and a folder is shown when   *)
(* the user may view it or something below it.  One user in one group, who  *)
(* is not a portal administrator: administrators may manage everything.     *)
(***************************************************************************)
EXTENDS Naturals, FiniteSetsExt

CONSTANTS
    Folders, Documents,
    Top,        \* the parent of the folders at the top
    MaxLevels   \* bound on the grants in force

NotYet == "not yet"   \* the parent of a folder, the folder of a file, not made yet

ASSUME FileAccessAssumption ==
    /\ IsFiniteSet(Folders) /\ Top \notin Folders /\ Folders \cap Documents = {}
    /\ NotYet \notin Folders \cup {Top}
    /\ MaxLevels \in Nat

VARIABLES
    parent,   \* file_folders: parent_folder_id
    shelf,    \* file_resources: folder_id
    shown,    \* file_resources: is_active
    member,   \* the user's token names the group
    level     \* access_grants: rank of each subject's grant on each target

accessVars == <<parent, shelf, shown, member, level>>

Subjects == {"user", "group"}
Shared == Folders \cup Documents
Ranks == 0..3          \* ACCESS_LEVEL_RANK: none, view, launch, manage

FileAccessTypeOK ==
    /\ parent \in [Folders -> Folders \cup {Top, NotYet}]
    /\ shelf \in [Documents -> Folders \cup {Top, NotYet}]
    /\ shown \in [Documents -> BOOLEAN]
    /\ member \in BOOLEAN
    /\ level \in [Subjects -> [Shared -> Ranks]]

FileAccessInit ==
    /\ parent = [d \in Folders |-> NotYet]
    /\ shelf = [f \in Documents |-> NotYet]
    /\ shown = [f \in Documents |-> TRUE]
    /\ member \in BOOLEAN
    /\ level = [s \in Subjects |-> [x \in Shared |-> 0]]

There(d) == d \in {Top} \cup {e \in Folders : parent[e] # NotYet}

-----------------------------------------------------------------------------
(* Access.                                                                  *)

(* The folder, its parent, and so on to the top.                            *)
folder_ancestor_ids(d) ==
    LET anc[n \in 0..Cardinality(Folders)] ==
            IF n = 0 THEN {d} \ {Top}
            ELSE anc[n - 1] \cup ({parent[e] : e \in anc[n - 1]} \ {Top})
    IN anc[Cardinality(Folders)]

(* The grants on any of the targets, of the user and of the group.          *)
Who == {"user"} \cup (IF member THEN {"group"} ELSE {})
collect_grants(xs) == {level[s][x] : s \in Who, x \in xs}

access_on_folder(d) == Max({0} \cup collect_grants(folder_ancestor_ids(d)))
access_on_file(f) == Max({0} \cup collect_grants({f} \cup folder_ancestor_ids(shelf[f])))
CanView(rank) == rank >= 1

FilesIn(d) == {f \in Documents : shelf[f] = d /\ shown[f]}
FoldersIn(d) == {e \in Folders : parent[e] = d}

(* Mutant: one level is searched.                                           *)
has_visible_child(d) ==
    \/ \E e \in FoldersIn(d) : CanView(access_on_folder(e))
    \/ \E f \in FilesIn(d) : CanView(access_on_file(f))

folder_has_visible_descendant(d) ==
    LET visible[e \in Folders] ==
            \/ \E c \in FoldersIn(e) : CanView(access_on_folder(c)) \/ visible[c]
            \/ \E f \in FilesIn(e) : CanView(access_on_file(f))
    IN visible[d]

(* list_folder_contents: what the user is shown in a folder.                *)
ListedFolders(d) ==
    {e \in FoldersIn(d) : CanView(access_on_folder(e)) \/ folder_has_visible_descendant(e)}
ListedFiles(d) == {f \in FilesIn(d) : CanView(access_on_file(f))}

-----------------------------------------------------------------------------
(* What changes it.  Folders are neither moved nor deleted.                 *)

create_folder(d, p) ==
    /\ parent[d] = NotYet /\ There(p)
    /\ parent' = [parent EXCEPT ![d] = p]
    /\ UNCHANGED <<shelf, shown, member, level>>

PutFile(f, d) ==
    /\ shelf[f] = NotYet /\ There(d)
    /\ shelf' = [shelf EXCEPT ![f] = d]
    /\ UNCHANGED <<parent, shown, member, level>>

ShowOrArchive(f, active) ==
    /\ shelf[f] # NotYet
    /\ shown' = [shown EXCEPT ![f] = active]
    /\ UNCHANGED <<parent, shelf, member, level>>

Granted == {g \in Subjects \X Shared : level[g[1]][g[2]] # 0}
(* create_grant raises a grant that is there and never lowers it; it does   *)
(* not ask whether the folder or file exists.                               *)
GrantGiven(s, x, rank) ==
    /\ rank > level[s][x]
    /\ Cardinality(Granted \cup {<<s, x>>}) <= MaxLevels
    /\ level' = [level EXCEPT ![s][x] = rank]
    /\ UNCHANGED <<parent, shelf, shown, member>>

GrantTaken(s, x) ==
    /\ level[s][x] # 0
    /\ level' = [level EXCEPT ![s][x] = 0]
    /\ UNCHANGED <<parent, shelf, shown, member>>

FileAccessNext ==
    \/ \E d \in Folders, p \in Folders \cup {Top} : create_folder(d, p)
    \/ \E f \in Documents :
          \/ \E d \in Folders \cup {Top} : PutFile(f, d)
          \/ \E active \in BOOLEAN : ShowOrArchive(f, active)
    \/ \E s \in Subjects, x \in Shared :
          GrantTaken(s, x) \/ \E rank \in Ranks : GrantGiven(s, x, rank)

FileAccessSpec == FileAccessInit /\ [][FileAccessNext]_accessVars

-----------------------------------------------------------------------------
(* Where the user gets by opening the folders that are shown.               *)
Reached ==
    LET go[n \in 0..Cardinality(Folders)] ==
            IF n = 0 THEN {Top} ELSE go[n - 1] \cup UNION {ListedFolders(d) : d \in go[n - 1]}
    IN go[Cardinality(Folders)]

(* What the user may view: get_effective_files_for_user, and the folders.   *)
EffectiveFiles ==
    {f \in Documents : shelf[f] # NotYet /\ shown[f] /\ CanView(access_on_file(f))}
ViewFolders == {d \in Folders : There(d) /\ CanView(access_on_folder(d))}

(* Browsing shows just the files the user may view, however deep in the     *)
(* tree the grant is, and every folder that is shown leads to one of them   *)
(* or to a folder the user may view.                                        *)
BrowsingExact ==
    /\ UNION {ListedFiles(d) : d \in Reached} = EffectiveFiles
    /\ Reached \ {Top} \subseteq
          UNION {folder_ancestor_ids(d) : d \in ViewFolders \cup {shelf[f] : f \in EffectiveFiles}}
=============================================================================
