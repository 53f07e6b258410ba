------------------------------ MODULE Folders ------------------------------
(***************************************************************************)
(* Where testgenie-backend keeps tests: collections with their tests in    *)
(* folders, and projects with their test cases in folders of their own     *)
(* table.  A folder of a project can be moved.  Nobody checks that a folder *)
(* is of the collection or project it is used in, nor that it is not moved *)
(* into itself.                                                            *)
(***************************************************************************)
EXTENDS Naturals, FiniteSets

CONSTANTS
    Vacant,
    CollectionId, ProjectId,
    FolderId, TestId,       \* ids are taken again once nobody knows them
    Cleaner                 \* requests in flight that delete a folder

Holder == CollectionId \cup ProjectId
FolderRow == [of : Holder, parent : {Vacant} \cup FolderId]
TestRow == [of : Holder, in : {Vacant} \cup FolderId]

ASSUME FoldersAssumption ==
    /\ IsFiniteSet(FolderId)
    /\ CollectionId \cap ProjectId = {}
    /\ Vacant \notin Holder \cup FolderId \cup FolderRow \cup TestRow

VARIABLES
    holder,     \* the collections and projects there are
    folder,     \* collection_folders and folders: rows by id, or Vacant
    kept,       \* collection_tests and test_cases: rows by id, or Vacant
    cleanup     \* the folder and the holder a request names, or Vacant

foldersVars == <<holder, folder, kept, cleanup>>

FoldersInit ==
    /\ holder = {}
    /\ folder = [f \in FolderId |-> Vacant]
    /\ kept = [t \in TestId |-> Vacant]
    /\ cleanup = [r \in Cleaner |-> Vacant]

SameTable(h, g) == {h, g} \subseteq CollectionId \/ {h, g} \subseteq ProjectId

\* What a foreign key lets a row of h refer to, no folder at all included.
FoldersFor(h) ==
    {Vacant} \cup {f \in FolderId : folder[f] # Vacant /\ SameTable(folder[f].of, h)}

\* The folders under some: ON DELETE CASCADE follows the parents.
Subtree(roots) ==
    LET within[n \in Nat] ==
          IF n = 0 THEN roots
          ELSE within[n - 1] \cup
                 {f \in FolderId : folder[f] # Vacant /\ folder[f].parent \in within[n - 1]}
    IN within[Cardinality(FolderId)]

\* Mutant: the key of the tests' folders was never added.
ForgetKey(gone) ==
    /\ folder' = [f \in FolderId |-> IF f \in gone THEN Vacant ELSE folder[f]]
    /\ kept' = [t \in TestId |->
                  IF kept[t] # Vacant /\ kept[t].of \notin holder' THEN Vacant ELSE kept[t]]

\* Rows of folders that go: ON DELETE SET NULL.
DropFolders(gone) ==
    /\ folder' = [f \in FolderId |-> IF f \in gone THEN Vacant ELSE folder[f]]
    /\ kept' = [t \in TestId |->
                  IF kept[t] = Vacant \/ kept[t].of \notin holder' THEN Vacant
                  ELSE IF kept[t].in \in gone THEN [kept[t] EXCEPT !.in = Vacant]
                  ELSE kept[t]]

CreateHolder(h) ==
    /\ h \notin holder
    /\ \A r \in Cleaner : cleanup[r] # Vacant => cleanup[r].of # h
    /\ holder' = holder \cup {h}
    /\ UNCHANGED <<folder, kept, cleanup>>

DeleteHolder(h) ==
    /\ h \in holder
    /\ holder' = holder \ {h}
    /\ DropFolders(Subtree({f \in FolderId : folder[f] # Vacant /\ folder[f].of = h}))
    /\ UNCHANGED cleanup

CreateFolder(h, f, parent) ==
    /\ h \in holder /\ folder[f] = Vacant /\ parent \in FoldersFor(h)
    /\ \A r \in Cleaner : cleanup[r] # Vacant => cleanup[r].folder # f
    /\ folder' = [folder EXCEPT ![f] = [of |-> h, parent |-> parent]]
    /\ UNCHANGED <<holder, kept, cleanup>>

MoveFolder(f, parent) ==
    /\ folder[f] # Vacant /\ folder[f].of \in ProjectId
    /\ parent \in FoldersFor(folder[f].of)
    /\ folder' = [folder EXCEPT ![f] = [@ EXCEPT !.parent = parent]]
    /\ UNCHANGED <<holder, kept, cleanup>>

AddTest(h, t, f) ==
    /\ h \in holder /\ kept[t] = Vacant /\ f \in FoldersFor(h)
    /\ kept' = [kept EXCEPT ![t] = [of |-> h, in |-> f]]
    /\ UNCHANGED <<holder, folder, cleanup>>

\* Test cases, in one transaction and in no folder.
BatchCreate(h, ts) ==
    /\ h \in holder \cap ProjectId /\ ts # {} /\ \A t \in ts : kept[t] = Vacant
    /\ kept' = [t \in TestId |-> IF t \in ts THEN [of |-> h, in |-> Vacant] ELSE kept[t]]
    /\ UNCHANGED <<holder, folder, cleanup>>

PutTest(t, f) ==
    /\ kept[t] # Vacant /\ f \in FoldersFor(kept[t].of)
    /\ kept' = [kept EXCEPT ![t] = [@ EXCEPT !.in = f]]
    /\ UNCHANGED <<holder, folder, cleanup>>

RemoveTest(t) ==
    /\ kept[t] # Vacant
    /\ kept' = [kept EXCEPT ![t] = Vacant]
    /\ UNCHANGED <<holder, folder, cleanup>>

(***************************************************************************)
(* Deleting a folder: its tests are put out of it, whose folder it may be, *)
(* and then it is deleted if it is of the collection or project named.     *)
(***************************************************************************)

EmptyFolder(r, h, f) ==
    /\ cleanup[r] = Vacant /\ h \in holder
    /\ folder[f] # Vacant => SameTable(h, folder[f].of)
    /\ kept' = [t \in TestId |->
                  IF kept[t] # Vacant /\ kept[t].in = f
                  THEN [kept[t] EXCEPT !.in = Vacant] ELSE kept[t]]
    /\ cleanup' = [cleanup EXCEPT ![r] = [folder |-> f, of |-> h]]
    /\ UNCHANGED <<holder, folder>>

DeleteFolder(r) ==
    LET f == cleanup[r].folder
    IN  /\ cleanup[r] # Vacant
        /\ cleanup' = [cleanup EXCEPT ![r] = Vacant]
        /\ UNCHANGED holder
        /\ IF folder[f] # Vacant /\ folder[f].of = cleanup[r].of
           THEN DropFolders(Subtree({f})) ELSE UNCHANGED <<folder, kept>>

FoldersNext ==
    \/ \E h \in Holder :
          \/ CreateHolder(h) \/ DeleteHolder(h)
          \/ \E f \in FolderId, p \in FolderId \cup {Vacant} : CreateFolder(h, f, p)
          \/ \E t \in TestId, f \in FolderId \cup {Vacant} : AddTest(h, t, f)
          \/ \E ts \in SUBSET TestId : BatchCreate(h, ts)
          \/ \E r \in Cleaner, f \in FolderId : EmptyFolder(r, h, f)
    \/ \E f \in FolderId \cup {Vacant} :
          \/ \E g \in FolderId : MoveFolder(g, f)
          \/ \E t \in TestId : PutTest(t, f)
    \/ \E t \in TestId : RemoveTest(t)
    \/ \E r \in Cleaner : DeleteFolder(r)

(***************************************************************************)
(* Properties.                                                             *)
(***************************************************************************)

FoldersTypeOK ==
    /\ holder \subseteq Holder
    /\ folder \in [FolderId -> {Vacant} \cup FolderRow]
    /\ kept \in [TestId -> {Vacant} \cup TestRow]
    /\ cleanup \in [Cleaner -> {Vacant} \cup [folder : FolderId, of : Holder]]

\* Everything is in something that is there, and in a table of its own kind.
NothingDangles ==
    /\ \A f \in FolderId : folder[f] # Vacant =>
          folder[f].of \in holder /\ folder[f].parent \in FoldersFor(folder[f].of)
    /\ \A t \in TestId : kept[t] # Vacant =>
          kept[t].of \in holder /\ kept[t].in \in FoldersFor(kept[t].of)

Lost(before, after) == {x \in DOMAIN before : before[x] # Vacant /\ after[x] = Vacant}

\* What a step that takes folders away takes along.
StepLosesNothing ==
    LET gone == Lost(folder, folder')
        named == {f \in gone :
                    \/ folder[f].of \notin holder'
                    \/ \E r \in Cleaner : cleanup[r] = [folder |-> f, of |-> folder[f].of]}
    IN  gone # {} =>
           /\ \A t \in Lost(kept, kept') : kept[t].of \notin holder'
           /\ gone = Subtree(named)

\* "Test cases in this folder become un-foldered; subfolders are cascaded":
\* whoever files a test into the folder, or a folder under it, while it is
\* being deleted, no folder takes a test along, only its collection or its
\* project does; a folder goes with those above it and with nothing else; and
\* what is left is in folders that are there.
FoldersLoseNothing == [][NothingDangles' /\ StepLosesNothing]_foldersVars
=============================================================================
