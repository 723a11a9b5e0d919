----------------------------- MODULE FileMoving -----------------------------
(***************************************************************************)
(* The directories below $QWERY_HOME and the moves between them.  Every    *)
(* home has an inbox holding files by name, and the areas work, failed and *)
(* archive, each holding one sub-directory per processing ID (= job ID).   *)
(* A file is identified by its upload, so that two files of the same name  *)
(* are told apart.                                                         *)
(***************************************************************************)
EXTENDS Entities

VARIABLES
  inbox,     (* [Home -> [Name -> Upload or NoUpload]]                 *)
  work,      (* [Home -> [Job -> Upload, NoDir or EmptyDir]]           *)
  failed,
  archive

areas == <<work, failed, archive>>
fileVars == <<inbox, work, failed, archive>>

Area == [Home -> [Job -> Upload \union {NoDir, EmptyDir}]]

FileTypeOK ==
  /\ inbox \in [Home -> [Name -> Upload \union {NoUpload}]]
  /\ work \in Area
  /\ failed \in Area
  /\ archive \in Area

FileInit ==
  /\ inbox = [h \in Home |-> [n \in Name |-> NoUpload]]
  /\ work = [h \in Home |-> [j \in Job |-> NoDir]]
  /\ failed = work
  /\ archive = work

\* moveToDirectory(pid, file, work): the file must exist and mkdirs() must
\* have created the sub-directory.
CanMoveToWork(h, j, n) ==
  /\ inbox[h][n] # NoUpload
  /\ work[h][j] = NoDir

\* (mutant) the file is copied.
MoveToWorkByCopy(h, j, n) ==
  /\ CanMoveToWork(h, j, n)
  /\ work' = [work EXCEPT ![h][j] = inbox[h][n]]
  /\ UNCHANGED <<inbox, failed, archive>>

MoveToWork(h, j, n) ==
  /\ CanMoveToWork(h, j, n)
  /\ work' = [work EXCEPT ![h][j] = inbox[h][n]]
  /\ inbox' = [inbox EXCEPT ![h][n] = NoUpload]
  /\ UNCHANGED <<failed, archive>>

\* The rename fails after mkdirs() created the sub-directory.
RenameToWorkFails(h, j, n) ==
  /\ CanMoveToWork(h, j, n)
  /\ work' = [work EXCEPT ![h][j] = EmptyDir]
  /\ UNCHANGED <<inbox, failed, archive>>

\* moveToDirectory(pid, file, failed): the file leaves its sub-directory of
\* work, which stays behind empty; without the file nothing is moved.
MoveToFailed(h, j) ==
  LET moves == work[h][j] \in Upload /\ failed[h][j] = NoDir
  IN  /\ failed' = IF moves THEN [failed EXCEPT ![h][j] = work[h][j]] ELSE failed
      /\ work' = IF moves THEN [work EXCEPT ![h][j] = EmptyDir] ELSE work
      /\ UNCHANGED <<inbox, archive>>

\* The rename fails after mkdirs() created the sub-directory of failed.
RenameToFailedFails(h, j) ==
  /\ work[h][j] \in Upload
  /\ failed[h][j] = NoDir
  /\ failed' = [failed EXCEPT ![h][j] = EmptyDir]
  /\ UNCHANGED <<inbox, work, archive>>

\* moveToArchive(work/pid): the whole sub-directory, where it exists, is
\* renamed into the archive.  Its path there begins with the time, to the
\* second, and ends in the processing ID; a job has one place for all times,
\* so that a second move, in whatever second, would show.
MoveToArchive(h, j) ==
  LET moves == work[h][j] # NoDir
  IN  /\ archive' = IF moves THEN [archive EXCEPT ![h][j] = work[h][j]] ELSE archive
      /\ work' = IF moves THEN [work EXCEPT ![h][j] = NoDir] ELSE work
      /\ UNCHANGED <<inbox, failed>>
=============================================================================
