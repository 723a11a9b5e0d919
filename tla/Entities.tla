------------------------------ MODULE Entities ------------------------------
(***************************************************************************)
(* The sets every component speaks about, and the values that stand for    *)
(* the absence of one of their members.                                    *)
(***************************************************************************)
CONSTANTS
  Worker,    (* ETL workers; a worker stands for its slave ID too          *)
  Job,       (* object IDs of job documents, also used as processing IDs   *)
  Name,      (* names of input files                                       *)
  Home,      (* QWERY_HOME directories                                     *)
  Upload,    (* the files users drop, each dropped at most once            *)
  NoWorker,  (* no slave ID                                                *)
  NoJob,     (* no job                                                     *)
  NoName,    (* no input                                                   *)
  NoUpload,  (* no file of that name                                       *)
  NoDir,     (* no sub-directory for that processing ID                    *)
  EmptyDir   (* a sub-directory with nothing in it                         *)

ASSUME EntityAssumption ==
  /\ NoWorker \notin Worker
  /\ NoJob \notin Job
  /\ NoName \notin Name
  /\ {NoUpload, NoDir, EmptyDir} \cap Upload = {}
  /\ NoDir # EmptyDir
=============================================================================
