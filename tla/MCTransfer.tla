----------------------------- MODULE MCTransfer -----------------------------
(***************************************************************************)
(* Transfer for TLC: two sessions of the client that owns the file, which  *)
(* uploads, resumes, removes and makes directories, beside one session of  *)
(* a client that downloads, resumes and lists.                             *)
(***************************************************************************)
EXTENDS Transfer, TLC

MCOwner == (1 :> "u") @@ (2 :> "u") @@ (3 :> "d")
MCMay == [u |-> {"upload", "upload_resume", "mkdir", "rmdir", "delete"},
          d |-> {"download", "download_resume", "list", "pwd"}]
=============================================================================
