-------------------------- MODULE DownloadContract --------------------------
(***************************************************************************)
(* What EdgeAppLibReceiveData promises (include/receive_data.h): one call  *)
(* at a time transfers a file a bounded number of times, answers when its  *)
(* transfer has ended, and answers success only with the file that was     *)
(* asked for, which then stays as it is. A call that ends because the      *)
(* instance must stop leaves its transfer behind; from then on files may   *)
(* change at any time.                                                     *)
(***************************************************************************)
EXTENDS Naturals

CONSTANT MaxRetry

VARIABLES
  asking,    \* a call is under way
  attempts,  \* the transfers it has begun
  transfer,  \* one of them has not ended
  strays,    \* a transfer has been left behind
  file,      \* the file that is asked for, a wrong one, or none
  answer     \* what the last call returned

downloadVars == <<asking, attempts, transfer, strays, file, answer>>

Files == {"absent", "wrong", "verified"}
Failures == { "Failure", "Timeout", "DataTooLarge", "Denied", "Uninitialized" }

DownloadInit ==
  /\ asking = FALSE /\ attempts = 0 /\ transfer = FALSE /\ strays = FALSE
  /\ file \in Files /\ answer = "Uninitialized"

\* What is asked for, and what is there already, may be anything.
Ask ==
  /\ ~asking /\ asking' = TRUE
  /\ attempts' = 0 /\ file' \in Files
  /\ UNCHANGED <<transfer, strays, answer>>

Discard ==
  /\ asking /\ ~transfer
  /\ file' = "absent"
  /\ UNCHANGED <<asking, attempts, transfer, strays, answer>>

\* What was left behind may be taken for the end of the new transfer.
Begin ==
  /\ asking /\ ~transfer /\ attempts <= MaxRetry
  /\ attempts' = attempts + 1
  /\ transfer' = TRUE \/ (strays /\ transfer' = FALSE)
  /\ UNCHANGED <<asking, strays, file, answer>>

Write ==
  /\ transfer \/ strays
  /\ file' \in Files
  /\ UNCHANGED <<asking, attempts, transfer, strays, answer>>

Settle ==
  /\ transfer /\ transfer' = FALSE
  /\ file' \in Files
  /\ UNCHANGED <<asking, attempts, strays, answer>>

Succeed ==
  /\ asking /\ ~transfer /\ file = "verified"
  /\ asking' = FALSE /\ answer' = "Success"
  /\ UNCHANGED <<attempts, transfer, strays, file>>

Fail ==
  /\ asking /\ ~transfer
  /\ asking' = FALSE /\ answer' \in Failures
  /\ file' \in {file, "absent"}
  /\ UNCHANGED <<attempts, transfer, strays>>

\* EVP_SHOULDEXIT while the call waits.
Desert ==
  /\ asking /\ transfer
  /\ asking' = FALSE /\ transfer' = FALSE /\ strays' = TRUE
  /\ answer' = "Failure"
  /\ UNCHANGED <<attempts, file>>

DownloadNext ==
  \/ Ask \/ Discard \/ Begin \/ Write \/ Settle \/ Succeed \/ Fail \/ Desert

DownloadSpec == DownloadInit /\ [][DownloadNext]_downloadVars
=============================================================================
