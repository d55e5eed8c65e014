--------------------------- MODULE UploadContract ---------------------------
(***************************************************************************)
(* What the upload pipeline promises, with no queue, no handlers and no    *)
(* storage: each upload has one status that a client polls, the document   *)
(* has one history, and the two agree.                                     *)
(***************************************************************************)
EXTENDS Naturals, Sequences

CONSTANT Uploads

VARIABLES
  status,   \* none, uploading, scanning, accepted, rejected, or gone
  version,  \* the version an accepted upload was told, else 0
  history   \* the uploads that became versions 1, 2, 3, ...

contractVars == <<status, version, history>>

ContractInit ==
  /\ status = [u \in Uploads |-> "none"]
  /\ version = [u \in Uploads |-> 0]
  /\ history = <<>>

\* preflight answers, or fails and leaves nothing a client can see.
Open(u) ==
  /\ status[u] = "none"
  /\ \E s \in {"uploading", "gone"} : status' = [status EXCEPT ![u] = s]
  /\ UNCHANGED <<version, history>>

\* /complete was accepted.
Queue(u) ==
  /\ status[u] = "uploading"
  /\ status' = [status EXCEPT ![u] = "scanning"]
  /\ UNCHANGED <<version, history>>

\* The upload becomes the next version: once, and it is never undone.
Land(u) ==
  /\ \A k \in DOMAIN history : history[k] # u
  /\ history' = Append(history, u)
  /\ UNCHANGED <<status, version>>

\* The terminal answers.  Accepted follows the event, and names a version at
\* or after the upload's own.
Answer(u) ==
  /\ status[u] \in {"uploading", "scanning"}
  /\ \/ /\ status' = [status EXCEPT ![u] = "rejected"]
        /\ UNCHANGED version
     \/ \E k \in DOMAIN history : \E v \in k..Len(history) :
          /\ history[k] = u
          /\ status' = [status EXCEPT ![u] = "accepted"]
          /\ version' = [version EXCEPT ![u] = v]
  /\ UNCHANGED history

\* The record's lifetime ends; nothing brings it back.
Retire(u) ==
  /\ status[u] # "none"
  /\ status' = [status EXCEPT ![u] = "gone"]
  /\ version' = [version EXCEPT ![u] = 0]
  /\ UNCHANGED history

ContractNext ==
  \E u \in Uploads : Open(u) \/ Queue(u) \/ Land(u) \/ Answer(u) \/ Retire(u)

ContractSpec == ContractInit /\ [][ContractNext]_contractVars
=============================================================================
