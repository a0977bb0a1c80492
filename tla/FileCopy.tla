------------------------------ MODULE FileCopy -------------------------------
(***************************************************************************)
(* Filesystem.copy_from_local and copy_to_local: which way a copy takes    *)
(* (python/yr_sandbox/filesystem.py).  Files go by ResumableUpload and     *)
(* ResumableDownload when the sandbox is reached directly, directories and *)
(* everything that goes by RuntimeRPC by RpcCopy.                          *)
(***************************************************************************)
EXTENDS ResumableUpload, ResumableDownload, RpcCopy

VARIABLE does          \* bound: the kind of copy this behaviour has

all == <<vars, download, copying, does>>

(* What the behaviour does not use starts in one state. *)
CopyInit ==
    /\ does \in {"upload", "download", "rpc"}
    /\ Init /\ DownloadInit /\ RpcInit
    /\ does # "rpc" => way = "file" /\ size = CHOOSE n \in Sizes : TRUE
    /\ does # "download" => remoteFile.length = CHOOSE n \in Lengths : TRUE

Uploads == does = "upload" /\ Next /\ UNCHANGED <<download, copying, does>>
Downloads == does = "download" /\ DownloadNext /\ UNCHANGED <<vars, copying, does>>
Rpc(step) == does = "rpc" /\ step /\ UNCHANGED <<vars, download, does>>

CopyNext == Uploads \/ Downloads \/ Rpc(RpcNext)

(* The calling thread and the tar thread run; the generator of an abandoned
   copy is closed.  Nothing is assumed of errors and of the server. *)
CopySpec ==
    /\ CopyInit /\ [][CopyNext]_all
    /\ WF_all(Rpc(CopyStep)) /\ WF_all(Rpc(ThreadStep)) /\ WF_all(Rpc(Abandon))
=============================================================================
