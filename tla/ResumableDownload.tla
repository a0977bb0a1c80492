------------------------- MODULE ResumableDownload --------------------------
(***************************************************************************)
(* Filesystem.copy_to_local of a file (python/yr_sandbox/filesystem.py):   *)
(* by _download_file_resumable and _write_stream_to_file (_transport.py)   *)
(* when the sandbox is reached directly, by RuntimeRPC chunks when not.    *)
(*                                                                         *)
(* Both write <local_path>.part and move it into place; the first asks for *)
(* the rest of it after a broken stream.  The .part file outlives the      *)
(* process, and a later call may take the other way.  A unit of a file is  *)
(* <<version, position>>; the remote file may be replaced at any time.     *)
(***************************************************************************)
EXTENDS Naturals, Sequences

CONSTANTS MaxResumes,   \* _resume_max_retries
          Lengths,      \* lengths a version of the remote file may have
          MaxVersion,   \* bound: versions of the remote file
          MaxRuns       \* bound: calls of the download, over all processes

ASSUME DownloadAssumption ==
    /\ MaxResumes \in Nat
    /\ Lengths \subseteq Nat /\ Lengths # {}
    /\ MaxVersion \in Nat \ {0}
    /\ MaxRuns \in Nat \ {0}

VARIABLES stage,       \* where the downloading thread is
          runs,        \* calls so far
          tries,       \* attempts
          body,        \* what of the answer has not been written yet
          partFile,    \* the .part file, or NoLocal
          local,       \* the file at local_path, or NoLocal
          remoteFile,  \* external: version and length of the remote file
          mixed        \* history: the remote file changed under a .part

download == <<stage, runs, tries, body, partFile, local, remoteFile, mixed>>

NoLocal == << <<0, 0>> >>   \* no version has such a unit
Stages == {"idle", "open", "stream", "replace", "done", "failed", "range", "rpc"}
Content(s) == [i \in 1 .. s.length |-> <<s.version, i>>]
Running == stage \in {"open", "stream", "replace", "rpc"}

(* os.path.getsize, or 0 if there is no .part. *)
Offset == IF partFile = NoLocal THEN 0 ELSE Len(partFile)

DownloadInit ==
    /\ stage = "idle" /\ runs = 0 /\ tries = 0 /\ body = <<>>
    /\ partFile = NoLocal /\ local = NoLocal
    /\ remoteFile \in [version : {1}, length : Lengths]
    /\ mixed = FALSE

-----------------------------------------------------------------------------
BeginDirect ==
    /\ ~Running
    /\ runs < MaxRuns
    /\ runs' = runs + 1
    /\ stage' = "open"
    /\ tries' = 0
    /\ UNCHANGED <<body, partFile, local, remoteFile, mixed>>

(* Opened "wb" unless the answer continues the .part file. *)
Stream(rest, append) ==
    /\ stage' = "stream"
    /\ body' = rest
    /\ partFile' = IF append THEN partFile ELSE <<>>
    /\ UNCHANGED <<runs, tries, local, remoteFile>>

(* Mutant: whatever comes back for a Range is appended. *)
WholeAppended ==
    /\ stage = "open"
    /\ Stream(Content(remoteFile), Offset > 0)
    /\ UNCHANGED mixed

(* 200: the whole file, also if a Range was asked for and not honoured. *)
Whole ==
    /\ stage = "open"
    /\ Stream(Content(remoteFile), FALSE)
    /\ mixed' = FALSE

(* 206: what follows the units that are already there. *)
Partial ==
    /\ stage = "open"
    /\ Offset > 0 /\ Offset < remoteFile.length
    /\ Stream(SubSeq(Content(remoteFile), Offset + 1, remoteFile.length), TRUE)
    /\ UNCHANGED mixed

(* external: no unit follows the ones asked for, 416. *)
RangeRefused ==
    /\ stage = "open"
    /\ Offset > 0 /\ Offset >= remoteFile.length
    /\ stage' = "range"
    /\ UNCHANGED <<runs, tries, body, partFile, local, remoteFile, mixed>>

(* Any other status of 400 or more raises. *)
Refused ==
    /\ stage = "open"
    /\ stage' = "failed"
    /\ UNCHANGED <<runs, tries, body, partFile, local, remoteFile, mixed>>

WriteChunk ==
    /\ stage = "stream"
    /\ body # <<>>
    /\ partFile' = Append(partFile, Head(body))
    /\ body' = Tail(body)
    /\ UNCHANGED <<stage, runs, tries, local, remoteFile, mixed>>

StreamDone ==
    /\ stage = "stream"
    /\ body = <<>>
    /\ stage' = "replace"
    /\ UNCHANGED <<runs, tries, body, partFile, local, remoteFile, mixed>>

(* os.replace. *)
Replace ==
    /\ stage = "replace"
    /\ local' = partFile
    /\ partFile' = NoLocal
    /\ stage' = "done"
    /\ mixed' = FALSE
    /\ UNCHANGED <<runs, tries, body, remoteFile>>

(* Mutant: a broken stream ends the download like a complete one. *)
BrokenIsComplete ==
    /\ stage \in {"open", "stream"}
    /\ stage' = "replace"
    /\ partFile' = IF partFile = NoLocal THEN <<>> ELSE partFile
    /\ UNCHANGED <<runs, tries, body, local, remoteFile, mixed>>

(* httpx.RequestError, before the answer or in the middle of it. *)
Broken ==
    /\ stage \in {"open", "stream"}
    /\ tries' = tries + 1
    /\ stage' = IF tries + 1 > MaxResumes THEN "failed" ELSE "open"
    /\ UNCHANGED <<runs, body, partFile, local, remoteFile, mixed>>

-----------------------------------------------------------------------------
(* Without the direct path: .part is opened "wb". *)
BeginRpc ==
    /\ ~Running
    /\ runs < MaxRuns
    /\ runs' = runs + 1
    /\ stage' = "rpc"
    /\ tries' = 0
    /\ partFile' = <<>>
    /\ mixed' = FALSE
    /\ UNCHANGED <<body, local, remoteFile>>

(* _read_rpc_chunks: each chunk is one of the file there is at that moment;
   the answer at or behind its end says eof. *)
ReadRpc ==
    /\ stage = "rpc"
    /\ partFile' = IF Offset < remoteFile.length
                   THEN Append(partFile, Content(remoteFile)[Offset + 1]) ELSE partFile
    /\ stage' = IF Len(partFile') >= remoteFile.length THEN "replace" ELSE "rpc"
    /\ UNCHANGED <<runs, tries, body, local, remoteFile, mixed>>

(* An error, a malformed answer or no progress: .part is removed. *)
RpcFails ==
    /\ stage = "rpc"
    /\ stage' = "failed"
    /\ partFile' = NoLocal
    /\ mixed' = FALSE
    /\ UNCHANGED <<runs, tries, body, local, remoteFile>>

(* The process ends at any point; the files stay. *)
Crash ==
    /\ Running
    /\ stage' = "idle"
    /\ UNCHANGED <<runs, tries, body, partFile, local, remoteFile, mixed>>

(* external: another version of the remote file. *)
RemoteWritten ==
    /\ remoteFile.version < MaxVersion
    /\ \E n \in Lengths : remoteFile' = [version |-> remoteFile.version + 1, length |-> n]
    /\ mixed' = (partFile # NoLocal)
    /\ UNCHANGED <<stage, runs, tries, body, partFile, local>>

-----------------------------------------------------------------------------
DownloadStep ==
    \/ Whole
    \/ Partial
    \/ RangeRefused
    \/ Refused
    \/ WriteChunk
    \/ StreamDone
    \/ Replace
    \/ Broken
    \/ ReadRpc
    \/ RpcFails

DownloadNext == BeginDirect \/ BeginRpc \/ DownloadStep \/ Crash \/ RemoteWritten

-----------------------------------------------------------------------------
(* Type correctness; the retries stay within their limit. *)
DownloadTypeOK ==
    /\ stage \in Stages
    /\ runs \in 0 .. MaxRuns
    /\ tries \in 0 .. MaxResumes + 1
    /\ tries > MaxResumes => ~Running
    /\ remoteFile \in [version : 1 .. MaxVersion, length : Lengths]
    /\ mixed \in BOOLEAN

(***************************************************************************)
(* The .part file and what is still to be written to it make up the remote *)
(* file, or the .part file is a prefix of it, after any sequence of broken *)
(* streams, ignored ranges, crashes and new calls of either kind, unless   *)
(* the remote file changed while there was a .part.                        *)
(***************************************************************************)
PartIsPrefix ==
    ~mixed /\ partFile # NoLocal =>
        /\ Len(partFile) <= remoteFile.length
        /\ partFile = SubSeq(Content(remoteFile), 1, Len(partFile))
        /\ stage = "stream" => partFile \o body = Content(remoteFile)

(***************************************************************************)
(* What is moved to local_path has every unit at its place, none skipped   *)
(* and none twice, and is all of the remote file.  The exception is a      *)
(* remote file that changed while there was a .part: no If-Range is sent,  *)
(* so the result may be spliced of versions, or cut, but even then nothing *)
(* is out of place.                                                        *)
(***************************************************************************)
Placed(f) == \A i \in DOMAIN f : f[i][2] = i

ReplacedIsWhole ==
    [][local' # local => Placed(local') /\ (~mixed => local' = Content(remoteFile))]_download

=============================================================================
