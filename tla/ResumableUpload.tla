-------------------------- MODULE ResumableUpload ---------------------------
(***************************************************************************)
(* SandboxClient.upload_file_direct with _upload_file_resumable,           *)
(* _upload_status, _upload_direct and _upload_commit                       *)
(* (python/yr_sandbox/_transport.py).                                      *)
(*                                                                         *)
(* A small local file is sent in one request.  A larger one, of Total      *)
(* units, is sent in chunks under one upload id; the server appends them   *)
(* to a partial file and moves it into place on commit.  A unit's value is *)
(* its position in the source file, so a remote file is right exactly when *)
(* it is <<1, ..., Total>>.  The reply to any request may be lost, and a   *)
(* chunk the client gave up on may still be applied later.                 *)
(***************************************************************************)
EXTENDS Naturals, Sequences

CONSTANTS Total,       \* os.path.getsize(local_path) when the upload starts
          ChunkSize,   \* _resume_chunk_size
          MinSizes,    \* values _resume_min_size may have
          MaxRetries   \* _resume_max_retries

ASSUME ConstantsAssumption ==
    /\ Total \in Nat \ {0}
    /\ ChunkSize \in Nat \ {0}
    /\ MinSizes \subseteq Nat
    /\ MaxRetries \in Nat

VARIABLES pc,        \* where the uploading thread is
          offset,    \* offset
          chunk,     \* chunk: the units read from the local file
          attempts,  \* attempts, for the current chunk
          localLen,  \* present length of the local file, which may shrink
          wire,      \* chunk requests that have not reached the server
          turn,      \* number of the chunk request the client waits for
          reply,     \* the server's answer to that request
          part,      \* external: the server's partial file
          remote,    \* external: the file at remote_path, or NoFile
          stale      \* history: offset moved under a chunk already in hand

client == <<pc, offset, chunk, attempts, turn>>
vars == <<client, localLen, wire, reply, part, remote, stale>>

NoFile == <<>>
NoReply == [status |-> "none", offset |-> 0]
Source == [i \in 1 .. Total |-> i]
PCs == {"begin", "post", "posted", "start", "read", "send", "wait", "status", "commit",
        "waitcommit", "done", "failed"}

MinOf(a, b) == IF a <= b THEN a ELSE b

Init ==
    /\ pc = "begin"
    /\ offset = 0
    /\ chunk = <<>>
    /\ attempts = 0
    /\ localLen = Total
    /\ wire = {}
    /\ turn = 0
    /\ reply = NoReply
    /\ part = <<>>
    /\ remote = NoFile
    /\ stale = FALSE

-----------------------------------------------------------------------------
(* Another program truncates the local file during the upload. *)
Truncate ==
    /\ localLen = Total
    /\ localLen' \in 0 .. Total - 1
    /\ UNCHANGED <<client, wire, reply, part, remote, stale>>

(* upload_file_direct: files from _resume_min_size on are sent in chunks. *)
Begin ==
    /\ pc = "begin"
    /\ \E min \in MinSizes : pc' = IF Total >= min THEN "start" ELSE "post"
    /\ UNCHANGED <<offset, chunk, attempts, turn, localLen, wire, reply, part, remote, stale>>

(* The whole file in one request, as long as it still is. *)
Post ==
    /\ pc = "post"
    /\ chunk' = SubSeq(Source, 1, localLen)
    /\ pc' = "posted"
    /\ UNCHANGED <<offset, attempts, turn, localLen, wire, reply, part, remote, stale>>

(* external: the server puts the file in place.  A body that is shorter than
   its Content-Length is an error of httpx. *)
ServerFile ==
    /\ pc = "posted" /\ Len(chunk) = Total
    /\ remote' = chunk
    /\ UNCHANGED <<client, localLen, wire, reply, part, stale>>

(***************************************************************************)
(* _upload_status, at the start and after a failed chunk: the length of    *)
(* the server's partial file, or an error that ends the upload.  The chunk *)
(* in hand is kept: only offset is refreshed.                              *)
(***************************************************************************)
Status ==
    /\ pc \in {"start", "status"}
    /\ \/ /\ offset' = Len(part)
          /\ pc' = IF pc = "start" THEN "read" ELSE "send"
          /\ stale' = (stale \/ (pc = "status" /\ offset' # offset))
       \/ /\ pc' = "failed"
          /\ UNCHANGED <<offset, stale>>
    /\ UNCHANGED <<chunk, attempts, turn, localLen, wire, reply, part, remote>>

(***************************************************************************)
(* Head of the outer loop: seek and read the next chunk, or go to commit   *)
(* when everything is acknowledged or the local file has no more bytes.    *)
(***************************************************************************)
Read ==
    /\ pc = "read"
    /\ IF offset < Total /\ offset < localLen
       THEN /\ chunk' = SubSeq(Source, offset + 1,
                               MinOf(offset + ChunkSize, localLen))
            /\ attempts' = 0
            /\ pc' = "send"
       ELSE /\ pc' = "commit"
            /\ UNCHANGED <<chunk, attempts>>
    /\ UNCHANGED <<offset, turn, localLen, wire, reply, part, remote, stale>>

(* _upload_direct: POST of the chunk at the current offset. *)
Send ==
    /\ pc = "send"
    /\ turn' = turn + 1
    /\ wire' = wire \cup {[n |-> turn + 1, offset |-> offset, data |-> chunk]}
    /\ reply' = NoReply
    /\ pc' = "wait"
    /\ UNCHANGED <<offset, chunk, attempts, localLen, part, remote, stale>>

(***************************************************************************)
(* external: a chunk request reaches the server, which appends it when it  *)
(* continues the partial file and stays within totalSize, and answers the  *)
(* new length; anything else is answered with an HTTP error.               *)
(***************************************************************************)
ServerChunk(m) ==
    /\ m \in wire
    /\ wire' = wire \ {m}
    /\ LET fits == /\ remote = NoFile
                   /\ m.offset = Len(part)
                   /\ Len(part) + Len(m.data) <= Total
       IN /\ part' = IF fits THEN part \o m.data ELSE part
          /\ reply' = IF m.n # turn THEN reply
                      ELSE [status |-> IF fits THEN "ok" ELSE "error",
                            offset |-> Len(part')]
    /\ UNCHANGED <<client, localLen, remote, stale>>

(* The chunk is acknowledged: offset moves to what the server reported. *)
ChunkAccepted ==
    /\ pc = "wait"
    /\ reply.status = "ok"
    /\ offset' = reply.offset
    /\ pc' = "read"
    /\ UNCHANGED <<chunk, attempts, turn, localLen, wire, reply, part, remote, stale>>

(* Mutant: after a failure the client assumes the chunk was stored. *)
ChunkFailedSkips ==
    /\ pc = "wait"
    /\ attempts' = attempts + 1
    /\ offset' = offset + Len(chunk)
    /\ pc' = IF attempts' > MaxRetries THEN "failed" ELSE "read"
    /\ UNCHANGED <<chunk, turn, localLen, wire, reply, part, remote, stale>>

(***************************************************************************)
(* The request failed: an HTTP error, or a transport error that says       *)
(* nothing of whether the server has the chunk.  Past the retry budget the *)
(* error is raised, otherwise the offset is asked for again.               *)
(***************************************************************************)
ChunkFailed ==
    /\ pc = "wait"
    /\ attempts' = attempts + 1
    /\ pc' = IF attempts' > MaxRetries THEN "failed" ELSE "status"
    /\ UNCHANGED <<offset, chunk, turn, localLen, wire, reply, part, remote, stale>>

(* _upload_commit is posted once, with the size the upload began with. *)
CommitSize == Total

Commit ==
    /\ pc = "commit"
    /\ pc' = "waitcommit"
    /\ UNCHANGED <<offset, chunk, attempts, turn, localLen, wire, reply, part, remote, stale>>

(* external: the server moves a partial file of the announced size in place. *)
ServerCommit ==
    /\ pc = "waitcommit"
    /\ remote = NoFile
    /\ Len(part) = CommitSize
    /\ remote' = part
    /\ UNCHANGED <<client, localLen, wire, reply, part, stale>>

(* The reply to the commit, or to the one request of a small file: success
   only if the server did it; or an error, which is not tried again. *)
CommitReply ==
    /\ pc \in {"waitcommit", "posted"}
    /\ \/ pc' = "done" /\ remote # NoFile
       \/ pc' = "failed"
    /\ UNCHANGED <<offset, chunk, attempts, turn, localLen, wire, reply, part, remote, stale>>

Finished ==
    /\ pc \in {"done", "failed"}
    /\ UNCHANGED vars

ClientStep ==
    \/ Begin
    \/ Post
    \/ Status
    \/ Read
    \/ Send
    \/ ChunkAccepted
    \/ ChunkFailed
    \/ Commit
    \/ CommitReply

Next ==
    \/ ClientStep
    \/ Truncate
    \/ \E m \in wire : ServerChunk(m)
    \/ ServerFile
    \/ ServerCommit
    \/ Finished

Spec == Init /\ [][Next]_vars

-----------------------------------------------------------------------------
(* Type correctness. *)
TypeOK ==
    /\ pc \in PCs
    /\ offset \in 0 .. Total
    /\ chunk \in Seq(1 .. Total)
    /\ attempts \in 0 .. MaxRetries + 1
    /\ localLen \in 0 .. Total
    /\ turn \in Nat
    /\ \A m \in wire : m \in [n : 1 .. turn, offset : 0 .. Total, data : Seq(1 .. Total)]
    /\ reply \in [status : {"none", "ok", "error"}, offset : 0 .. Total]
    /\ part \in Seq(1 .. Total)
    /\ remote \in {NoFile, part, Source}

(***************************************************************************)
(* Lost replies, late chunks, rejected chunks and a local file that        *)
(* shrinks never make the client skip a chunk, its offset being no further *)
(* than the partial file, nor put a wrong unit into that file: only a      *)
(* chunk that is sent again after the offset moved can.                    *)
(***************************************************************************)
PartialIsPrefix ==
    /\ offset <= Len(part)
    /\ ~stale => part = SubSeq(Source, 1, Len(part))

(***************************************************************************)
(* "Upload a file via resumable /direct chunks and atomic commit": what is *)
(* committed is the source file.  The code breaks it: after a failed       *)
(* attempt whose chunk was stored, the same chunk is sent at the new       *)
(* offset.                                                                 *)
(***************************************************************************)
CommittedIsSource == remote \in {NoFile, Source}
=============================================================================
