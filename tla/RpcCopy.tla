------------------------------- MODULE RpcCopy -------------------------------
(***************************************************************************)
(* Copies that do not resume (python/yr_sandbox/filesystem.py): a file by  *)
(* RuntimeRPC chunks written in place, a directory as a tar archive made   *)
(* by a thread and sent by chunks or as one streamed upload, a directory   *)
(* fetched as an archive, by chunks or as one streamed download.  A unit's *)
(* value is its position; 0 is a unit the server filled in.                *)
(***************************************************************************)
EXTENDS Naturals, Sequences

CONSTANTS Sizes,      \* sizes of the file or archive
          RpcChunk,   \* _RPC_FILE_CHUNK_SIZE
          PipeSize,   \* capacity of the pipe
          MaxCalls    \* bound: calls of copy_from_local for a file

ASSUME RpcAssumption ==
    /\ Sizes \subseteq Nat
    /\ {RpcChunk, PipeSize, MaxCalls} \subseteq Nat \ {0}

VARIABLES way,         \* "file", "dir", "stream" (to the sandbox), "fetch", "get" (from it)
          size,        \* units of the file or archive
          at,          \* where the copying thread is
          calls,       \* calls so far
          sent,        \* offset
          held,        \* the chunk read and not sent yet
          made, taken, \* units put into the pipe, taken out of it
          producer,    \* the tar thread
          errors,      \* errors
          readerOpen,  \* the reading end of the pipe
          file,        \* external: the remote file, temporary archive or request body
          unpacked,    \* what tar was given to extract
          late,        \* external: writes given up on that may still happen
          crossed      \* history: the first write of a given-up call came late

copying == <<way, size, at, calls, sent, held, made, taken, producer, errors,
             readerOpen, file, unpacked, late, crossed>>
tarThread == <<made, producer, errors>>
job == <<way, size, calls>>

Missing == <<0>>
AllOf(n) == [i \in 1 .. n |-> i]
Tarred == way \in {"dir", "stream"}
Pick(a, b) == IF a <= b THEN a ELSE b

RpcInit ==
    /\ way \in {"file", "dir", "stream", "fetch", "get"} /\ size \in Sizes
    /\ way # "file" => size > 0          \* an archive is never empty
    /\ at = "idle" /\ calls = 0 /\ sent = 0 /\ held = <<>>
    /\ made = 0 /\ taken = 0 /\ producer = "none" /\ errors = FALSE /\ readerOpen = FALSE
    /\ file = Missing /\ unpacked = Missing /\ late = {} /\ crossed = FALSE

-----------------------------------------------------------------------------
(* copy_from_local or copy_to_local; the tar thread is started.  The archive
   of a streamed download is made by the server as it goes. *)
Copy ==
    /\ at = "idle" \/ (way = "file" /\ at \in {"ok", "raised"} /\ calls < MaxCalls)
    /\ at' = IF way = "fetch" THEN "pack" ELSE IF way = "get" THEN "fetch" ELSE "fill"
    /\ calls' = calls + 1
    /\ sent' = 0 /\ held' = <<>>
    /\ producer' = IF Tarred THEN "run" ELSE "none"
    /\ readerOpen' = Tarred
    /\ file' = IF way = "stream" THEN <<>> ELSE IF way = "get" THEN AllOf(size) ELSE file
    /\ UNCHANGED <<way, size, made, taken, errors, unpacked, late, crossed>>

(* A directory copied by RuntimeRPC has a temporary archive to remove. *)
Raised == IF way \in {"dir", "fetch"} THEN "clean up, raise" ELSE "raised"

(* The reader of the pipe collects a chunk. *)
Drained == producer \in {"broken", "ended"} /\ made = taken

TakeUnit ==
    /\ at = "fill" /\ Tarred
    /\ taken < made /\ Len(held) < RpcChunk
    /\ taken' = taken + 1
    /\ held' = Append(held, taken + 1)
    /\ UNCHANGED <<job, at, sent, tarThread, readerOpen, file, unpacked, late, crossed>>

(* The next chunk: from the pipe a full one or what is left, from the local
   file what read() returns. *)
NextChunk ==
    /\ at = "fill"
    /\ \/ Tarred /\ held # <<>> /\ (Len(held) = RpcChunk \/ Drained) /\ UNCHANGED held
       \/ /\ ~Tarred /\ sent < size
          /\ held' = SubSeq(AllOf(size), sent + 1, Pick(sent + RpcChunk, size))
    /\ at' = "write"
    /\ UNCHANGED <<job, sent, taken, tarThread, readerOpen, file, unpacked, late, crossed>>

(* The end of the source; of an empty file one empty chunk is written. *)
NoMoreChunks ==
    /\ at = "fill" /\ held = <<>>
    /\ \/ Tarred /\ Drained /\ at' = "join"
       \/ ~Tarred /\ sent = size /\ at' = IF size = 0 THEN "write" ELSE "stat"
    /\ UNCHANGED <<job, sent, held, taken, tarThread, readerOpen, file, unpacked, late,
                   crossed>>

(* Mutant: the errors are looked at without waiting for the thread. *)
JoinSkipped ==
    /\ at = "join"
    /\ at' = IF errors THEN Raised ELSE IF way = "dir" THEN "stat" ELSE "unpack"
    /\ readerOpen' = FALSE
    /\ UNCHANGED <<job, sent, held, taken, tarThread, file, unpacked, late, crossed>>

(* producer.join() after the last chunk, then its errors are raised. *)
Join ==
    /\ at = "join" /\ producer = "ended"
    /\ at' = IF errors THEN Raised ELSE IF way = "dir" THEN "stat" ELSE "unpack"
    /\ readerOpen' = FALSE
    /\ UNCHANGED <<job, sent, held, taken, tarThread, file, unpacked, late, crossed>>

(* external: file.write_chunk truncates at offset 0 and fills gaps. *)
Written(old, m) ==
    LET have == IF m.offset = 0 \/ old = Missing THEN <<>> ELSE old
    IN [i \in 1 .. (IF Len(have) > m.offset + Len(m.data) THEN Len(have)
                    ELSE m.offset + Len(m.data)) |->
           IF i > m.offset /\ i <= m.offset + Len(m.data) THEN m.data[i - m.offset]
           ELSE IF i <= Len(have) THEN have[i] ELSE 0]

Request == [offset |-> sent, data |-> held, call |-> calls]

(* The chunk was written and its size answered, or the body of the streamed
   upload goes on. *)
ChunkWritten ==
    /\ at = "write"
    /\ file' = IF way = "stream" THEN file \o held ELSE Written(file, Request)
    /\ sent' = sent + Len(held)
    /\ held' = <<>>
    /\ at' = IF held = <<>> THEN "stat" ELSE "fill"
    /\ UNCHANGED <<job, taken, tarThread, readerOpen, unpacked, late, crossed>>

(* Mutant: the answer to a chunk is not looked at. *)
ChunkLostIgnored ==
    /\ at = "write"
    /\ sent' = sent + Len(held) /\ held' = <<>>
    /\ at' = IF held = <<>> THEN "stat" ELSE "fill"
    /\ late' = IF way = "stream" THEN late ELSE late \cup {Request}
    /\ UNCHANGED <<job, taken, tarThread, readerOpen, file, unpacked, crossed>>

(* An error, a short write or no answer, after which the write may still
   happen.  The request of a streamed upload is over. *)
ChunkLost ==
    /\ at = "write"
    /\ at' = Raised
    /\ late' = IF way = "stream" THEN late ELSE late \cup {Request}
    /\ UNCHANGED <<job, sent, held, taken, tarThread, readerOpen, file, unpacked, crossed>>

(* external: the write arrives after all, or never does. *)
LateWrite(m) ==
    /\ m \in late
    /\ late' = late \ {m}
    /\ \/ /\ file' = Written(file, m)
          /\ crossed' = (crossed \/ (m.offset = 0 /\ m.call < calls))
       \/ UNCHANGED <<file, crossed>>
    /\ UNCHANGED <<job, at, sent, held, taken, tarThread, readerOpen, unpacked>>

(* get_info, the last call for a file. *)
Stat(ok) ==
    /\ at = "stat"
    /\ at' = IF ~ok THEN Raised ELSE IF way = "file" THEN "ok" ELSE "unpack"
    /\ UNCHANGED <<job, sent, held, taken, tarThread, readerOpen, file, unpacked, late, crossed>>

(* _run_control_command with tar -x, the end of the streamed upload, or
   _safe_extract_tar of the local copy. *)
Unpack(ok) ==
    /\ at = "unpack"
    /\ unpacked' = IF ~ok THEN unpacked ELSE IF way \in {"fetch", "get"} THEN held ELSE file
    /\ at' = IF ~ok /\ way = "dir" THEN Raised
             ELSE IF ~ok THEN "raised"
             ELSE IF way = "dir" THEN "clean up" ELSE "ok"
    /\ UNCHANGED <<job, sent, held, taken, tarThread, readerOpen, file, late, crossed>>

(* _remove_control_temp, whose failure is ignored. *)
CleanUp(ok) ==
    /\ at \in {"clean up", "clean up, raise", "clean up, unpack"}
    /\ at' = CASE at = "clean up" -> "ok"
               [] at = "clean up, raise" -> "raised"
               [] at = "clean up, unpack" -> "unpack"
    /\ file' = IF ok THEN Missing ELSE file
    /\ UNCHANGED <<job, sent, held, taken, tarThread, readerOpen, unpacked, late, crossed>>

-----------------------------------------------------------------------------
(* Fetching a directory: tar -c in the sandbox, then file.read_chunk, or the
   answer to one GET written to the local archive as it comes. *)
Pack(ok) ==
    /\ at = "pack"
    /\ at' = IF ok THEN "fetch" ELSE Raised
    /\ file' = IF ok THEN AllOf(size) ELSE file
    /\ UNCHANGED <<job, sent, held, taken, tarThread, readerOpen, unpacked, late, crossed>>

(* A chunk is read; the one with eof is the last. *)
FetchChunk ==
    /\ held' = held \o SubSeq(file, sent + 1, Pick(sent + RpcChunk, size))
    /\ sent' = Len(held')
    /\ at' = IF sent' < size THEN "fetch" ELSE IF way = "get" THEN "unpack" ELSE "clean up, unpack"

(* An error, an answer that does not parse, no progress, or a broken
   download, which is not resumed. *)
FetchFails == at' = Raised /\ UNCHANGED <<sent, held>>

Fetch ==
    /\ at = "fetch"
    /\ FetchChunk \/ FetchFails
    /\ UNCHANGED <<job, taken, tarThread, readerOpen, file, unpacked, late, crossed>>

-----------------------------------------------------------------------------
(* produce_tar: it writes while the pipe has room. *)
Produce ==
    /\ producer = "run" /\ readerOpen
    /\ \/ made < size /\ made - taken < PipeSize /\ made' = made + 1 /\ UNCHANGED producer
       \/ made = size /\ producer' = "ended" /\ UNCHANGED made
    /\ UNCHANGED <<job, at, sent, held, taken, errors, readerOpen, file, unpacked, late, crossed>>

(* An error of its own closes the pipe, and is recorded after that. *)
ProducerFails ==
    /\ producer = "run"
    /\ producer' = "broken"
    /\ UNCHANGED <<job, at, sent, held, made, taken, errors, readerOpen, file, unpacked,
                   late, crossed>>

(* The same when the reader has closed its end. *)
ProducerPiped == ~readerOpen /\ ProducerFails

ProducerRecords ==
    /\ producer = "broken"
    /\ producer' = "ended" /\ errors' = TRUE
    /\ UNCHANGED <<job, at, sent, held, made, taken, readerOpen, file, unpacked, late, crossed>>

(* Mutant: the thread is waited for before the pipe is closed. *)
AbandonJoinsFirst ==
    /\ at = "raised" /\ readerOpen /\ producer = "ended"
    /\ readerOpen' = FALSE
    /\ UNCHANGED <<job, at, sent, held, taken, tarThread, file, unpacked, late, crossed>>

(* The generator of an abandoned copy is closed with the exception that
   holds it: first the reader, so that the thread can be waited for. *)
Abandon ==
    /\ at = "raised" /\ readerOpen
    /\ readerOpen' = FALSE
    /\ UNCHANGED <<job, at, sent, held, taken, tarThread, file, unpacked, late, crossed>>

CopyStep ==
    \/ TakeUnit \/ NextChunk \/ NoMoreChunks \/ Join \/ ChunkWritten \/ Fetch
    \/ \E ok \in BOOLEAN : Stat(ok) \/ Unpack(ok) \/ CleanUp(ok) \/ Pack(ok)

ThreadStep == Produce \/ ProducerPiped \/ ProducerRecords

RpcNext ==
    \/ Copy \/ CopyStep \/ ChunkLost \/ ThreadStep \/ ProducerFails \/ Abandon
    \/ \E m \in late : LateWrite(m)

-----------------------------------------------------------------------------
(* Type correctness. *)
RpcTypeOK ==
    /\ sent \in 0 .. size /\ made \in 0 .. size /\ taken \in 0 .. made
    /\ held \in Seq(1 .. size) /\ calls \in 0 .. MaxCalls
    /\ producer \in {"none", "run", "broken", "ended"}
    /\ \A m \in late : m.offset + Len(m.data) <= size

(***************************************************************************)
(* A copy of a file by RuntimeRPC that returned has left the whole file in *)
(* place, whatever earlier calls were given up, unless the first write of  *)
(* one of those, which truncates, arrived after the next call had begun.   *)
(***************************************************************************)
RpcFileIsSource == way = "file" /\ at = "ok" /\ ~crossed => file = AllOf(size)

(***************************************************************************)
(* tar never extracts a cut archive: when the thread that makes it fails,  *)
(* the end of the pipe looks like the end of the archive, and the error is *)
(* recorded only after that.                                               *)
(***************************************************************************)
UnpackedIsWhole == unpacked \in {Missing, AllOf(size)}

(***************************************************************************)
(* A copy ends, and so does its tar thread, also when the copy is given up *)
(* while the thread waits for room in the pipe.                            *)
(***************************************************************************)
CopyEnds == (at = "fill") ~> (at \in {"ok", "raised"} /\ producer \in {"none", "ended"})
=============================================================================
