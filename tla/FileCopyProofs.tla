--------------------------- MODULE FileCopyProofs ----------------------------
(***************************************************************************)
(* Proofs about the copies of Filesystem, for any sizes, limits, number of *)
(* calls and versions of the remote file.                                  *)
(*                                                                         *)
(* Each of the three ways to copy has an inductive invariant of its own.   *)
(* They say, unit by unit, what is in the file that is being written, in   *)
(* the chunk in hand and in the requests that are still on their way, so   *)
(* that whichever of them is applied next finds its place.                 *)
(***************************************************************************)
EXTENDS FileCopy, SequenceTheorems, TLAPS

(* The units of a file that follow the first k, up to one of them. *)
Follows(data, k) == \A i \in 1 .. Len(data) : data[i] = k + i

-----------------------------------------------------------------------------
(* Upload: types. *)
ChunkTypes ==
    /\ pc \in PCs /\ offset \in 0 .. Total /\ chunk \in Seq(1 .. Total)
    /\ attempts \in 0 .. MaxRetries + 1 /\ localLen \in 0 .. Total /\ turn \in Nat
    /\ stale \in BOOLEAN
    /\ reply \in [status : {"none", "ok", "error"}, offset : 0 .. Total]
    /\ pc \in {"send", "wait", "status"} => attempts <= MaxRetries
WireTypes == \A m \in wire : m \in [n : 1 .. turn, offset : 0 .. Total, data : Seq(1 .. Total)]
PartTypes ==
    /\ part \in Seq(1 .. Total) /\ Len(part) <= Total
    /\ remote \in {NoFile, Source} \/ (remote = part /\ Len(part) = Total)
    /\ pc = "posted" => Follows(chunk, 0)

(* Nothing is ahead of the partial file, and until the offset moves under  *)
(* a chunk, the partial file, the chunk in hand and every chunk on its way *)
(* hold the units of their places.                                         *)
Behind == offset <= Len(part) /\ reply.offset <= Len(part)
InPlace ==
    ~stale => /\ Follows(part, 0)
              /\ pc \in {"send", "wait", "status"} => Follows(chunk, offset)
              /\ \A m \in wire : Follows(m.data, m.offset)

UploadInv == ChunkTypes /\ WireTypes /\ PartTypes /\ Behind /\ InPlace

-----------------------------------------------------------------------------
(* Download: types. *)
Units == (1 .. MaxVersion) \X Nat
PartThere == stage \in {"stream", "replace", "rpc"} => partFile # NoLocal
FileTypes ==
    /\ partFile = NoLocal \/ partFile \in Seq(Units)
    /\ body \in Seq(Units)

(* Units of the remote file that follow the first k. *)
Continues(data, k) == \A i \in 1 .. Len(data) : data[i] = <<remoteFile.version, k + i>>

(* The .part file is a prefix of the remote file, what is left of the      *)
(* answer is the rest of it, and what is moved into place is all of it.    *)
Prefix ==
    ~mixed /\ partFile # NoLocal =>
        /\ Len(partFile) <= remoteFile.length
        /\ Continues(partFile, 0)
        /\ stage = "stream" => /\ Len(partFile) + Len(body) = remoteFile.length
                               /\ Continues(body, Len(partFile))
        /\ stage = "replace" => Len(partFile) = remoteFile.length

(* Whichever versions its units are of, each one is at its place. *)
Numbered(data, k) == \A i \in 1 .. Len(data) : data[i][2] = k + i
InOrder ==
    partFile # NoLocal => /\ Numbered(partFile, 0)
                          /\ stage = "stream" => Numbered(body, Len(partFile))

DownloadInv == DownloadTypeOK /\ FileTypes /\ PartThere /\ Prefix

-----------------------------------------------------------------------------
(* RuntimeRPC: types, and which places each way of copying passes. *)
Places ==
    /\ way \in {"file", "dir", "stream", "fetch", "get"}
    /\ way = "file" => at \in {"idle", "fill", "write", "stat", "ok", "raised"}
    /\ way = "dir" => at \in {"idle", "fill", "write", "join", "stat", "unpack", "clean up",
                              "clean up, raise", "ok", "raised"}
    /\ way = "stream" => at \in {"idle", "fill", "write", "join", "unpack", "ok", "raised"}
    /\ way = "fetch" => at \in {"idle", "pack", "fetch", "clean up, unpack", "unpack",
                                "clean up, raise", "ok", "raised"}
    /\ way = "get" => at \in {"idle", "fetch", "unpack", "ok", "raised"}
CopyTypes ==
    /\ size \in Nat /\ (way # "file" => size > 0)
    /\ sent \in 0 .. size /\ held \in Seq(1 .. size) /\ calls \in 0 .. MaxCalls
    /\ crossed \in BOOLEAN /\ file \in Seq(Nat)

(* The tar thread: a pipe that ends without an error has carried all. *)
Tar ==
    /\ made \in 0 .. size /\ taken \in 0 .. made
    /\ producer \in {"none", "run", "broken", "ended"} /\ errors \in BOOLEAN
    /\ producer = "ended" /\ ~errors => made = size
    /\ at = "idle" => /\ calls = 0 /\ made = 0 /\ taken = 0 /\ ~errors /\ late = {}
                    /\ producer = "none"

(* The chunk in hand is the next one. *)
Active == way \notin {"fetch", "get"} /\ at \in {"fill", "write", "join"}
InHand ==
    /\ Active => Follows(held, sent) /\ sent + Len(held) <= size
    /\ Active /\ Tarred => taken = sent + Len(held)
    /\ at = "write" => (held = <<>> <=> size = 0)
    /\ at = "fill" /\ way = "file" => held = <<>>
    /\ at = "pack" => held = <<>> /\ sent = 0
    /\ at = "join" => held = <<>> /\ made = taken /\ producer \in {"broken", "ended"}

(* Writes that were given up: of a file, none of the present call unless   *)
(* that was given up too; of an archive, only once the copy has failed.    *)
GivenUp ==
    /\ \A m \in late : /\ m \in [offset : 0 .. size, data : Seq(1 .. size), call : 0 .. MaxCalls]
                       /\ Follows(m.data, m.offset) /\ m.offset + Len(m.data) <= size
                       /\ m.call <= calls
                       /\ at # "raised" /\ way = "file" => m.call < calls
    /\ late # {} => way = "file" \/ (way = "dir" /\ at \in {"clean up, raise", "raised"})

(* The first k units of a file are right. *)
Right(f, k) == f \in Seq(Nat) /\ k <= Len(f) /\ \A i \in 1 .. k : f[i] = i

(* What has been copied so far is right; what is unpacked, and what a copy *)
(* leaves behind, is the whole.  A late write that does not begin a file   *)
(* finds its units there or extends the file, but not beyond its end.      *)
FileRight ==
    /\ way = "file" => file = Missing \/ Len(file) <= size
    /\ way = "file" /\ ~crossed => /\ at \in {"fill", "write"} /\ sent > 0 => Right(file, sent)
                                   /\ at \in {"stat", "ok"} => file = AllOf(size)
    /\ Active /\ (way = "stream" \/ (way = "dir" /\ sent > 0)) => Right(file, sent) /\ Len(file) = sent
    /\ Tarred /\ at \in {"stat", "unpack"} => file = AllOf(size)
    /\ at = "fetch" => file = AllOf(size) /\ sent < size /\ held = AllOf(sent)
    /\ way \in {"fetch", "get"} /\ at \in {"clean up, unpack", "unpack"} => held = AllOf(size)
    /\ UnpackedIsWhole

RpcInv == Places /\ CopyTypes /\ Tar /\ InHand /\ GivenUp /\ FileRight
CopyInv == UploadInv /\ DownloadInv /\ InOrder /\ RpcInv

-----------------------------------------------------------------------------
(* Upload. *)
LEMMA UploadInitInv ==
    ASSUME Init PROVE UploadInv
  <1>1. Total \in Nat \ {0} /\ MaxRetries \in Nat
    BY ConstantsAssumption
  <1>3. /\ pc = "begin" /\ offset = 0 /\ wire = {} /\ part = <<>> /\ remote = NoFile
        /\ chunk = <<>> /\ attempts = 0 /\ localLen = Total /\ turn = 0 /\ stale = FALSE
        /\ reply = [status |-> "none", offset |-> 0] /\ reply.offset = 0
    BY DEF Init, NoReply
  <1>4. <<>> \in Seq(1 .. Total) /\ Len(<<>>) = 0
    OBVIOUS
  <1>2. ChunkTypes
    <2>1. reply \in [status : {"none", "ok", "error"}, offset : 0 .. Total]
      BY <1>1, <1>3
    <2>2. pc \in PCs /\ pc \notin {"send", "wait", "status"}
      BY <1>3 DEF PCs
    <2>3. stale \in BOOLEAN /\ chunk \in Seq(1 .. Total)
      BY <1>3, <1>4
    <2>4. /\ offset \in 0 .. Total /\ attempts \in 0 .. MaxRetries + 1
          /\ localLen \in 0 .. Total /\ turn \in Nat
      BY <1>1, <1>3
    <2>5. QED
      BY <2>1, <2>2, <2>3, <2>4 DEF ChunkTypes
  <1>8. WireTypes
    BY <1>3 DEF WireTypes
  <1>5. PartTypes /\ Behind
    BY <1>1, <1>3, <1>4 DEF PartTypes, Behind
  <1>6. InPlace
    BY <1>3, <1>4 DEF InPlace, Follows
  <1>7. QED
    BY <1>2, <1>5, <1>6, <1>8 DEF UploadInv

(* The whole file, or as much of it as is left. *)
LEMMA FirstUnits ==
    ASSUME NEW n \in 0 .. Total
    PROVE  LET read == SubSeq(Source, 1, n) IN read \in Seq(1 .. Total) /\ Follows(read, 0)
  <1> DEFINE read == SubSeq(Source, 1, n)
  <1>1. /\ Total \in Nat /\ Source \in Seq(1 .. Total) /\ Len(Source) = Total
        /\ \A i \in 1 .. Total : Source[i] = i
    BY ConstantsAssumption DEF Source
  <1>2. /\ read \in Seq(1 .. Total)
        /\ \A i \in 1 .. Len(read) : read[i] = Source[i] /\ i \in 1 .. Total
    BY <1>1
  <1> HIDE DEF read
  <1>3. Follows(read, 0)
    BY <1>1, <1>2 DEF Follows
  <1>4. QED
    BY <1>2, <1>3 DEF read

(* A file whose units are all in their places is the source. *)
LEMMA AllInPlace ==
    ASSUME NEW f \in Seq(1 .. Total), Len(f) = Total, Follows(f, 0)
    PROVE  f = Source
  <1>1. Source \in Seq(1 .. Total) /\ Len(Source) = Total /\ \A i \in 1 .. Total : Source[i] = i
    BY ConstantsAssumption DEF Source
  <1>2. \A i \in 1 .. Len(f) : f[i] = 0 + i /\ 0 + i = i
    BY DEF Follows
  <1>3. \A i \in 1 .. Len(f) : f[i] = Source[i]
    BY <1>1, <1>2
  <1>4. QED
    BY <1>1, <1>3, SeqEqual

(* The chunk that is read is the one at the offset. *)
LEMMA ChunkRead ==
    ASSUME ChunkTypes, offset < Total, offset < localLen
    PROVE  LET read == SubSeq(Source, offset + 1, MinOf(offset + ChunkSize, localLen))
           IN read \in Seq(1 .. Total) /\ Follows(read, offset)
  <1> DEFINE end == MinOf(offset + ChunkSize, localLen)
             read == SubSeq(Source, offset + 1, end)
  <1>1. /\ Total \in Nat /\ ChunkSize \in Nat /\ offset \in 0 .. Total /\ localLen \in 0 .. Total
        /\ Source \in Seq(1 .. Total) /\ Len(Source) = Total
        /\ \A i \in 1 .. Total : Source[i] = i
    BY ConstantsAssumption DEF ChunkTypes, Source
  <1>2. end \in 0 .. Total
    BY <1>1 DEF MinOf
  <1> HIDE DEF end
  <1>3. /\ read \in Seq(1 .. Total)
        /\ \A i \in 1 .. Len(read) : read[i] = Source[offset + i] /\ offset + i \in 1 .. Total
    BY <1>1, <1>2
  <1> HIDE DEF read
  <1>4. QED
    BY <1>1, <1>3 DEF Follows, read, end

(* A chunk that continues the partial file and stays within the total. *)
LEMMA ChunkFits ==
    ASSUME PartTypes, NEW data \in Seq(1 .. Total), Len(part) + Len(data) <= Total
    PROVE  /\ part \o data \in Seq(1 .. Total) /\ Len(part \o data) = Len(part) + Len(data)
           /\ Follows(part, 0) /\ Follows(data, Len(part)) => Follows(part \o data, 0)
  <1>1. /\ part \in Seq(1 .. Total)
        /\ part \o data \in Seq(1 .. Total) /\ Len(part \o data) = Len(part) + Len(data)
    BY DEF PartTypes
  <1>2. ASSUME Follows(part, 0), Follows(data, Len(part)), NEW i \in 1 .. Len(part \o data)
        PROVE  (part \o data)[i] = i
    <2>1. CASE i <= Len(part)
      BY <1>1, <1>2, <2>1 DEF Follows
    <2>2. CASE i > Len(part)
      <3>1. (part \o data)[i] = data[i - Len(part)] /\ i - Len(part) \in 1 .. Len(data)
        BY <1>1, <2>2
      <3>2. QED
        BY <1>1, <1>2, <3>1 DEF Follows
    <2>3. QED
      BY <1>1, <2>1, <2>2
  <1>3. QED
    BY <1>1, <1>2 DEF Follows

LEMMA ServerChunkInv ==
    ASSUME UploadInv, NEW m \in wire, ServerChunk(m) PROVE UploadInv'
  <1> DEFINE fits == /\ remote = NoFile
                     /\ m.offset = Len(part)
                     /\ Len(part) + Len(m.data) <= Total
  <1>1. /\ m \in [n : 1 .. turn, offset : 0 .. Total, data : Seq(1 .. Total)]
        /\ ~stale => Follows(m.data, m.offset) /\ Follows(part, 0)
    BY DEF UploadInv, WireTypes, InPlace
  <1>2. m.data \in Seq(1 .. Total) /\ Len(m.data) \in Nat
    BY <1>1
  <1>3. /\ UNCHANGED <<pc, offset, chunk, attempts, turn, localLen, remote, stale>>
        /\ wire' = wire \ {m}
        /\ part' = IF fits THEN part \o m.data ELSE part
        /\ reply' = IF m.n # turn THEN reply
                    ELSE [status |-> IF fits THEN "ok" ELSE "error", offset |-> Len(part')]
    BY DEF ServerChunk, client
  <1>4. part \in Seq(1 .. Total) /\ Total \in Nat
    BY ConstantsAssumption DEF UploadInv, PartTypes
  <1>5. PartTypes' /\ Len(part) <= Len(part') /\ (~stale => Follows(part', 0))
    <2>1. CASE fits
      <3>1. part' = part \o m.data
        BY <1>3, <2>1
      <3>2. part' \in Seq(1 .. Total) /\ Len(part') = Len(part) + Len(m.data)
        BY <1>2, <2>1, <3>1, ChunkFits DEF UploadInv
      <3>3. ~stale => Follows(part', 0)
        BY <1>1, <1>2, <2>1, <3>1, ChunkFits DEF UploadInv
      <3>4. QED
        BY <1>2, <1>3, <1>4, <2>1, <3>2, <3>3 DEF UploadInv, PartTypes
    <2>2. CASE ~fits
      BY <1>1, <1>3, <1>4, <2>2 DEF UploadInv, PartTypes
    <2>3. QED
      BY <2>1, <2>2
  <1>6. /\ reply' \in [status : {"none", "ok", "error"}, offset : 0 .. Total]
        /\ reply'.offset <= Len(part')
    <2>1. Len(part') \in 0 .. Total
      BY <1>4, <1>5 DEF PartTypes
    <2>2. CASE m.n # turn
      BY <1>3, <1>4, <1>5, <2>1, <2>2 DEF UploadInv, ChunkTypes, Behind
    <2>3. CASE m.n = turn
      <3>1. reply' = [status |-> IF fits THEN "ok" ELSE "error", offset |-> Len(part')]
        BY <1>3, <2>3
      <3>2. (IF fits THEN "ok" ELSE "error") \in {"ok", "error"}
        OBVIOUS
      <3> HIDE DEF fits
      <3>3. QED
        BY <2>1, <3>1, <3>2
    <2>4. QED
      BY <2>2, <2>3
  <1> HIDE DEF fits
  <1>7. ChunkTypes' /\ WireTypes'
    BY <1>3, <1>6 DEF UploadInv, ChunkTypes, WireTypes
  <1>8. Behind'
    BY <1>3, <1>4, <1>5, <1>6 DEF UploadInv, ChunkTypes, Behind, PartTypes
  <1>9. InPlace'
    BY <1>3, <1>5 DEF UploadInv, InPlace
  <1>10. QED
    BY <1>5, <1>7, <1>8, <1>9 DEF UploadInv

LEMMA UploadStepInv ==
    ASSUME UploadInv, Next PROVE UploadInv'
  <1>0. /\ Total \in Nat /\ MaxRetries \in Nat
        /\ part \in Seq(1 .. Total) /\ Len(part) \in 0 .. Total /\ offset <= Len(part)
    BY ConstantsAssumption DEF UploadInv, PartTypes, Behind
  <1>1. CASE Status
    <2>1. UNCHANGED <<chunk, attempts, turn, localLen, wire, reply, part, remote>> /\ pc' # "posted"
      BY <1>1 DEF Status
    <2>2. WireTypes' /\ PartTypes'
      BY <2>1 DEF UploadInv, WireTypes, PartTypes
    <2>3. CASE pc' = "failed" /\ UNCHANGED <<offset, stale>>
      <3>1. ChunkTypes' /\ Behind' /\ InPlace'
        BY <2>1, <2>3 DEF UploadInv, ChunkTypes, PCs, Behind, InPlace
      <3>2. QED
        BY <2>2, <3>1 DEF UploadInv
    <2>4. CASE pc = "start" /\ pc' = "read" /\ offset' = Len(part) /\ stale' = stale
      <3>1. ChunkTypes' /\ Behind' /\ InPlace'
        BY <1>0, <2>1, <2>4 DEF UploadInv, ChunkTypes, PCs, Behind, InPlace
      <3>2. QED
        BY <2>2, <3>1 DEF UploadInv
    <2>5. CASE /\ pc = "status" /\ pc' = "send" /\ offset' = Len(part)
               /\ stale' = (stale \/ offset' # offset)
      <3>1. ChunkTypes' /\ Behind'
        BY <1>0, <2>1, <2>5 DEF UploadInv, ChunkTypes, PCs, Behind
      <3>2. InPlace'
        BY <2>1, <2>5 DEF UploadInv, InPlace
      <3>3. QED
        BY <2>2, <3>1, <3>2 DEF UploadInv
    <2>6. stale \in BOOLEAN
      BY DEF UploadInv, ChunkTypes
    <2>7. QED
      BY <1>1, <2>3, <2>4, <2>5, <2>6 DEF Status
  <1>2. CASE Read
    <2>1. UNCHANGED <<offset, turn, localLen, wire, reply, part, remote, stale>> /\ pc' # "posted"
      BY <1>2 DEF Read
    <2>2. WireTypes' /\ PartTypes' /\ Behind'
      BY <2>1 DEF UploadInv, WireTypes, PartTypes, Behind
    <2>3. CASE offset < Total /\ offset < localLen
      <3>1. pc' = "send" /\ attempts' = 0 /\ chunk' \in Seq(1 .. Total) /\ Follows(chunk', offset)
        BY <1>2, <2>3, ChunkRead DEF Read, UploadInv
      <3>2. ChunkTypes' /\ InPlace'
        BY <1>0, <2>1, <3>1 DEF UploadInv, ChunkTypes, PCs, InPlace
      <3>3. QED
        BY <2>2, <3>2 DEF UploadInv
    <2>4. CASE ~(offset < Total /\ offset < localLen)
      <3>1. ChunkTypes' /\ InPlace'
        BY <1>2, <2>1, <2>4 DEF Read, UploadInv, ChunkTypes, PCs, InPlace
      <3>2. QED
        BY <2>2, <3>1 DEF UploadInv
    <2>5. QED
      BY <2>3, <2>4
  <1>3. CASE Send
    <2>1. /\ UNCHANGED <<offset, chunk, attempts, localLen, part, remote, stale>>
          /\ turn' = turn + 1 /\ pc = "send" /\ pc' = "wait" /\ reply' = NoReply
          /\ wire' = wire \cup {[n |-> turn + 1, offset |-> offset, data |-> chunk]}
      BY <1>3 DEF Send
    <2>2. ChunkTypes' /\ PartTypes' /\ Behind'
      BY <1>0, <2>1 DEF UploadInv, ChunkTypes, PCs, PartTypes, Behind, NoReply
    <2>3. WireTypes'
      BY <2>1 DEF UploadInv, ChunkTypes, WireTypes
    <2>4. InPlace'
      BY <2>1 DEF UploadInv, InPlace
    <2>5. QED
      BY <2>2, <2>3, <2>4 DEF UploadInv
  <1>4. CASE ChunkAccepted \/ ChunkFailed
    <2>1. UNCHANGED <<chunk, turn, localLen, wire, reply, part, remote, stale>>
      BY <1>4 DEF ChunkAccepted, ChunkFailed
    <2>2. ChunkTypes' /\ WireTypes' /\ PartTypes' /\ Behind'
      BY <1>0, <1>4, <2>1
      DEF ChunkAccepted, ChunkFailed, UploadInv, ChunkTypes, PCs, WireTypes, PartTypes, Behind
    <2>3. InPlace'
      BY <1>4, <2>1 DEF ChunkAccepted, ChunkFailed, UploadInv, InPlace
    <2>4. QED
      BY <2>2, <2>3 DEF UploadInv
  <1>5. CASE Commit \/ CommitReply
    <2>1. UNCHANGED <<offset, chunk, attempts, turn, localLen, wire, reply, part, remote, stale>>
      BY <1>5 DEF Commit, CommitReply
    <2>2. ChunkTypes' /\ WireTypes' /\ PartTypes' /\ Behind'
      BY <1>5, <2>1 DEF Commit, CommitReply, UploadInv, ChunkTypes, PCs, WireTypes, PartTypes, Behind
    <2>3. InPlace'
      BY <1>5, <2>1 DEF Commit, CommitReply, UploadInv, InPlace
    <2>4. QED
      BY <2>2, <2>3 DEF UploadInv
  <1>6. CASE Truncate \/ ServerCommit
    <2>1. UNCHANGED <<pc, offset, chunk, attempts, turn, wire, reply, part, stale>>
      BY <1>6 DEF Truncate, ServerCommit, client
    <2>2. ChunkTypes' /\ WireTypes' /\ PartTypes' /\ Behind' /\ InPlace'
      BY <1>0, <1>6, <2>1 DEF Truncate, ServerCommit, CommitSize, UploadInv, ChunkTypes, WireTypes,
         PartTypes, Behind, InPlace
    <2>3. QED
      BY <2>2 DEF UploadInv
  <1>9. CASE Begin
    <2>1. /\ UNCHANGED <<offset, chunk, attempts, turn, localLen, wire, reply, part, remote, stale>>
          /\ pc' \in {"start", "post"}
      BY <1>9 DEF Begin
    <2>2. ChunkTypes' /\ WireTypes' /\ PartTypes' /\ Behind' /\ InPlace'
      BY <2>1 DEF UploadInv, ChunkTypes, PCs, WireTypes, PartTypes, Behind, InPlace
    <2>3. QED
      BY <2>2 DEF UploadInv
  <1>10. CASE Post
    <2>1. /\ UNCHANGED <<offset, attempts, turn, localLen, wire, reply, part, remote, stale>>
          /\ pc' = "posted" /\ chunk' = SubSeq(Source, 1, localLen)
      BY <1>10 DEF Post
    <2>2. chunk' \in Seq(1 .. Total) /\ Follows(chunk', 0)
      BY <2>1, FirstUnits DEF UploadInv, ChunkTypes
    <2>3. ChunkTypes' /\ WireTypes' /\ PartTypes' /\ Behind' /\ InPlace'
      BY <2>1, <2>2 DEF UploadInv, ChunkTypes, PCs, WireTypes, PartTypes, Behind, InPlace
    <2>4. QED
      BY <2>3 DEF UploadInv
  <1>11. CASE ServerFile
    <2>1. /\ UNCHANGED <<pc, offset, chunk, attempts, turn, localLen, wire, reply, part, stale>>
          /\ pc = "posted" /\ Len(chunk) = Total /\ remote' = chunk
      BY <1>11 DEF ServerFile, client
    <2>2. remote' = Source
      BY <2>1, AllInPlace DEF UploadInv, ChunkTypes, PartTypes
    <2>3. ChunkTypes' /\ WireTypes' /\ PartTypes' /\ Behind' /\ InPlace'
      BY <2>1, <2>2 DEF UploadInv, ChunkTypes, WireTypes, PartTypes, Behind, InPlace
    <2>4. QED
      BY <2>3 DEF UploadInv
  <1>7. CASE Finished
    BY <1>7 DEF Finished, vars, client, UploadInv, ChunkTypes, WireTypes, PartTypes, Behind, InPlace
  <1>8. QED
    BY <1>1, <1>2, <1>3, <1>4, <1>5, <1>6, <1>7, <1>9, <1>10, <1>11, ServerChunkInv DEF Next, ClientStep

-----------------------------------------------------------------------------
(* Download. *)
LEMMA NoLocalApart == NoLocal \notin Seq(Units)
  <1>1. NoLocal[1] = <<0, 0>> /\ Len(NoLocal) = 1
    BY DEF NoLocal
  <1>2. <<0, 0>> \notin Units
    BY DownloadAssumption DEF Units
  <1>3. QED
    BY <1>1, <1>2

LEMMA RemoteContent ==
    ASSUME DownloadTypeOK
    PROVE  /\ remoteFile.version \in 1 .. MaxVersion /\ remoteFile.length \in Nat
           /\ Content(remoteFile) \in Seq(Units) /\ Len(Content(remoteFile)) = remoteFile.length
           /\ Continues(Content(remoteFile), 0)
           /\ \A i \in 1 .. remoteFile.length : Content(remoteFile)[i] = <<remoteFile.version, i>>
  <1>1. remoteFile.version \in 1 .. MaxVersion /\ remoteFile.length \in Nat
    BY DownloadAssumption DEF DownloadTypeOK
  <1>2. \A i \in 1 .. remoteFile.length : <<remoteFile.version, i>> \in Units
    BY <1>1, DownloadAssumption DEF Units
  <1>3. /\ Content(remoteFile) \in Seq(Units) /\ Len(Content(remoteFile)) = remoteFile.length
        /\ \A i \in 1 .. remoteFile.length : Content(remoteFile)[i] = <<remoteFile.version, i>>
    BY <1>1, <1>2 DEF Content
  <1>4. Continues(Content(remoteFile), 0)
    BY <1>1, <1>3 DEF Continues
  <1>5. QED
    BY <1>1, <1>3, <1>4

LEMMA DownloadInitInv ==
    ASSUME DownloadInit PROVE DownloadInv
  <1>1. DownloadTypeOK
    <2>1. remoteFile \in [version : 1 .. MaxVersion, length : Lengths]
      BY DownloadAssumption DEF DownloadInit
    <2>2. stage = "idle" /\ runs = 0 /\ tries = 0 /\ mixed = FALSE
      BY DEF DownloadInit
    <2>3. stage \in Stages /\ mixed \in BOOLEAN
      BY <2>2 DEF Stages
    <2>4. runs \in 0 .. MaxRuns /\ tries \in 0 .. MaxResumes + 1 /\ ~(tries > MaxResumes)
      BY <2>2, DownloadAssumption
    <2>5. QED
      BY <2>1, <2>3, <2>4 DEF DownloadTypeOK
  <1>2. FileTypes /\ PartThere /\ Prefix
    BY DEF DownloadInit, FileTypes, PartThere, Prefix
  <1>3. QED
    BY <1>1, <1>2 DEF DownloadInv

(* From the first unit on. *)
LEMMA FromStart ==
    ASSUME NEW s \in Seq(Units)
    PROVE  Continues(s, 0) <=> \A i \in 1 .. Len(s) : s[i] = <<remoteFile.version, i>>
  <1>1. \A i \in 1 .. Len(s) : 0 + i = i
    OBVIOUS
  <1>2. QED
    BY <1>1 DEF Continues

(* The first answer for a .part file that is there, or for none. *)
LEMMA AnswerInv ==
    ASSUME DownloadInv, Whole \/ Partial PROVE DownloadInv'
  <1>1. UNCHANGED <<runs, tries, local, remoteFile>> /\ stage = "open" /\ stage' = "stream"
    BY DEF Whole, Partial, Stream
  <1>2. mixed' \in BOOLEAN /\ (mixed => mixed' \/ Whole)
    BY DEF Whole, Partial, DownloadInv, DownloadTypeOK
  <1>3. DownloadTypeOK'
    BY <1>1, <1>2 DEF DownloadInv, DownloadTypeOK, Stages, Running
  <1>4. CASE Whole
    <2>1. body' = Content(remoteFile) /\ partFile' = <<>> /\ Len(<<>>) = 0 /\ <<>> \in Seq(Units)
      BY <1>4 DEF Whole, Stream
    <2>2. partFile' # NoLocal
      BY <2>1, NoLocalApart
    <2>3. body' \in Seq(Units) /\ Len(body') = remoteFile.length /\ Continues(body', 0)
      BY <2>1, RemoteContent DEF DownloadInv
    <2>4. remoteFile.length \in Nat
      BY RemoteContent DEF DownloadInv
    <2>5. FileTypes' /\ PartThere'
      BY <2>1, <2>2, <2>3 DEF FileTypes, PartThere
    <2>6. Prefix'
      BY <1>1, <2>1, <2>3, <2>4 DEF Prefix, Continues
    <2>7. QED
      BY <1>3, <2>5, <2>6 DEF DownloadInv
  <1>5. CASE Partial
    <2>1. partFile # NoLocal /\ partFile' = partFile /\ mixed' = mixed
      BY <1>5 DEF Partial, Stream, Offset
    <2>2. partFile \in Seq(Units) /\ Len(partFile) < remoteFile.length
      BY <1>5, <2>1 DEF Partial, Offset, DownloadInv, FileTypes
    <2>3. body' = SubSeq(Content(remoteFile), Len(partFile) + 1, remoteFile.length)
      BY <1>5, <2>1 DEF Partial, Stream, Offset
    <2>4. /\ remoteFile.length \in Nat
          /\ Content(remoteFile) \in Seq(Units) /\ Len(Content(remoteFile)) = remoteFile.length
          /\ \A i \in 1 .. remoteFile.length : Content(remoteFile)[i] = <<remoteFile.version, i>>
      BY RemoteContent DEF DownloadInv
    <2>5. /\ body' \in Seq(Units) /\ Len(partFile) + Len(body') = remoteFile.length
          /\ \A i \in 1 .. Len(body') : /\ body'[i] = Content(remoteFile)[Len(partFile) + i]
                                        /\ Len(partFile) + i \in 1 .. remoteFile.length
      <3> DEFINE c == Content(remoteFile)
                 k == Len(partFile)
                 n == remoteFile.length
      <3>1. c \in Seq(Units) /\ Len(c) = n /\ n \in Nat /\ k \in Nat /\ k < n
        BY <2>2, <2>4
      <3> HIDE DEF c, k, n
      <3>4. SubSeq(c, k + 1, n) \in Seq(Units) /\ Len(SubSeq(c, k + 1, n)) = n - k
        BY <3>1
      <3>5. \A i \in 1 .. n - k : SubSeq(c, k + 1, n)[i] = c[k + 1 + i - 1]
        BY <3>1
      <3>6. k + (n - k) = n /\ \A i \in 1 .. n - k : k + 1 + i - 1 = k + i /\ k + i \in 1 .. n
        BY <3>1
      <3>2. /\ SubSeq(c, k + 1, n) \in Seq(Units) /\ k + Len(SubSeq(c, k + 1, n)) = n
            /\ \A i \in 1 .. Len(SubSeq(c, k + 1, n)) :
                  SubSeq(c, k + 1, n)[i] = c[k + i] /\ k + i \in 1 .. n
        BY <3>4, <3>5, <3>6
      <3>3. QED
        BY <2>3, <3>2 DEF c, k, n
    <2>6. Continues(body', Len(partFile))
      BY <2>4, <2>5 DEF Continues
    <2>7. FileTypes' /\ PartThere'
      BY <2>1, <2>2, <2>5 DEF FileTypes, PartThere
    <2>8. Prefix'
      BY <1>1, <2>1, <2>2, <2>5, <2>6 DEF DownloadInv, Prefix, Continues
    <2>9. QED
      BY <1>3, <2>7, <2>8 DEF DownloadInv
  <1>6. QED
    BY <1>4, <1>5

(* A unit is appended to the .part file. *)
LEMMA AppendUnit ==
    ASSUME NEW s \in Seq(Units), NEW x \in Units
    PROVE  /\ Append(s, x) \in Seq(Units) /\ Len(Append(s, x)) = Len(s) + 1 /\ Append(s, x) # NoLocal
           /\ Continues(s, 0) /\ x = <<remoteFile.version, Len(s) + 1>> => Continues(Append(s, x), 0)
  <1>1. /\ Append(s, x) \in Seq(Units) /\ Len(Append(s, x)) = Len(s) + 1
        /\ \A i \in 1 .. Len(s) + 1 : Append(s, x)[i] = IF i = Len(s) + 1 THEN x ELSE s[i]
    OBVIOUS
  <1>2. QED
    BY <1>1, NoLocalApart DEF Continues

LEMMA WriteInv ==
    ASSUME DownloadInv, WriteChunk \/ ReadRpc PROVE DownloadInv'
  <1>1. /\ UNCHANGED <<runs, tries, local, remoteFile, mixed>>
        /\ partFile # NoLocal /\ partFile \in Seq(Units) /\ body \in Seq(Units)
    BY DEF WriteChunk, ReadRpc, DownloadInv, PartThere, FileTypes
  <1>2. DownloadTypeOK'
    BY <1>1 DEF WriteChunk, ReadRpc, DownloadInv, DownloadTypeOK, Stages, Running
  <1>3. CASE WriteChunk
    <2>1. /\ body # <<>> /\ body' = Tail(body) /\ partFile' = Append(partFile, Head(body))
          /\ stage = "stream" /\ stage' = "stream"
      BY <1>3 DEF WriteChunk
    <2>2. /\ Head(body) \in Units /\ body' \in Seq(Units) /\ Len(body') = Len(body) - 1
          /\ Head(body) = body[1] /\ \A i \in 1 .. Len(body) - 1 : body'[i] = body[i + 1]
          /\ Len(body) \in Nat \ {0} /\ Len(partFile) \in Nat
      BY <1>1, <2>1
    <2>3. /\ partFile' \in Seq(Units) /\ partFile' # NoLocal /\ Len(partFile') = Len(partFile) + 1
      BY <1>1, <2>1, <2>2, AppendUnit
    <2>4. FileTypes' /\ PartThere'
      BY <2>2, <2>3 DEF FileTypes, PartThere
    <2>5. ASSUME ~mixed PROVE Prefix'
      <3>1. /\ Len(partFile) + Len(body) = remoteFile.length
            /\ Continues(partFile, 0) /\ Continues(body, Len(partFile))
        BY <1>1, <2>1, <2>5 DEF DownloadInv, Prefix
      <3>2. Head(body) = <<remoteFile.version, Len(partFile) + 1>>
        BY <2>2, <3>1 DEF Continues
      <3>3. Continues(partFile', 0)
        BY <1>1, <2>1, <2>2, <3>1, <3>2, AppendUnit
      <3>4. Continues(body', Len(partFile'))
        <4>1. \A i \in 1 .. Len(body') : /\ i + 1 \in 1 .. Len(body) /\ body'[i] = body[i + 1]
                                       /\ Len(partFile) + (i + 1) = Len(partFile') + i
          BY <2>2, <2>3
        <4>2. \A i \in 1 .. Len(body) : body[i] = <<remoteFile.version, Len(partFile) + i>>
          BY <3>1 DEF Continues
        <4>3. \A i \in 1 .. Len(body') : body'[i] = <<remoteFile'.version, Len(partFile') + i>>
          BY <1>1, <4>1, <4>2
        <4>4. QED
          BY <1>1, <4>3 DEF Continues
      <3>5. QED
        BY <1>1, <2>1, <2>2, <2>3, <3>1, <3>3, <3>4 DEF Prefix, Continues
    <2>6. QED
      BY <1>1, <1>2, <2>4, <2>5 DEF DownloadInv, Prefix
  <1>4. CASE ReadRpc
    <2>1. /\ partFile' = IF Len(partFile) < remoteFile.length
                         THEN Append(partFile, Content(remoteFile)[Len(partFile) + 1]) ELSE partFile
          /\ stage' = IF Len(partFile') >= remoteFile.length THEN "replace" ELSE "rpc"
          /\ UNCHANGED body /\ stage = "rpc"
      BY <1>1, <1>4 DEF ReadRpc, Offset
    <2>2. /\ remoteFile.length \in Nat /\ remoteFile.version \in 1 .. MaxVersion
          /\ \A i \in 1 .. remoteFile.length : Content(remoteFile)[i] = <<remoteFile.version, i>>
      BY RemoteContent DEF DownloadInv
    <2>3. ~mixed => Len(partFile) <= remoteFile.length /\ Continues(partFile, 0)
      BY <1>1, <2>1 DEF DownloadInv, Prefix
    <2>4. CASE Len(partFile) < remoteFile.length
      <3> DEFINE x == Content(remoteFile)[Len(partFile) + 1]
      <3>1. x = <<remoteFile.version, Len(partFile) + 1>>
        BY <1>1, <2>2, <2>4
      <3>2. x \in Units
        BY <1>1, <2>2, <3>1, DownloadAssumption DEF Units
      <3>3. partFile' = Append(partFile, x)
        BY <2>1, <2>4
      <3> HIDE DEF x
      <3>4. /\ partFile' \in Seq(Units) /\ partFile' # NoLocal /\ Len(partFile') = Len(partFile) + 1
            /\ Continues(partFile, 0) => Continues(partFile', 0)
        BY <1>1, <3>1, <3>2, <3>3, AppendUnit
      <3>5. FileTypes' /\ PartThere'
        BY <1>1, <2>1, <3>4 DEF FileTypes, PartThere
      <3>6. Prefix'
        BY <1>1, <2>1, <2>2, <2>3, <2>4, <3>4 DEF Prefix, Continues
      <3>7. QED
        BY <1>2, <3>5, <3>6 DEF DownloadInv
    <2>5. CASE ~(Len(partFile) < remoteFile.length)
      <3>1. FileTypes' /\ PartThere'
        BY <1>1, <2>1, <2>5 DEF FileTypes, PartThere
      <3>2. Prefix'
        BY <1>1, <2>1, <2>2, <2>3, <2>5 DEF Prefix, Continues
      <3>3. QED
        BY <1>2, <3>1, <3>2 DEF DownloadInv
    <2>6. QED
      BY <2>4, <2>5
  <1>5. QED
    BY <1>3, <1>4

LEMMA DownloadStepInv ==
    ASSUME DownloadInv, DownloadNext PROVE DownloadInv'
  <1>1. CASE BeginDirect \/ RangeRefused \/ Refused \/ Crash \/ Broken
    <2>1. UNCHANGED <<body, partFile, local, remoteFile, mixed>> /\ stage' \notin {"stream", "replace", "rpc"}
      BY <1>1 DEF BeginDirect, RangeRefused, Refused, Crash, Broken
    <2>2. DownloadTypeOK'
      BY <1>1, DownloadAssumption
      DEF BeginDirect, RangeRefused, Refused, Crash, Broken, DownloadInv, DownloadTypeOK, Stages, Running
    <2>3. FileTypes' /\ PartThere' /\ Prefix'
      BY <2>1 DEF DownloadInv, FileTypes, PartThere, Prefix, Continues
    <2>4. QED
      BY <2>2, <2>3 DEF DownloadInv
  <1>2. CASE StreamDone
    <2>1. /\ UNCHANGED <<runs, tries, body, partFile, local, remoteFile, mixed>>
          /\ stage = "stream" /\ stage' = "replace" /\ Len(body) = 0
      BY <1>2 DEF StreamDone
    <2>2. partFile \in Seq(Units) /\ partFile # NoLocal
      BY <2>1 DEF DownloadInv, FileTypes, PartThere
    <2>3. DownloadTypeOK' /\ FileTypes' /\ PartThere'
      BY <2>1 DEF DownloadInv, DownloadTypeOK, Stages, Running, FileTypes, PartThere
    <2>4. Prefix'
      BY <2>1, <2>2 DEF DownloadInv, Prefix, Continues
    <2>5. QED
      BY <2>3, <2>4 DEF DownloadInv
  <1>3. CASE Replace \/ RpcFails
    <2>1. UNCHANGED <<runs, tries, body, remoteFile>> /\ partFile' = NoLocal /\ stage' \in {"done", "failed"}
          /\ mixed' = FALSE
      BY <1>3 DEF Replace, RpcFails
    <2>2. DownloadTypeOK' /\ FileTypes' /\ PartThere' /\ Prefix'
      BY <2>1 DEF DownloadInv, DownloadTypeOK, Stages, Running, FileTypes, PartThere, Prefix
    <2>3. QED
      BY <2>2 DEF DownloadInv
  <1>4. CASE BeginRpc
    <2>1. /\ UNCHANGED <<body, local, remoteFile>> /\ partFile' = <<>> /\ stage' = "rpc" /\ tries' = 0
          /\ mixed' = FALSE /\ runs' = runs + 1 /\ runs < MaxRuns
      BY <1>4 DEF BeginRpc
    <2>2. DownloadTypeOK'
      <3>1. runs \in 0 .. MaxRuns /\ remoteFile' \in [version : 1 .. MaxVersion, length : Lengths]
        BY <2>1 DEF DownloadInv, DownloadTypeOK
      <3>2. runs' \in 0 .. MaxRuns /\ tries' \in 0 .. MaxResumes + 1 /\ ~(tries' > MaxResumes)
        BY <2>1, <3>1, DownloadAssumption
      <3>3. QED
        BY <2>1, <3>1, <3>2 DEF DownloadTypeOK, Stages
    <2>3. <<>> \in Seq(Units) /\ Len(<<>>) = 0 /\ remoteFile.length \in Nat
      BY RemoteContent DEF DownloadInv
    <2>4. FileTypes' /\ PartThere'
      BY <2>1, <2>3, NoLocalApart DEF DownloadInv, FileTypes, PartThere
    <2>6. Prefix'
      BY <2>1, <2>3 DEF Prefix, Continues
    <2>5. QED
      BY <2>2, <2>4, <2>6 DEF DownloadInv
  <1>5. CASE RemoteWritten
    <2>1. /\ UNCHANGED <<stage, runs, tries, body, partFile, local>> /\ mixed' = (partFile # NoLocal)
          /\ remoteFile.version < MaxVersion
      BY <1>5 DEF RemoteWritten
    <2>2. PICK n \in Lengths : remoteFile' = [version |-> remoteFile.version + 1, length |-> n]
      BY <1>5 DEF RemoteWritten
    <2>3. remoteFile.version + 1 \in 1 .. MaxVersion
      BY <2>1, DownloadAssumption, RemoteContent DEF DownloadInv
    <2>4. remoteFile' \in [version : 1 .. MaxVersion, length : Lengths]
      BY <2>2, <2>3
    <2>5. DownloadTypeOK'
      BY <2>1, <2>4 DEF DownloadInv, DownloadTypeOK, Running
    <2>6. FileTypes' /\ PartThere' /\ Prefix'
      BY <2>1 DEF DownloadInv, FileTypes, PartThere, Prefix
    <2>7. QED
      BY <2>5, <2>6 DEF DownloadInv
  <1>6. QED
    BY <1>1, <1>2, <1>3, <1>4, <1>5, AnswerInv, WriteInv DEF DownloadNext, DownloadStep

(* A unit is appended at its place. *)
LEMMA NumberedUnit ==
    ASSUME NEW s \in Seq(Units), NEW x \in Units, Numbered(s, 0), x[2] = Len(s) + 1
    PROVE  Numbered(Append(s, x), 0)
  <1>1. /\ Len(Append(s, x)) = Len(s) + 1 /\ Len(s) \in Nat
        /\ \A i \in 1 .. Len(s) + 1 : Append(s, x)[i] = IF i = Len(s) + 1 THEN x ELSE s[i]
    OBVIOUS
  <1>2. ASSUME NEW i \in 1 .. Len(s) + 1 PROVE Append(s, x)[i][2] = 0 + i
    <2>1. CASE i = Len(s) + 1
      BY <1>1, <2>1
    <2>2. CASE i # Len(s) + 1
      BY <1>1, <2>2 DEF Numbered
    <2>3. QED
      BY <2>1, <2>2
  <1>3. QED
    BY <1>1, <1>2 DEF Numbered

LEMMA InOrderStep ==
    ASSUME DownloadInv, InOrder, DownloadNext PROVE InOrder'
  <1>1. /\ remoteFile.length \in Nat /\ remoteFile.version \in 1 .. MaxVersion
        /\ Content(remoteFile) \in Seq(Units) /\ Len(Content(remoteFile)) = remoteFile.length
        /\ \A i \in 1 .. remoteFile.length : Content(remoteFile)[i][2] = i
    BY RemoteContent DEF DownloadInv
  <1>2. CASE UNCHANGED <<partFile, body>> /\ (stage' = "stream" => stage = "stream")
    BY <1>2 DEF InOrder, Numbered
  <1>3. CASE Whole
    <2>1. partFile' = <<>> /\ body' = Content(remoteFile) /\ Len(<<>>) = 0
      BY <1>3 DEF Whole, Stream
    <2>2. \A i \in 1 .. remoteFile.length : 0 + i = i
      OBVIOUS
    <2>3. QED
      BY <1>1, <2>1, <2>2 DEF InOrder, Numbered
  <1>4. CASE Partial
    <2> DEFINE k == Len(partFile)
               n == remoteFile.length
               c == Content(remoteFile)
    <2>0. Offset > 0 /\ Offset < n /\ partFile' = partFile /\ body' = SubSeq(c, Offset + 1, n)
      BY <1>4 DEF Partial, Stream
    <2>8. partFile # NoLocal /\ Offset = k
      BY <2>0 DEF Offset
    <2>1. /\ partFile # NoLocal /\ partFile' = partFile /\ k < n
          /\ body' = SubSeq(c, k + 1, n)
      BY <2>0, <2>8
    <2>2. k \in Nat
      BY <2>1 DEF DownloadInv, FileTypes
    <2>3. c \in Seq(Units) /\ Len(c) = n /\ n \in Nat /\ \A i \in 1 .. n : c[i][2] = i
      BY <1>1
    <2> HIDE DEF k, n, c
    <2>4. /\ Len(SubSeq(c, k + 1, n)) = n - k
          /\ \A i \in 1 .. n - k : SubSeq(c, k + 1, n)[i] = c[k + 1 + i - 1]
      BY <2>1, <2>2, <2>3
    <2>5. \A i \in 1 .. n - k : k + 1 + i - 1 = k + i /\ k + i \in 1 .. n
      BY <2>1, <2>2, <2>3
    <2>6. Numbered(body', k)
      BY <2>1, <2>3, <2>4, <2>5 DEF Numbered
    <2>7. QED
      BY <2>1, <2>6 DEF InOrder, k, Numbered
  <1>5. CASE WriteChunk
    <2>1. /\ body # <<>> /\ body' = Tail(body) /\ partFile' = Append(partFile, Head(body))
          /\ stage = "stream" /\ stage' = "stream"
          /\ partFile # NoLocal /\ partFile \in Seq(Units) /\ body \in Seq(Units)
      BY <1>5 DEF WriteChunk, DownloadInv, PartThere, FileTypes
    <2>2. /\ Head(body) \in Units /\ Len(body') = Len(body) - 1 /\ Head(body) = body[1]
          /\ \A i \in 1 .. Len(body) - 1 : body'[i] = body[i + 1]
          /\ Len(body) \in Nat \ {0} /\ Len(partFile) \in Nat /\ Len(partFile') = Len(partFile) + 1
      BY <2>1
    <2>3. /\ Numbered(partFile, 0)
          /\ \A i \in 1 .. Len(body) : body[i][2] = Len(partFile) + i
      BY <2>1 DEF InOrder, Numbered
    <2>4. Numbered(partFile', 0)
      BY <2>1, <2>2, <2>3, NumberedUnit
    <2>5. \A i \in 1 .. Len(body') : /\ i + 1 \in 1 .. Len(body)
                                    /\ Len(partFile) + (i + 1) = Len(partFile') + i
      BY <2>2
    <2>6. Numbered(body', Len(partFile'))
      <3>1. ASSUME NEW i \in 1 .. Len(body') PROVE body'[i][2] = Len(partFile') + i
        <4>1. body'[i] = body[i + 1]
          BY <2>2
        <4>2. body[i + 1][2] = Len(partFile) + (i + 1)
          BY <2>3, <2>5
        <4>3. QED
          BY <2>5, <4>1, <4>2
      <3>2. QED
        BY <3>1 DEF Numbered
    <2>7. QED
      BY <2>4, <2>6 DEF InOrder
  <1>6. CASE ReadRpc
    <2>1. /\ partFile # NoLocal /\ partFile \in Seq(Units) /\ stage' # "stream"
          /\ partFile' = IF Len(partFile) < remoteFile.length
                         THEN Append(partFile, Content(remoteFile)[Len(partFile) + 1]) ELSE partFile
      BY <1>6 DEF ReadRpc, Offset, DownloadInv, PartThere, FileTypes
    <2>2. Numbered(partFile, 0)
      BY <2>1 DEF InOrder
    <2>3. CASE Len(partFile) < remoteFile.length
      <3>1. Len(partFile) + 1 \in 1 .. remoteFile.length
        BY <1>1, <2>1, <2>3
      <3>2. Content(remoteFile)[Len(partFile) + 1] \in Units
        BY <1>1, <3>1
      <3>3. Numbered(partFile', 0)
        BY <1>1, <2>1, <2>2, <2>3, <3>1, <3>2, NumberedUnit
      <3>4. QED
        BY <2>1, <3>3 DEF InOrder
    <2>4. CASE ~(Len(partFile) < remoteFile.length)
      BY <2>1, <2>2, <2>4 DEF InOrder, Numbered
    <2>5. QED
      BY <2>3, <2>4
  <1>7. CASE partFile' = NoLocal \/ (partFile' = <<>> /\ stage' # "stream")
    BY <1>7 DEF InOrder, Numbered
  <1>8. QED
    BY <1>2, <1>3, <1>4, <1>5, <1>6, <1>7
    DEF DownloadNext, DownloadStep, BeginDirect, BeginRpc, RangeRefused, Refused, StreamDone, Replace,
        Broken, RpcFails, Crash, RemoteWritten

(* What the invariant says of the files. *)
LEMMA PrefixIs ==
    ASSUME DownloadInv PROVE PartIsPrefix
  <1> SUFFICES ASSUME ~mixed, partFile # NoLocal
               PROVE  /\ Len(partFile) <= remoteFile.length
                      /\ partFile = SubSeq(Content(remoteFile), 1, Len(partFile))
                      /\ stage = "stream" => partFile \o body = Content(remoteFile)
    BY DEF PartIsPrefix
  <1>1. /\ partFile \in Seq(Units) /\ body \in Seq(Units)
        /\ Len(partFile) <= remoteFile.length /\ Continues(partFile, 0)
    BY DEF DownloadInv, FileTypes, Prefix
  <1>2. /\ remoteFile.length \in Nat
        /\ Content(remoteFile) \in Seq(Units) /\ Len(Content(remoteFile)) = remoteFile.length
        /\ \A i \in 1 .. remoteFile.length : Content(remoteFile)[i] = <<remoteFile.version, i>>
    BY RemoteContent DEF DownloadInv
  <1>3. partFile = SubSeq(Content(remoteFile), 1, Len(partFile))
    <2> DEFINE first == SubSeq(Content(remoteFile), 1, Len(partFile))
    <2>1. /\ first \in Seq(Units) /\ Len(first) = Len(partFile)
          /\ \A i \in 1 .. Len(partFile) : first[i] = Content(remoteFile)[i]
      BY <1>1, <1>2
    <2> HIDE DEF first
    <2>2. \A i \in 1 .. Len(partFile) : first[i] = partFile[i]
      <3>1. \A i \in 1 .. Len(partFile) : partFile[i] = <<remoteFile.version, i>>
        BY <1>1, FromStart
      <3>2. \A i \in 1 .. Len(partFile) : i \in 1 .. remoteFile.length
        BY <1>1, <1>2
      <3>3. QED
        BY <1>2, <2>1, <3>1, <3>2
    <2>3. first = partFile
      BY <1>1, <2>1, <2>2, SeqEqual
    <2>4. QED
      BY <2>3 DEF first
  <1>4. ASSUME stage = "stream" PROVE partFile \o body = Content(remoteFile)
    <2>1. Len(partFile) + Len(body) = remoteFile.length /\ Continues(body, Len(partFile))
      BY <1>4 DEF DownloadInv, Prefix
    <2>2. partFile \o body \in Seq(Units) /\ Len(partFile \o body) = remoteFile.length
      BY <1>1, <2>1
    <2>3. ASSUME NEW i \in 1 .. remoteFile.length PROVE (partFile \o body)[i] = Content(remoteFile)[i]
      <3>1. CASE i <= Len(partFile)
        <4>1. (partFile \o body)[i] = partFile[i] /\ i \in 1 .. Len(partFile)
          BY <1>1, <1>2, <3>1
        <4>2. partFile[i] = <<remoteFile.version, i>>
          BY <1>1, <4>1, FromStart
        <4>3. QED
          BY <1>2, <4>1, <4>2
      <3>2. CASE i > Len(partFile)
        <4>1. (partFile \o body)[i] = body[i - Len(partFile)] /\ i - Len(partFile) \in 1 .. Len(body)
          BY <1>1, <1>2, <2>1, <3>2
        <4>2. body[i - Len(partFile)] = <<remoteFile.version, i>>
          <5>1. Len(partFile) + (i - Len(partFile)) = i
            BY <1>1, <1>2
          <5>2. QED
            BY <2>1, <4>1, <5>1 DEF Continues
        <4>3. QED
          BY <1>2, <4>1, <4>2
      <3>3. i <= Len(partFile) \/ i > Len(partFile)
        BY <1>1, <1>2
      <3>4. QED
        BY <3>1, <3>2, <3>3
    <2>4. QED
      BY <1>2, <2>2, <2>3, SeqEqual
  <1>5. QED
    BY <1>1, <1>3, <1>4

(* What is moved into place is in order, and the whole file. *)
LEMMA ReplacesPlaced ==
    ASSUME DownloadInv, InOrder, Replace PROVE Placed(local')
  <1>1. local' = partFile /\ partFile # NoLocal /\ partFile \in Seq(Units)
    BY DEF Replace, DownloadInv, FileTypes, PartThere
  <1>2. DOMAIN partFile = 1 .. Len(partFile) /\ \A i \in 1 .. Len(partFile) : 0 + i = i
    BY <1>1
  <1>3. QED
    BY <1>1, <1>2 DEF InOrder, Numbered, Placed

LEMMA ReplacesWhole ==
    ASSUME DownloadInv, Replace, ~mixed PROVE local' = Content(remoteFile)
  <1>1. stage = "replace" /\ local' = partFile
    BY DEF Replace
  <1>2. /\ partFile \in Seq(Units) /\ Len(partFile) = remoteFile.length
        /\ Continues(partFile, 0)
    BY <1>1 DEF DownloadInv, FileTypes, PartThere, Prefix
  <1>3. /\ remoteFile.length \in Nat
        /\ Content(remoteFile) \in Seq(Units) /\ Len(Content(remoteFile)) = remoteFile.length
        /\ \A i \in 1 .. remoteFile.length : Content(remoteFile)[i] = <<remoteFile.version, i>>
    BY RemoteContent DEF DownloadInv
  <1>4. \A i \in 1 .. remoteFile.length : partFile[i] = Content(remoteFile)[i]
    BY <1>2, <1>3, FromStart
  <1>5. partFile = Content(remoteFile)
    BY <1>2, <1>3, <1>4, SeqEqual
  <1>6. QED
    BY <1>1, <1>5

-----------------------------------------------------------------------------
(* RuntimeRPC: units in a row. *)
LEMMA AllOfIs ==
    ASSUME NEW n \in Nat
    PROVE  /\ AllOf(n) \in Seq(1 .. n) /\ AllOf(n) \in Seq(Nat) /\ Len(AllOf(n)) = n
           /\ \A i \in 1 .. n : AllOf(n)[i] = i
           /\ Right(AllOf(n), n)
           /\ \A s : Right(s, n) /\ Len(s) = n => s = AllOf(n)
  <1>1. /\ AllOf(n) \in Seq(1 .. n) /\ AllOf(n) \in Seq(Nat) /\ Len(AllOf(n)) = n
        /\ \A i \in 1 .. n : AllOf(n)[i] = i
    BY DEF AllOf
  <1>2. ASSUME NEW s, Right(s, n), Len(s) = n PROVE s = AllOf(n)
    <2>1. s \in Seq(Nat) /\ \A i \in 1 .. Len(s) : s[i] = AllOf(n)[i]
      BY <1>1, <1>2 DEF Right
    <2>2. QED
      BY <1>1, <1>2, <2>1, SeqEqual
  <1>3. QED
    BY <1>1, <1>2 DEF Right

LEMMA NextUnits ==
    ASSUME NEW n \in Nat, NEW k \in 0 .. n, NEW e \in k .. n
    PROVE  LET u == SubSeq(AllOf(n), k + 1, e)
           IN u \in Seq(1 .. n) /\ Len(u) = e - k /\ Follows(u, k)
  <1> DEFINE s == AllOf(n)
             u == SubSeq(s, k + 1, e)
  <1>1. s \in Seq(1 .. n) /\ Len(s) = n /\ \A i \in 1 .. n : s[i] = i
    BY AllOfIs
  <1> HIDE DEF s
  <1>2. u \in Seq(1 .. n) /\ Len(u) = e - k /\ \A i \in 1 .. e - k : u[i] = s[k + 1 + i - 1]
    BY <1>1
  <1> HIDE DEF u
  <1>3. \A i \in 1 .. e - k : k + 1 + i - 1 = k + i /\ k + i \in 1 .. n
    OBVIOUS
  <1>4. Follows(u, k)
    BY <1>1, <1>2, <1>3 DEF Follows
  <1>5. QED
    BY <1>2, <1>4 DEF u, s

(* Units that follow are appended. *)
LEMMA Joined ==
    ASSUME NEW f, NEW k \in Nat, Right(f, k), Len(f) = k, NEW data \in Seq(Nat), Follows(data, k)
    PROVE  Right(f \o data, k + Len(data)) /\ Len(f \o data) = k + Len(data)
  <1>1. f \in Seq(Nat) /\ f \o data \in Seq(Nat) /\ Len(f \o data) = k + Len(data)
    BY DEF Right
  <1>2. ASSUME NEW i \in 1 .. k + Len(data) PROVE (f \o data)[i] = i
    <2>1. CASE i <= k
      BY <1>1, <2>1 DEF Right
    <2>2. CASE i > k
      <3>1. (f \o data)[i] = data[i - k] /\ i - k \in 1 .. Len(data) /\ k + (i - k) = i
        BY <1>1, <2>2
      <3>2. QED
        BY <3>1 DEF Follows
    <2>3. i <= k \/ i > k
      OBVIOUS
    <2>4. QED
      BY <2>1, <2>2, <2>3
  <1>3. QED
    BY <1>1, <1>2 DEF Right

(* What file.write_chunk leaves. *)
LEMMA WrittenIs ==
    ASSUME NEW old \in Seq(Nat), NEW m, m.offset \in Nat, m.data \in Seq(Nat)
    PROVE  LET have == IF m.offset = 0 \/ old = Missing THEN <<>> ELSE old
               end == m.offset + Len(m.data)
               new == Written(old, m)
           IN /\ new \in Seq(Nat) /\ Len(new) = IF Len(have) > end THEN Len(have) ELSE end
              /\ \A i \in 1 .. Len(new) :
                    new[i] = IF i > m.offset /\ i <= end THEN m.data[i - m.offset]
                             ELSE IF i <= Len(have) THEN have[i] ELSE 0
  <1> DEFINE have == IF m.offset = 0 \/ old = Missing THEN <<>> ELSE old
             k == m.offset
             d == m.data
             end == k + Len(d)
             n == IF Len(have) > end THEN Len(have) ELSE end
             unit(i) == IF i > k /\ i <= end THEN d[i - k] ELSE IF i <= Len(have) THEN have[i] ELSE 0
             new == Written(old, m)
  <1>1. new = [i \in 1 .. n |-> unit(i)]
    BY DEF Written
  <1>2. have \in Seq(Nat) /\ k \in Nat /\ d \in Seq(Nat)
    OBVIOUS
  <1> HIDE DEF have, k, d
  <1>3. n \in Nat /\ end \in Nat
    BY <1>2
  <1>4. ASSUME NEW i \in 1 .. n PROVE unit(i) \in Nat
    <2>1. CASE i > k /\ i <= end
      <3>1. i - k \in 1 .. Len(d)
        BY <1>2, <1>3, <2>1
      <3>2. QED
        BY <1>2, <2>1, <3>1
    <2>2. CASE ~(i > k /\ i <= end) /\ i <= Len(have)
      BY <1>2, <1>3, <2>2
    <2>3. QED
      BY <2>1, <2>2
  <1> HIDE DEF n, unit
  <1>5. new \in Seq(Nat) /\ Len(new) = n /\ \A i \in 1 .. n : new[i] = unit(i)
    BY <1>1, <1>3, <1>4
  <1> HIDE DEF new
  <1>6. QED
    BY <1>5 DEF new, n, unit, end, have, k, d

(* A write in its place: the next one, or one that came late. *)
LEMMA WrittenNext ==
    ASSUME NEW old \in Seq(Nat), NEW m, m.offset \in Nat, m.data \in Seq(Nat),
           Follows(m.data, m.offset), m.offset = 0 \/ Right(old, m.offset)
    PROVE  /\ Right(Written(old, m), m.offset + Len(m.data))
           /\ m.offset = 0 \/ Len(old) = m.offset => Len(Written(old, m)) = m.offset + Len(m.data)
  <1> DEFINE k == m.offset
             d == m.data
             end == k + Len(d)
             have == IF k = 0 \/ old = Missing THEN <<>> ELSE old
             new == Written(old, m)
  <1>1. /\ new \in Seq(Nat) /\ Len(new) = IF Len(have) > end THEN Len(have) ELSE end
        /\ \A i \in 1 .. Len(new) : new[i] = IF i > k /\ i <= end THEN d[i - k]
                                             ELSE IF i <= Len(have) THEN have[i] ELSE 0
    BY WrittenIs
  <1>2. k # 0 => have = old
    <2>1. ASSUME k # 0, old = Missing PROVE FALSE
      <3>1. old[1] = 1
        BY <2>1 DEF Right
      <3>2. QED
        BY <2>1, <3>1 DEF Missing
    <2>2. QED
      BY <2>1
  <1>3. k \in Nat /\ d \in Seq(Nat) /\ have \in Seq(Nat) /\ Len(have) \in Nat
    OBVIOUS
  <1>4. k = 0 => Len(have) = 0
    OBVIOUS
  <1>5. k # 0 => Right(have, k)
    BY <1>2
  <1>6. Follows(d, k)
    OBVIOUS
  <1>7. (k = 0 \/ Len(old) = k) => Len(have) <= end
    BY <1>2, <1>3, <1>4
  <1> HIDE DEF k, d, have, new
  <1>8. end <= Len(new) /\ ((k = 0 \/ Len(old) = k) => Len(new) = end)
    BY <1>1, <1>3, <1>7
  <1>9. ASSUME NEW i \in 1 .. end PROVE new[i] = i
    <2>1. i \in 1 .. Len(new)
      BY <1>1, <1>3, <1>8
    <2>2. CASE i > k
      <3>1. i - k \in 1 .. Len(d) /\ k + (i - k) = i
        BY <1>3, <2>2
      <3>2. new[i] = d[i - k]
        BY <1>1, <1>3, <2>1, <2>2
      <3>3. QED
        BY <1>6, <3>1, <3>2 DEF Follows
    <2>3. CASE i <= k
      <3>1. Right(have, k) /\ i <= Len(have) /\ have[i] = i
        BY <1>3, <1>5, <2>3 DEF Right
      <3>2. QED
        BY <1>1, <1>3, <2>1, <2>3, <3>1
    <2>4. i > k \/ i <= k
      BY <1>3
    <2>5. QED
      BY <2>2, <2>3, <2>4
  <1>10. QED
    BY <1>1, <1>8, <1>9 DEF Right, new, k, d

LEMMA WrittenLate ==
    ASSUME NEW old \in Seq(Nat), NEW m, m.offset \in Nat \ {0}, m.data \in Seq(Nat),
           Follows(m.data, m.offset), NEW k \in Nat \ {0}, Right(old, k)
    PROVE  Right(Written(old, m), k)
  <1> DEFINE o == m.offset
             d == m.data
             end == o + Len(d)
             new == Written(old, m)
  <1>1. old # Missing
    <2>1. old[1] = 1
      BY DEF Right
    <2>2. QED
      BY <2>1 DEF Missing
  <1>2. /\ new \in Seq(Nat) /\ Len(new) = IF Len(old) > end THEN Len(old) ELSE end
        /\ \A i \in 1 .. Len(new) : new[i] = IF i > o /\ i <= end THEN d[i - o]
                                             ELSE IF i <= Len(old) THEN old[i] ELSE 0
    BY <1>1, WrittenIs
  <1>3. o \in Nat /\ d \in Seq(Nat) /\ Follows(d, o)
    OBVIOUS
  <1> HIDE DEF o, d, new
  <1>4. k <= Len(new)
    BY <1>2, <1>3 DEF Right
  <1>5. ASSUME NEW i \in 1 .. k PROVE new[i] = i
    <2>0. k <= Len(old) /\ k \in Nat /\ Len(old) \in Nat /\ Len(new) \in Nat /\ \A j \in 1 .. k : old[j] = j
      BY <1>2 DEF Right
    <2>1. i \in 1 .. Len(new) /\ i <= Len(old) /\ old[i] = i
      BY <1>4, <2>0
    <2>2. CASE i > o /\ i <= end
      <3>1. i - o \in 1 .. Len(d) /\ o + (i - o) = i
        BY <1>3, <2>2
      <3>2. new[i] = d[i - o]
        BY <1>2, <2>1, <2>2
      <3>3. QED
        BY <1>3, <3>1, <3>2 DEF Follows
    <2>3. CASE ~(i > o /\ i <= end)
      BY <1>2, <2>1, <2>3
    <2>4. QED
      BY <2>2, <2>3
  <1>6. QED
    BY <1>2, <1>4, <1>5 DEF Right, new

LEMMA RpcInitInv ==
    ASSUME RpcInit PROVE RpcInv
  <1>1. /\ size \in Nat /\ MaxCalls \in Nat \ {0} /\ (way # "file" => size > 0)
        /\ way \in {"file", "dir", "stream", "fetch", "get"}
        /\ at = "idle" /\ calls = 0 /\ sent = 0 /\ held = <<>> /\ file = <<0>> /\ late = {}
        /\ made = 0 /\ taken = 0 /\ producer = "none" /\ errors = FALSE /\ crossed = FALSE
        /\ unpacked = Missing
    BY RpcAssumption DEF RpcInit, Missing
  <1>7. <<>> \in Seq(1 .. size) /\ <<0>> \in Seq(Nat)
    OBVIOUS
  <1>2. held \in Seq(1 .. size) /\ file \in Seq(Nat) /\ crossed \in BOOLEAN /\ errors \in BOOLEAN
    BY <1>1, <1>7
  <1>3. Places /\ CopyTypes /\ Tar
    BY <1>1, <1>2 DEF Places, CopyTypes, Tar
  <1>4. InHand /\ GivenUp
    BY <1>1 DEF InHand, Active, GivenUp
  <1>5. FileRight
    BY <1>1 DEF FileRight, Active, Missing, UnpackedIsWhole
  <1>6. QED
    BY <1>3, <1>4, <1>5 DEF RpcInv

(* Where the copying thread goes. *)
LEMMA PlacesStep ==
    ASSUME RpcInv, RpcNext PROVE Places'
  <1>0. Places
    BY DEF RpcInv
  <1>1. CASE Copy
    BY <1>0, <1>1 DEF Copy, Places
  <1>2. CASE TakeUnit \/ NextChunk \/ NoMoreChunks
    BY <1>0, <1>2 DEF TakeUnit, NextChunk, NoMoreChunks, Places, Tarred, job
  <1>3. CASE Join \/ ChunkWritten \/ ChunkLost
    <2>1. CASE Join
      BY <1>0, <2>1 DEF Join, Places, Raised, job
    <2>2. CASE ChunkWritten
      <3>1. at = "write" /\ (held = <<>> => size = 0) /\ (way # "file" => size > 0)
        BY <2>2 DEF ChunkWritten, RpcInv, InHand, CopyTypes
      <3>2. QED
        BY <1>0, <2>2, <3>1 DEF ChunkWritten, Places, job
    <2>3. CASE ChunkLost
      BY <1>0, <2>3 DEF ChunkLost, Places, Raised, job
    <2>4. QED
      BY <1>3, <2>1, <2>2, <2>3
  <1>4. ASSUME NEW ok \in BOOLEAN, Stat(ok) \/ Unpack(ok) \/ CleanUp(ok) \/ Pack(ok) PROVE Places'
    BY <1>0, <1>4 DEF Stat, Unpack, CleanUp, Pack, Places, Raised, job
  <1>5. CASE Fetch
    BY <1>0, <1>5 DEF Fetch, FetchChunk, FetchFails, Places, Raised, job
  <1>6. CASE ThreadStep \/ ProducerFails \/ Abandon \/ \E m \in late : LateWrite(m)
    BY <1>0, <1>6 DEF ThreadStep, Produce, ProducerPiped, ProducerFails, ProducerRecords, Abandon,
       LateWrite, Places, job
  <1>7. QED
    BY <1>1, <1>2, <1>3, <1>4, <1>5, <1>6 DEF RpcNext, CopyStep

(* Steps that leave what is copied alone. *)
LEMMA TarStep ==
    ASSUME RpcInv, ThreadStep \/ ProducerFails \/ Abandon PROVE RpcInv'
  <1>1. UNCHANGED <<way, size, calls, at, sent, held, taken, file, unpacked, late, crossed>>
    BY DEF ThreadStep, Produce, ProducerPiped, ProducerFails, ProducerRecords, Abandon, job, tarThread
  <1>2. Places' /\ CopyTypes' /\ GivenUp' /\ FileRight'
    <2>1. Places' /\ CopyTypes'
      BY <1>1 DEF RpcInv, Places, CopyTypes, Active, Tarred
    <2>2. GivenUp' /\ FileRight'
      BY <1>1 DEF RpcInv, GivenUp, FileRight, Active, Tarred, UnpackedIsWhole
    <2>3. QED
      BY <2>1, <2>2
  <1>3. size \in Nat
    BY DEF RpcInv, CopyTypes
  <1>7. /\ made \in 0 .. size /\ taken \in 0 .. made
        /\ producer \in {"none", "run", "broken", "ended"} /\ errors \in BOOLEAN
        /\ producer = "ended" /\ ~errors => made = size
        /\ at = "idle" => calls = 0 /\ made = 0 /\ taken = 0 /\ ~errors /\ late = {} /\ producer = "none"
    BY DEF RpcInv, Tar
  <1>4. Tar'
    <2>1. CASE Produce
      BY <1>1, <1>3, <1>7, <2>1 DEF Produce, Tar
    <2>2. CASE ProducerFails \/ ProducerPiped
      BY <1>1, <1>3, <1>7, <2>2 DEF ProducerFails, ProducerPiped, Tar
    <2>3. CASE ProducerRecords
      BY <1>1, <1>3, <1>7, <2>3 DEF ProducerRecords, Tar
    <2>4. CASE Abandon
      BY <1>1, <1>3, <1>7, <2>4 DEF Abandon, tarThread, Tar
    <2>5. QED
      BY <2>1, <2>2, <2>3, <2>4 DEF ThreadStep
  <1>5. InHand'
    BY <1>1 DEF ThreadStep, Produce, ProducerPiped, ProducerFails, ProducerRecords, Abandon,
       tarThread, RpcInv, InHand, Active, Tarred
  <1>6. QED
    BY <1>2, <1>4, <1>5 DEF RpcInv

LEMMA CopyBeginsInv ==
    ASSUME RpcInv, Copy PROVE RpcInv'
  <1>1. /\ UNCHANGED <<way, size, made, taken, errors, unpacked, late, crossed>>
        /\ at' = IF way = "fetch" THEN "pack" ELSE IF way = "get" THEN "fetch" ELSE "fill"
        /\ calls' = calls + 1 /\ sent' = 0 /\ held' = <<>>
        /\ producer' = IF Tarred THEN "run" ELSE "none"
        /\ file' = IF way = "stream" THEN <<>> ELSE IF way = "get" THEN AllOf(size) ELSE file
        /\ at = "idle" \/ (way = "file" /\ at \in {"ok", "raised"} /\ calls < MaxCalls)
    BY DEF Copy
  <1>2. /\ size \in Nat /\ calls \in 0 .. MaxCalls /\ (at = "idle" => calls = 0)
        /\ MaxCalls \in Nat \ {0} /\ crossed \in BOOLEAN /\ file \in Seq(Nat)
        /\ (way # "file" => size > 0)
    BY RpcAssumption DEF RpcInv, CopyTypes, Tar
  <1>3. <<>> \in Seq(1 .. size) /\ <<>> \in Seq(Nat) /\ Len(<<>>) = 0
    OBVIOUS
  <1>11. AllOf(size) \in Seq(Nat) /\ AllOf(0) = <<>>
    <2>1. AllOf(size) \in Seq(Nat) /\ AllOf(0) \in Seq(Nat) /\ Len(AllOf(0)) = 0
      BY <1>2, AllOfIs
    <2>2. QED
      BY <2>1
  <1>4. CopyTypes'
    BY <1>1, <1>2, <1>3, <1>11 DEF CopyTypes
  <1>5. Tar'
    BY <1>1 DEF RpcInv, Tar
  <1>6. InHand'
    BY <1>1, <1>2, <1>3 DEF RpcInv, Tar, InHand, Active, Tarred, Follows
  <1>7. GivenUp'
    <2>1. at = "idle" => late = {}
      BY DEF RpcInv, Tar
    <2>2. CASE at = "idle"
      BY <1>1, <2>1, <2>2 DEF GivenUp
    <2>3. CASE at # "idle"
      <3>1. way = "file" /\ UNCHANGED <<way, size, late>> /\ calls' = calls + 1
        BY <1>1, <2>3
      <3>2. ASSUME NEW m \in late
            PROVE  /\ m \in [offset : 0 .. size, data : Seq(1 .. size), call : 0 .. MaxCalls]
                   /\ Follows(m.data, m.offset) /\ m.offset + Len(m.data) <= size
                   /\ m.call <= calls
        BY DEF RpcInv, GivenUp
      <3>3. ASSUME NEW m \in late PROVE m.call < calls + 1 /\ m.call <= calls + 1
        <4>1. m.call \in Nat /\ m.call <= calls /\ calls \in Nat
          BY <1>2, <3>2
        <4>2. QED
          BY <4>1
      <3>4. QED
        BY <3>1, <3>2, <3>3 DEF GivenUp
    <2>4. QED
      BY <2>2, <2>3
  <1>8. FileRight'
    <2>1. Right(<<>>, 0)
      BY <1>3 DEF Right
    <2>2. /\ UnpackedIsWhole' /\ at' \in {"pack", "fetch", "fill"}
          /\ (way = "fetch" => at' = "pack") /\ (way = "get" <=> at' = "fetch")
      BY <1>1 DEF RpcInv, FileRight, UnpackedIsWhole
    <2>3. way = "stream" => file' = <<>>
      BY <1>1
    <2>4. way = "file" => file' = file /\ (file = Missing \/ Len(file) <= size)
      BY <1>1 DEF RpcInv, FileRight
    <2>5. sent' = 0 /\ way' = way /\ size' = size
      BY <1>1
    <2>6. way' = "stream" => Right(file', sent') /\ Len(file') = sent'
      BY <1>3, <2>1, <2>3, <2>5
    <2>7. ~(sent' > 0)
      BY <2>5
    <2>8. way' = "file" => file' = Missing \/ Len(file') <= size'
      BY <2>4, <2>5
    <2>10. way' = "get" => file' = AllOf(size') /\ sent' < size' /\ held' = AllOf(sent')
      BY <1>1, <1>2, <1>11
    <2>9. QED
      BY <2>2, <2>5, <2>6, <2>7, <2>8, <2>10 DEF FileRight, Active, Tarred
  <1>9. Places'
    BY PlacesStep DEF RpcNext
  <1>10. QED
    BY <1>4, <1>5, <1>6, <1>7, <1>8, <1>9 DEF RpcInv

(* The reader of the pipe and of the local file. *)
LEMMA TakeUnitInv ==
    ASSUME RpcInv, TakeUnit PROVE RpcInv'
  <1>1. /\ UNCHANGED <<way, size, calls, at, sent, made, producer, errors, file, unpacked, late, crossed>>
        /\ at = "fill" /\ Tarred /\ taken < made
        /\ taken' = taken + 1 /\ held' = Append(held, taken + 1)
    BY DEF TakeUnit, job, tarThread
  <1>2. /\ size \in Nat /\ made \in 0 .. size /\ taken \in 0 .. made /\ held \in Seq(1 .. size)
        /\ sent \in 0 .. size /\ Follows(held, sent) /\ taken = sent + Len(held)
    BY <1>1 DEF RpcInv, CopyTypes, Tar, InHand, Active, Tarred
  <1>3. /\ held' \in Seq(1 .. size) /\ Len(held') = Len(held) + 1 /\ held' # <<>>
        /\ \A i \in 1 .. Len(held) + 1 : held'[i] = IF i = Len(held) + 1 THEN taken + 1 ELSE held[i]
    BY <1>1, <1>2
  <1>4. Follows(held', sent) /\ sent + Len(held') <= size /\ taken' = sent + Len(held')
    <2>1. taken + 1 = sent + (Len(held) + 1)
      BY <1>2
    <2>2. QED
      BY <1>1, <1>2, <1>3, <2>1 DEF Follows
  <1>5. CopyTypes' /\ GivenUp'
    BY <1>1, <1>3 DEF RpcInv, CopyTypes, GivenUp
  <1>6. Tar'
    BY <1>1, <1>2 DEF RpcInv, Tar
  <1>7. InHand'
    BY <1>1, <1>4 DEF InHand, Active, Tarred
  <1>8. FileRight'
    BY <1>1 DEF RpcInv, FileRight, Active, Tarred, UnpackedIsWhole
  <1>9. Places'
    BY PlacesStep DEF RpcNext, CopyStep
  <1>10. QED
    BY <1>5, <1>6, <1>7, <1>8, <1>9 DEF RpcInv

LEMMA NextChunkInv ==
    ASSUME RpcInv, NextChunk PROVE RpcInv'
  <1>1. /\ UNCHANGED <<way, size, calls, sent, taken, made, producer, errors, file, unpacked, late, crossed>>
        /\ at = "fill" /\ at' = "write"
    BY DEF NextChunk, job, tarThread
  <1>2. size \in Nat /\ sent \in 0 .. size /\ held \in Seq(1 .. size) /\ (way # "file" => size > 0)
    BY DEF RpcInv, CopyTypes
  <1>3. /\ held' \in Seq(1 .. size) /\ Follows(held', sent) /\ sent + Len(held') <= size
        /\ held' # <<>> /\ size # 0
        /\ Tarred => taken = sent + Len(held')
    <2>1. CASE Tarred
      <3>1. held' = held /\ held # <<>>
        BY <2>1 DEF NextChunk
      <3>2. QED
        BY <1>1, <1>2, <2>1, <3>1 DEF RpcInv, InHand, Active, Tarred
    <2>2. CASE ~Tarred
      <3> DEFINE e == Pick(sent + RpcChunk, size)
      <3>1. sent < size /\ held' = SubSeq(AllOf(size), sent + 1, e)
        BY <2>2 DEF NextChunk
      <3>2. RpcChunk \in Nat \ {0}
        BY RpcAssumption
      <3>3. e \in sent .. size /\ e > sent
        BY <1>2, <3>1, <3>2 DEF Pick
      <3> HIDE DEF e
      <3>4. held' \in Seq(1 .. size) /\ Len(held') = e - sent /\ Follows(held', sent)
        BY <1>2, <3>1, <3>3, NextUnits
      <3>5. sent + (e - sent) <= size /\ e - sent # 0 /\ size # 0
        BY <1>2, <3>1, <3>3
      <3>6. held' # <<>>
        BY <3>4, <3>5
      <3>7. QED
        BY <2>2, <3>4, <3>5, <3>6
    <2>3. QED
      BY <2>1, <2>2
  <1>4. CopyTypes' /\ GivenUp' /\ Tar'
    BY <1>1, <1>3 DEF RpcInv, CopyTypes, GivenUp, Tar
  <1>5. InHand'
    BY <1>1, <1>3 DEF InHand, Active, Tarred
  <1>6. FileRight'
    BY <1>1 DEF RpcInv, FileRight, Active, Tarred, UnpackedIsWhole
  <1>7. Places'
    BY PlacesStep DEF RpcNext, CopyStep
  <1>8. QED
    BY <1>4, <1>5, <1>6, <1>7 DEF RpcInv

LEMMA NoMoreChunksInv ==
    ASSUME RpcInv, NoMoreChunks PROVE RpcInv'
  <1>1. /\ UNCHANGED <<way, size, calls, sent, held, taken, made, producer, errors, file, unpacked,
                       late, crossed>>
        /\ at = "fill" /\ held = <<>>
        /\ \/ Tarred /\ Drained /\ at' = "join"
           \/ ~Tarred /\ sent = size /\ at' = IF size = 0 THEN "write" ELSE "stat"
    BY DEF NoMoreChunks, job, tarThread
  <1>2. /\ size \in Nat /\ sent \in 0 .. size /\ Places /\ (Tarred => size > 0)
        /\ file \in Seq(Nat)
    BY DEF RpcInv, CopyTypes, Tarred
  <1>3. ~Tarred => way = "file"
    BY <1>1, <1>2 DEF Places, Tarred
  <1>4. CopyTypes' /\ Tar'
    BY <1>1 DEF RpcInv, CopyTypes, Tar
  <1>5. GivenUp'
    BY <1>1 DEF RpcInv, GivenUp
  <1>6. InHand'
    <2>1. Tarred => at' = "join" /\ made = taken /\ producer \in {"broken", "ended"}
      BY <1>1 DEF Drained
    <2>2. ~Tarred => at' # "join" /\ at' # "fill" /\ (at' = "write" => size = 0)
      BY <1>1
    <2>3. Follows(held, sent) /\ sent + Len(held) <= size /\ (Tarred => taken = sent + Len(held))
      BY <1>1, <1>2 DEF RpcInv, InHand, Active, Tarred, Places
    <2>4. QED
      BY <1>1, <2>1, <2>2, <2>3 DEF InHand, Active, Tarred
  <1>7. FileRight'
    <2>1. CASE Tarred
      BY <1>1, <2>1 DEF RpcInv, FileRight, Active, Tarred, UnpackedIsWhole
    <2>2. CASE ~Tarred
      <3>1. way = "file" /\ sent = size /\ at' = (IF size = 0 THEN "write" ELSE "stat")
        BY <1>1, <1>3, <2>2
      <3>2. ASSUME ~crossed, size # 0 PROVE file = AllOf(size)
        <4>1. Right(file, size) /\ (file = Missing \/ Len(file) <= size)
          BY <1>1, <1>2, <3>1, <3>2 DEF RpcInv, FileRight
        <4>2. Len(Missing) = 1
          BY DEF Missing
        <4>3. Len(file) = size
          <5>1. size <= Len(file) /\ Len(file) \in Nat
            BY <1>2, <4>1 DEF Right
          <5>2. Len(file) <= size
            BY <1>2, <3>2, <4>1, <4>2
          <5>3. QED
            BY <1>2, <5>1, <5>2
        <4>4. QED
          BY <1>2, <4>1, <4>3, AllOfIs
      <3>3. QED
        BY <1>1, <1>2, <3>1, <3>2 DEF RpcInv, FileRight, Active, Tarred, UnpackedIsWhole
    <2>3. QED
      BY <2>1, <2>2
  <1>8. Places'
    BY PlacesStep DEF RpcNext, CopyStep
  <1>9. QED
    BY <1>4, <1>5, <1>6, <1>7, <1>8 DEF RpcInv

LEMMA JoinInv ==
    ASSUME RpcInv, Join PROVE RpcInv'
  <1>1. /\ UNCHANGED <<way, size, calls, sent, held, taken, made, producer, errors, file, unpacked,
                       late, crossed>>
        /\ at = "join" /\ producer = "ended"
        /\ at' = IF errors THEN Raised ELSE IF way = "dir" THEN "stat" ELSE "unpack"
    BY DEF Join, job, tarThread
  <1>2. way \in {"dir", "stream"}
    BY <1>1 DEF RpcInv, Places
  <1>3. at' \in {"raised", "clean up, raise", "stat", "unpack"}
    BY <1>1 DEF Raised
  <1>4. ASSUME at' \in {"stat", "unpack"} PROVE file = AllOf(size)
    <2>1. ~errors
      BY <1>1, <1>2, <1>4 DEF Raised
    <2>2. /\ made = size /\ taken = made /\ taken = sent + Len(held) /\ held = <<>> /\ size \in Nat
          /\ size > 0 /\ sent \in 0 .. size
      BY <1>1, <1>2, <2>1 DEF RpcInv, Tar, InHand, Active, Tarred, CopyTypes
    <2>3. sent = size /\ sent > 0
      BY <2>2
    <2>4. Right(file, sent) /\ Len(file) = sent
      BY <1>1, <1>2, <2>3 DEF RpcInv, FileRight, Active
    <2>5. QED
      BY <2>2, <2>3, <2>4, AllOfIs
  <1>5. CopyTypes' /\ Tar' /\ InHand'
    BY <1>1, <1>3 DEF RpcInv, CopyTypes, Tar, InHand, Active, Tarred
  <1>6. GivenUp'
    <2>1. late = {}
      BY <1>1, <1>2 DEF RpcInv, GivenUp
    <2>2. QED
      BY <1>1, <2>1 DEF GivenUp
  <1>7. FileRight'
    BY <1>1, <1>2, <1>3, <1>4 DEF RpcInv, FileRight, Active, Tarred, UnpackedIsWhole
  <1>8. Places'
    BY PlacesStep DEF RpcNext, CopyStep
  <1>9. QED
    BY <1>5, <1>6, <1>7, <1>8 DEF RpcInv

(* The chunk in hand is written. *)
LEMMA ChunkWrittenInv ==
    ASSUME RpcInv, ChunkWritten PROVE RpcInv'
  <1>1. /\ UNCHANGED <<way, size, calls, taken, made, producer, errors, unpacked, late, crossed>>
        /\ at = "write" /\ sent' = sent + Len(held) /\ held' = <<>>
        /\ at' = IF held = <<>> THEN "stat" ELSE "fill"
        /\ file' = IF way = "stream" THEN file \o held ELSE Written(file, Request)
    BY DEF ChunkWritten, job, tarThread
  <1>2. way \in {"file", "dir", "stream"}
    BY <1>1 DEF RpcInv, Places
  <1>3. /\ size \in Nat /\ sent \in 0 .. size /\ held \in Seq(1 .. size) /\ calls \in 0 .. MaxCalls
        /\ Follows(held, sent) /\ sent + Len(held) <= size
        /\ (held = <<>> <=> size = 0) /\ file \in Seq(Nat) /\ (way # "file" => size > 0)
        /\ crossed \in BOOLEAN
    BY <1>1, <1>2 DEF RpcInv, CopyTypes, InHand, Active
  <1>4. held \in Seq(Nat) /\ Len(held) \in Nat /\ sent' \in 0 .. size
    <2>1. held \in Seq(Nat)
      <3>1. 1 .. size \subseteq Nat
        BY <1>3
      <3>2. QED
        BY <1>3, <3>1, SeqMonotonic
    <2>2. QED
      BY <1>1, <1>3, <2>1
  <1>5. /\ Request.offset = sent /\ Request.data = held
    BY DEF Request
  <1>6. file' \in Seq(Nat) /\ (way = "file" => file' = Missing \/ Len(file') <= size)
    <2>1. CASE way = "stream"
      BY <1>1, <1>3, <1>4, <2>1
    <2>2. CASE way # "stream"
      <3>1. file' = Written(file, Request)
        BY <1>1, <2>2
      <3> DEFINE have == IF Request.offset = 0 \/ file = Missing THEN <<>> ELSE file
                 end == Request.offset + Len(Request.data)
      <3>6. Request.offset \in Nat /\ Request.data \in Seq(Nat)
        BY <1>3, <1>4, <1>5
      <3>7. /\ Written(file, Request) \in Seq(Nat)
            /\ Len(Written(file, Request)) = IF Len(have) > end THEN Len(have) ELSE end
        BY <1>3, <3>6, WrittenIs
      <3>2. /\ file' \in Seq(Nat)
            /\ \/ Len(file') = Len(IF sent = 0 \/ file = Missing THEN <<>> ELSE file)
               \/ Len(file') = sent + Len(held)
        BY <1>5, <3>1, <3>7
      <3>3. way = "file" => file = Missing \/ Len(file) <= size
        BY DEF RpcInv, FileRight
      <3>4. Len(<<>>) <= size
        BY <1>3
      <3>5. QED
        BY <1>3, <3>2, <3>3, <3>4
    <2>3. QED
      BY <2>1, <2>2
  <1>7. (way = "file" => ~crossed) => /\ Right(file', sent')
                                      /\ way # "file" \/ sent = 0 => Len(file') = sent'
    <2> SUFFICES ASSUME way = "file" => ~crossed
                 PROVE  Right(file', sent') /\ (way # "file" \/ sent = 0 => Len(file') = sent')
      OBVIOUS
    <2>1. CASE way = "stream"
      <3>1. Right(file, sent) /\ Len(file) = sent /\ file' = file \o held
        BY <1>1, <2>1 DEF RpcInv, FileRight, Active
      <3>2. sent \in Nat
        BY <1>3
      <3>3. Right(file \o held, sent + Len(held)) /\ Len(file \o held) = sent + Len(held)
        BY <1>3, <1>4, <3>1, <3>2, Joined
      <3>4. QED
        BY <1>1, <3>1, <3>3
    <2>2. CASE way # "stream"
      <3>1. file' = Written(file, Request)
        BY <1>1, <2>2
      <3>2. sent > 0 => Right(file, sent) /\ (way = "dir" => Len(file) = sent)
        BY <1>1, <1>2, <2>2 DEF RpcInv, FileRight, Active
      <3>3. sent = 0 \/ Right(file, sent)
        BY <1>3, <3>2
      <3>4. /\ Right(file', sent + Len(held))
            /\ sent = 0 \/ Len(file) = sent => Len(file') = sent + Len(held)
        BY <1>3, <1>4, <1>5, <3>1, <3>3, WrittenNext
      <3>5. way # "file" => sent = 0 \/ Len(file) = sent
        BY <1>2, <1>3, <2>2, <3>2
      <3>6. QED
        BY <1>1, <3>4, <3>5
    <2>3. QED
      BY <2>1, <2>2
  <1>8. CopyTypes' /\ Tar'
    <2>1. <<>> \in Seq(1 .. size)
      OBVIOUS
    <2>2. QED
      BY <1>1, <1>3, <1>4, <1>6, <2>1 DEF CopyTypes, RpcInv, Tar
  <1>9. InHand'
    <2>1. Len(<<>>) = 0 /\ (Tarred => taken = sent + Len(held))
      BY <1>1 DEF RpcInv, InHand, Active, Tarred
    <2>5. \A k \in 0 .. size : k + 0 <= size /\ k + 0 = k
      BY <1>3
    <2>2. sent' + 0 <= size /\ sent' + 0 = sent'
      BY <1>4, <2>5
    <2>3. at' # "write" /\ at' # "join"
      BY <1>1
    <2>6. Follows(<<>>, sent')
      BY <2>1 DEF Follows
    <2>7. Active' => /\ Follows(held', sent') /\ sent' + Len(held') <= size'
                     /\ Tarred' => taken' = sent' + Len(held')
      BY <1>1, <2>1, <2>2, <2>6 DEF Tarred
    <2>4. QED
      BY <1>1, <2>3, <2>7 DEF InHand
  <1>10. GivenUp'
    BY <1>1 DEF RpcInv, GivenUp
  <1>11. FileRight'
    <2>1. UnpackedIsWhole' /\ way' = way /\ size' = size /\ crossed' = crossed
      BY <1>1 DEF RpcInv, FileRight, UnpackedIsWhole
    <2>2. CASE held # <<>>
      <3>1. at' = "fill"
        BY <1>1, <2>2
      <3>2. QED
        BY <1>2, <1>6, <1>7, <2>1, <3>1 DEF FileRight, Active, Tarred
    <2>3. CASE held = <<>>
      <3>1. at' = "stat" /\ size = 0 /\ way = "file" /\ sent = 0 /\ sent' = 0
        BY <1>1, <1>2, <1>3, <1>4, <2>3
      <3>2. ~crossed => file' = AllOf(size)
        BY <1>3, <1>7, <3>1, AllOfIs
      <3>3. QED
        BY <1>6, <2>1, <3>1, <3>2 DEF FileRight, Active, Tarred
    <2>4. QED
      BY <2>2, <2>3
  <1>12. Places'
    BY PlacesStep DEF RpcNext, CopyStep
  <1>13. QED
    BY <1>8, <1>9, <1>10, <1>11, <1>12 DEF RpcInv

LEMMA ChunkLostInv ==
    ASSUME RpcInv, ChunkLost PROVE RpcInv'
  <1>1. /\ UNCHANGED <<way, size, calls, sent, held, taken, made, producer, errors, file, unpacked, crossed>>
        /\ at = "write" /\ at' = Raised
        /\ late' = IF way = "stream" THEN late ELSE late \cup {Request}
    BY DEF ChunkLost, job, tarThread
  <1>2. way \in {"file", "dir", "stream"} /\ (way = "file" => at' = "raised")
        /\ at' \in {"raised", "clean up, raise"}
    BY <1>1 DEF RpcInv, Places, Raised
  <1>3. /\ size \in Nat /\ sent \in 0 .. size /\ held \in Seq(1 .. size) /\ calls \in 0 .. MaxCalls
        /\ Follows(held, sent) /\ sent + Len(held) <= size
    BY <1>1, <1>2 DEF RpcInv, CopyTypes, InHand, Active
  <1>4. CopyTypes' /\ Tar'
    BY <1>1, <1>2 DEF RpcInv, CopyTypes, Tar
  <1>5. InHand' /\ FileRight'
    BY <1>1, <1>2 DEF RpcInv, InHand, FileRight, Active, Tarred, UnpackedIsWhole
  <1>6. GivenUp'
    <2>1. /\ Request \in [offset : 0 .. size, data : Seq(1 .. size), call : 0 .. MaxCalls]
          /\ Request.offset = sent /\ Request.data = held /\ Request.call = calls
      BY <1>3 DEF Request
    <2>2. Request.call <= calls
      BY <1>3, <2>1
    <2>3. \A m \in late' : m \in late \/ m = Request
      BY <1>1
    <2>4. ASSUME NEW m \in late'
          PROVE  /\ m \in [offset : 0 .. size, data : Seq(1 .. size), call : 0 .. MaxCalls]
                 /\ Follows(m.data, m.offset) /\ m.offset + Len(m.data) <= size
                 /\ m.call <= calls
      <3>1. CASE m \in late
        BY <3>1 DEF RpcInv, GivenUp
      <3>2. CASE m = Request
        BY <1>3, <2>1, <2>2, <3>2
      <3>3. QED
        BY <2>3, <3>1, <3>2
    <2>5. late' # {} => way = "file" \/ way = "dir"
      BY <1>1, <1>2 DEF RpcInv, GivenUp
    <2>6. QED
      BY <1>1, <1>2, <2>4, <2>5 DEF GivenUp
  <1>7. Places'
    BY PlacesStep DEF RpcNext
  <1>8. QED
    BY <1>4, <1>5, <1>6, <1>7 DEF RpcInv

LEMMA LateWriteInv ==
    ASSUME RpcInv, NEW m \in late, LateWrite(m) PROVE RpcInv'
  <1>1. /\ UNCHANGED <<way, size, calls, at, sent, held, taken, made, producer, errors, unpacked>>
        /\ late' = late \ {m}
        /\ \/ /\ file' = Written(file, m)
              /\ crossed' = (crossed \/ (m.offset = 0 /\ m.call < calls))
           \/ UNCHANGED <<file, crossed>>
    BY DEF LateWrite, job, tarThread
  <1>2. /\ m.offset \in 0 .. size /\ m.data \in Seq(1 .. size)
        /\ Follows(m.data, m.offset) /\ m.offset + Len(m.data) <= size
        /\ way = "file" /\ at # "raised" => m.call < calls
        /\ way = "file" \/ (way = "dir" /\ at \in {"clean up, raise", "raised"})
    BY DEF RpcInv, GivenUp
  <1>3. size \in Nat /\ sent \in 0 .. size /\ file \in Seq(Nat) /\ crossed \in BOOLEAN
    BY DEF RpcInv, CopyTypes
  <1>4. m.offset \in Nat /\ m.data \in Seq(Nat) /\ Len(m.data) \in Nat
    <2>1. 1 .. size \subseteq Nat
      BY <1>3
    <2>2. m.data \in Seq(Nat)
      BY <1>2, <2>1, SeqMonotonic
    <2>3. m.offset \in 0 .. size
      BY <1>2
    <2>4. m.offset \in Nat
      BY <1>3, <2>3
    <2>5. QED
      BY <2>2, <2>4
  <1>5. /\ file' \in Seq(Nat) /\ crossed' \in BOOLEAN
        /\ way = "file" => file' = Missing \/ Len(file') <= size
    <2>1. way = "file" => file = Missing \/ Len(file) <= size
      BY DEF RpcInv, FileRight
    <2>2. CASE UNCHANGED <<file, crossed>>
      BY <1>3, <2>1, <2>2
    <2>3. CASE file' = Written(file, m) /\ crossed' = (crossed \/ (m.offset = 0 /\ m.call < calls))
      <3> DEFINE have == IF m.offset = 0 \/ file = Missing THEN <<>> ELSE file
                 end == m.offset + Len(m.data)
      <3>1. /\ file' \in Seq(Nat)
            /\ Len(file') = IF Len(have) > end THEN Len(have) ELSE end
        BY <1>3, <1>4, <2>3, WrittenIs
      <3>2. way = "file" => Len(have) <= size
        BY <1>3, <2>1
      <3> HIDE DEF have
      <3>3. way = "file" => Len(file') <= size
        BY <1>2, <1>3, <3>1, <3>2
      <3>4. crossed' \in BOOLEAN
        BY <1>3, <2>3
      <3>5. QED
        BY <3>1, <3>3, <3>4
    <2>4. QED
      BY <1>1, <2>2, <2>3
  <1>6. ASSUME way = "file", ~crossed', at \in {"fill", "write", "stat", "ok"},
               NEW k \in Nat \ {0}, Right(file, k)
        PROVE  Right(file', k) /\ ~crossed
    <2>1. CASE UNCHANGED <<file, crossed>>
      BY <1>6, <2>1
    <2>2. CASE file' = Written(file, m) /\ crossed' = (crossed \/ (m.offset = 0 /\ m.call < calls))
      <3>1. ~crossed /\ m.offset # 0
        BY <1>2, <1>6, <2>2
      <3>2. m.offset \in Nat \ {0}
        BY <1>4, <3>1
      <3>3. Right(Written(file, m), k)
        BY <1>2, <1>3, <1>4, <1>6, <3>2, WrittenLate
      <3>4. QED
        BY <2>2, <3>1, <3>3
    <2>3. QED
      BY <1>1, <2>1, <2>2
  <1>7. ~crossed' => ~crossed
    BY <1>1
  <1>8. way = "file" /\ ~crossed' /\ at \in {"fill", "write"} /\ sent > 0 => Right(file', sent)
    <2> SUFFICES ASSUME way = "file", ~crossed', at \in {"fill", "write"}, sent > 0
                 PROVE  Right(file', sent)
      OBVIOUS
    <2>1. Right(file, sent) /\ sent \in Nat \ {0}
      BY <1>3, <1>7 DEF RpcInv, FileRight
    <2>2. QED
      BY <1>6, <2>1
  <1>9. way = "file" /\ ~crossed' /\ at \in {"stat", "ok"} => file' = AllOf(size)
    <2> SUFFICES ASSUME way = "file", ~crossed', at \in {"stat", "ok"}
                 PROVE  file' = AllOf(size)
      OBVIOUS
    <2>1. file = AllOf(size)
      BY <1>7 DEF RpcInv, FileRight
    <2>2. CASE size = 0
      <3>1. m.offset = 0 /\ m.call < calls
        BY <1>2, <2>2
      <3>2. UNCHANGED file
        BY <1>1, <3>1
      <3>3. QED
        BY <2>1, <3>2
    <2>3. CASE size # 0
      <3>1. Right(file, size) /\ size \in Nat \ {0}
        BY <1>3, <2>1, <2>3, AllOfIs
      <3>2. Right(file', size)
        BY <1>6, <3>1
      <3>3. Len(Missing) = 1 /\ Len(file') \in Nat /\ size <= Len(file')
        BY <1>5, <3>2 DEF Missing, Right
      <3>6. file' = Missing \/ Len(file') <= size
        BY <1>5
      <3>7. Len(file') <= size
        BY <3>1, <3>3, <3>6
      <3>4. Len(file') = size
        BY <3>1, <3>3, <3>7
      <3>5. QED
        BY <1>3, <3>2, <3>4, AllOfIs
    <2>4. QED
      BY <2>2, <2>3
  <1>10. CopyTypes' /\ Tar' /\ InHand'
    BY <1>1, <1>5 DEF RpcInv, CopyTypes, Tar, InHand, Active, Tarred
  <1>11. GivenUp'
    BY <1>1 DEF RpcInv, GivenUp
  <1>12. FileRight'
    <2>1. UnpackedIsWhole' /\ way # "stream" /\ (way = "dir" => at \in {"clean up, raise", "raised"})
      BY <1>1, <1>2 DEF RpcInv, FileRight, UnpackedIsWhole
    <2>2. way \notin {"fetch", "get"} /\ at # "fetch"
      BY <1>2 DEF RpcInv, Places
    <2>3. QED
      BY <1>1, <1>5, <1>8, <1>9, <2>1, <2>2 DEF FileRight, Active, Tarred
  <1>13. Places'
    BY PlacesStep DEF RpcNext
  <1>14. QED
    BY <1>10, <1>11, <1>12, <1>13 DEF RpcInv

(* The last calls of a copy to the sandbox, and unpacking. *)
LEMMA LastCallsInv ==
    ASSUME RpcInv, NEW ok \in BOOLEAN, Stat(ok) \/ Unpack(ok) \/ CleanUp(ok) PROVE RpcInv'
  <1>1. UNCHANGED <<way, size, calls, sent, held, taken, made, producer, errors, late, crossed>>
    BY DEF Stat, Unpack, CleanUp, job, tarThread
  <1>2. at' \notin {"idle", "fill", "write", "join", "stat", "pack", "fetch"}
    BY DEF Stat, Unpack, CleanUp, Raised
  <1>3. size \in Nat /\ file \in Seq(Nat)
    BY DEF RpcInv, CopyTypes
  <1>4. file' \in Seq(Nat)
    <2>1. Missing \in Seq(Nat)
      BY DEF Missing
    <2>2. QED
      BY <1>3, <2>1 DEF Stat, Unpack, CleanUp
  <1>5. CopyTypes' /\ Tar' /\ InHand'
    BY <1>1, <1>2, <1>4 DEF RpcInv, CopyTypes, Tar, InHand, Active
  <1>6. GivenUp'
    <2>1. way = "file" => at = "stat"
      BY DEF Stat, Unpack, CleanUp, RpcInv, Places
    <2>2. way = "dir" /\ late # {} => at = "clean up, raise" /\ at' = "raised"
      BY DEF Stat, Unpack, CleanUp, RpcInv, GivenUp
    <2>3. QED
      BY <1>1, <2>1, <2>2 DEF RpcInv, GivenUp
  <1>7. FileRight'
    <2>1. UnpackedIsWhole'
      <3>1. CASE Unpack(ok)
        BY <1>1, <3>1 DEF Unpack, RpcInv, FileRight, Places, UnpackedIsWhole, Tarred
      <3>2. CASE ~Unpack(ok)
        BY <1>1, <3>2 DEF Stat, CleanUp, RpcInv, FileRight, UnpackedIsWhole
      <3>3. QED
        BY <3>1, <3>2
    <2>2. way = "file" => UNCHANGED file /\ at' \in {"ok", "raised"} /\ at = "stat"
      BY DEF Stat, Unpack, CleanUp, RpcInv, Places, Raised
    <2>3. at' = "unpack" => /\ way = "dir" => UNCHANGED file /\ at = "stat"
                            /\ way = "fetch" => at = "clean up, unpack"
                            /\ way \notin {"stream", "get"}
      BY DEF Stat, Unpack, CleanUp, RpcInv, Places, Raised
    <2>4. /\ way = "file" => file = Missing \/ Len(file) <= size
          /\ way = "file" /\ ~crossed /\ at = "stat" => file = AllOf(size)
          /\ way = "dir" /\ at = "stat" => file = AllOf(size)
          /\ way = "fetch" /\ at = "clean up, unpack" => held = AllOf(size)
      BY DEF RpcInv, FileRight, Tarred
    <2>5. way' = "file" => file' = Missing \/ Len(file') <= size'
      BY <1>1, <2>2, <2>4
    <2>6. way' = "file" /\ ~crossed' /\ at' = "ok" => file' = AllOf(size')
      BY <1>1, <2>2, <2>4
    <2>7. Tarred' /\ at' = "unpack" => file' = AllOf(size')
      BY <1>1, <2>3, <2>4 DEF Tarred
    <2>8. way' \in {"fetch", "get"} /\ at' = "unpack" => held' = AllOf(size')
      BY <1>1, <2>3, <2>4
    <2>9. at' # "clean up, unpack"
      BY DEF Stat, Unpack, CleanUp, Raised
    <2>10. QED
      BY <1>2, <2>1, <2>5, <2>6, <2>7, <2>8, <2>9 DEF FileRight, Active
  <1>8. Places'
    BY PlacesStep DEF RpcNext, CopyStep
  <1>9. QED
    BY <1>5, <1>6, <1>7, <1>8 DEF RpcInv

(* A directory is fetched. *)
LEMMA FetchInv ==
    ASSUME RpcInv, Fetch \/ \E ok \in BOOLEAN : Pack(ok) PROVE RpcInv'
  <1>1. UNCHANGED <<way, size, calls, taken, made, producer, errors, unpacked, late, crossed>>
    BY DEF Fetch, Pack, job, tarThread
  <1>2. way \in {"fetch", "get"} /\ late = {} /\ size \in Nat /\ size > 0 /\ file \in Seq(Nat) /\ sent \in 0 .. size
    BY DEF Fetch, Pack, RpcInv, Places, CopyTypes, GivenUp
  <1>3. at' \in {"fetch", "clean up, raise", "clean up, unpack", "unpack", "raised"}
    BY <1>2 DEF Fetch, FetchChunk, FetchFails, Pack, Raised
  <1>4. GivenUp'
    BY <1>1, <1>2 DEF GivenUp
  <1>5. InHand' /\ Tar'
    BY <1>1, <1>2, <1>3 DEF RpcInv, InHand, Active, Tar
  <1>6. UnpackedIsWhole'
    BY <1>1 DEF RpcInv, FileRight, UnpackedIsWhole
  <1>7. Places'
    BY PlacesStep DEF RpcNext, CopyStep
  <1>8. CASE Fetch /\ FetchChunk
    <2> DEFINE e == Pick(sent + RpcChunk, size)
               u == SubSeq(AllOf(size), sent + 1, e)
    <2>1. /\ file = AllOf(size) /\ sent < size /\ held = AllOf(sent) /\ file' = file
      BY <1>8 DEF Fetch, RpcInv, FileRight
    <2>2. /\ held' = held \o u /\ sent' = Len(held')
          /\ at' = IF sent' < size THEN "fetch" ELSE IF way = "get" THEN "unpack" ELSE "clean up, unpack"
      BY <1>8, <2>1 DEF FetchChunk
    <2>3. RpcChunk \in Nat \ {0}
      BY RpcAssumption
    <2>4. e \in sent .. size /\ sent + (e - sent) = e /\ sent \in Nat
      BY <1>2, <2>1, <2>3 DEF Pick
    <2> HIDE DEF e
    <2>5. u \in Seq(1 .. size) /\ Len(u) = e - sent /\ Follows(u, sent)
      BY <1>2, <2>4, NextUnits
    <2> HIDE DEF u
    <2>6. u \in Seq(Nat)
      <3>1. 1 .. size \subseteq Nat
        BY <1>2
      <3>2. QED
        BY <2>5, <3>1, SeqMonotonic
    <2>7. Right(held, sent) /\ Len(held) = sent
      BY <2>1, <2>4, AllOfIs
    <2>8. Right(held', e) /\ Len(held') = e
      <3>1. Right(held \o u, sent + Len(u)) /\ Len(held \o u) = sent + Len(u)
        BY <2>4, <2>5, <2>6, <2>7, Joined
      <3>2. QED
        BY <2>2, <2>4, <2>5, <3>1
    <2>14. e \in 0 .. size /\ e \in Nat
      BY <1>2, <2>4
    <2>9. held' = AllOf(e) /\ sent' = e /\ e \in 0 .. size /\ e \in Nat
      BY <2>2, <2>8, <2>14, AllOfIs
    <2>10. held' \in Seq(1 .. size)
      <3>1. held' \in Seq(1 .. e) /\ 1 .. e \subseteq 1 .. size
        BY <1>2, <2>9, AllOfIs
      <3>2. QED
        BY <3>1, SeqMonotonic
    <2>11. CopyTypes'
      BY <1>1, <1>2, <2>1, <2>9, <2>10 DEF RpcInv, CopyTypes
    <2>12. FileRight'
      <3>1. at' = "fetch" => sent' < size
        BY <1>2, <2>2, <2>9
      <3>2. at' \in {"clean up, unpack", "unpack"} => e = size
        <4>1. at' \in {"clean up, unpack", "unpack"} => ~(sent' < size)
          BY <2>2
        <4>2. ~(sent' < size) => e = size
          BY <1>2, <2>9
        <4>3. QED
          BY <4>1, <4>2
      <3>3. way' \in {"fetch", "get"} /\ size' = size /\ at' \in {"fetch", "clean up, unpack", "unpack"}
        BY <1>1, <1>2, <2>2
      <3>4. at' = "fetch" => file' = AllOf(size') /\ sent' < size' /\ held' = AllOf(sent')
        BY <1>1, <2>1, <2>9, <3>1
      <3>5. at' \in {"clean up, unpack", "unpack"} => held' = AllOf(size')
        BY <1>1, <2>9, <3>2
      <3>6. QED
        BY <1>6, <3>3, <3>4, <3>5 DEF FileRight, Active, Tarred
    <2>13. QED
      BY <1>4, <1>5, <1>7, <2>11, <2>12 DEF RpcInv
  <1>9. CASE Fetch /\ FetchFails
    <2>1. UNCHANGED <<sent, held, file>> /\ at' \in {"clean up, raise", "raised"}
      BY <1>2, <1>9 DEF Fetch, FetchFails, Raised
    <2>2. CopyTypes' /\ FileRight'
      BY <1>1, <1>2, <1>6, <2>1 DEF RpcInv, CopyTypes, FileRight, Active, Tarred
    <2>3. QED
      BY <1>4, <1>5, <1>7, <2>2 DEF RpcInv
  <1>10. ASSUME NEW ok \in BOOLEAN, Pack(ok) PROVE RpcInv'
    <2>1. /\ UNCHANGED <<sent, held>> /\ at' \in (IF ok THEN {"fetch"} ELSE {"clean up, raise", "raised"})
          /\ file' = (IF ok THEN AllOf(size) ELSE file) /\ at = "pack"
      BY <1>2, <1>10 DEF Pack, Raised
    <2>2. file' \in Seq(Nat)
      BY <1>2, <2>1, AllOfIs
    <2>3. CopyTypes'
      BY <1>1, <2>1, <2>2 DEF RpcInv, CopyTypes
    <2>4. at' = "fetch" => file' = AllOf(size) /\ sent < size /\ held = AllOf(sent)
      <3>1. sent = 0 /\ held = <<>>
        BY <2>1 DEF RpcInv, InHand
      <3>2. AllOf(0) \in Seq(Nat) /\ Len(AllOf(0)) = 0
        BY AllOfIs
      <3>3. QED
        BY <1>2, <2>1, <3>1, <3>2
    <2>5. FileRight'
      BY <1>1, <1>2, <1>3, <1>6, <2>1, <2>4 DEF FileRight, Active, Tarred
    <2>6. QED
      BY <1>4, <1>5, <1>7, <2>3, <2>5 DEF RpcInv
  <1>11. QED
    BY <1>8, <1>9, <1>10 DEF Fetch

LEMMA RpcStepInv ==
    ASSUME RpcInv, RpcNext PROVE RpcInv'
  BY TarStep, CopyBeginsInv, TakeUnitInv, NextChunkInv, NoMoreChunksInv, JoinInv, ChunkWrittenInv,
     ChunkLostInv, LateWriteInv, LastCallsInv, FetchInv DEF RpcNext, CopyStep

-----------------------------------------------------------------------------
LEMMA UploadKept ==
    ASSUME UploadInv, UNCHANGED vars PROVE UploadInv'
  BY DEF vars, client, UploadInv, ChunkTypes, WireTypes, PartTypes, Behind, InPlace

LEMMA DownloadKept ==
    ASSUME DownloadInv, UNCHANGED download PROVE DownloadInv'
  BY DEF download, DownloadInv, DownloadTypeOK, Running, FileTypes, PartThere, Prefix, Continues

LEMMA InOrderKept ==
    ASSUME InOrder, UNCHANGED download PROVE InOrder'
  BY DEF download, InOrder, Numbered

LEMMA RpcKept ==
    ASSUME RpcInv, UNCHANGED copying PROVE RpcInv'
  <1>1. UNCHANGED <<way, size, at, calls, sent, held, made, taken, producer, errors, file, unpacked,
                    late, crossed>>
    BY DEF copying
  <1>2. Places' /\ CopyTypes'
    BY <1>1 DEF RpcInv, Places, CopyTypes
  <1>5. Tar' /\ InHand'
    BY <1>1 DEF RpcInv, Tar, InHand, Active, Tarred
  <1>3. GivenUp' /\ FileRight'
    BY <1>1 DEF RpcInv, GivenUp, FileRight, Active, Tarred, UnpackedIsWhole
  <1>4. QED
    BY <1>2, <1>3, <1>5 DEF RpcInv

LEMMA CopyStepInv ==
    ASSUME CopyInv, [CopyNext]_all PROVE CopyInv'
  <1>1. CASE Uploads
    BY <1>1, UploadStepInv, DownloadKept, InOrderKept, RpcKept DEF Uploads, CopyInv
  <1>2. CASE Downloads
    BY <1>2, UploadKept, DownloadStepInv, InOrderStep, RpcKept DEF Downloads, CopyInv
  <1>3. CASE Rpc(RpcNext)
    BY <1>3, UploadKept, DownloadKept, InOrderKept, RpcStepInv DEF Rpc, CopyInv
  <1>4. CASE UNCHANGED all
    BY <1>4, UploadKept, DownloadKept, InOrderKept, RpcKept DEF all, CopyInv
  <1>5. QED
    BY <1>1, <1>2, <1>3, <1>4 DEF CopyNext

LEMMA CopyInvariant == CopySpec => []CopyInv
  <1>0. DownloadInit => InOrder
    BY DEF DownloadInit, InOrder
  <1>1. CopyInit => CopyInv
    BY <1>0, UploadInitInv, DownloadInitInv, RpcInitInv DEF CopyInit, CopyInv
  <1>2. CopyInv /\ [CopyNext]_all => CopyInv'
    BY CopyStepInv
  <1>3. QED
    BY <1>1, <1>2, PTL DEF CopySpec

(* Type correctness of all three ways to copy: offsets within the file,    *)
(* attempts within their limits.                                           *)
THEOREM CopyTypesHold == CopySpec => [](TypeOK /\ DownloadTypeOK /\ RpcTypeOK)
  <1>1. CopyInv => TypeOK
    BY DEF CopyInv, UploadInv, ChunkTypes, WireTypes, PartTypes, TypeOK
  <1>2. CopyInv => DownloadTypeOK
    BY DEF CopyInv, DownloadInv
  <1>3. CopyInv => RpcTypeOK
    BY DEF CopyInv, RpcInv, CopyTypes, Tar, GivenUp, RpcTypeOK
  <1>4. QED
    BY <1>1, <1>2, <1>3, CopyInvariant, PTL

(* Whatever replies are lost, whenever chunks arrive, however the local    *)
(* file shrinks: _upload_file_resumable skips nothing, and puts nothing    *)
(* wrong into the partial file before it sends a chunk at a moved offset.  *)
THEOREM UploadKeepsPlaces == CopySpec => []PartialIsPrefix
  <1>1. ASSUME CopyInv PROVE PartialIsPrefix
    <2>1. /\ part \in Seq(1 .. Total) /\ Total \in Nat /\ offset <= Len(part) /\ Len(part) <= Total
          /\ ~stale => Follows(part, 0)
      BY <1>1, ConstantsAssumption DEF CopyInv, UploadInv, PartTypes, Behind, InPlace
    <2>2. ASSUME ~stale PROVE part = SubSeq(Source, 1, Len(part))
      <3> DEFINE first == SubSeq(Source, 1, Len(part))
      <3>1. Source \in Seq(1 .. Total) /\ Len(Source) = Total /\ \A i \in 1 .. Total : Source[i] = i
        BY <2>1 DEF Source
      <3>2. /\ first \in Seq(1 .. Total) /\ Len(first) = Len(part)
            /\ \A i \in 1 .. Len(part) : first[i] = Source[i] /\ i \in 1 .. Total
        BY <2>1, <3>1
      <3> HIDE DEF first
      <3>3. \A i \in 1 .. Len(part) : part[i] = 0 + i /\ 0 + i = i
        BY <2>1, <2>2 DEF Follows
      <3>4. \A i \in 1 .. Len(part) : part[i] = first[i]
        BY <3>1, <3>2, <3>3
      <3>5. part = first
        BY <2>1, <3>2, <3>4, SeqEqual
      <3>6. QED
        BY <3>5 DEF first
    <2>3. QED
      BY <2>1, <2>2 DEF PartialIsPrefix
  <1>2. QED
    BY <1>1, CopyInvariant, PTL

(* What _upload_commit puts in place is the source, but for that one flaw: *)
(* a chunk sent again after _upload_status moved the offset.  A small file *)
(* that is sent in one request is put in place whole.                      *)
THEOREM CommittedUnlessStale == CopySpec => [](~stale => CommittedIsSource)
  <1>1. ASSUME CopyInv, ~stale PROVE CommittedIsSource
    <2>1. /\ part \in Seq(1 .. Total) /\ Total \in Nat /\ Follows(part, 0)
          /\ remote \in {NoFile, Source} \/ (remote = part /\ Len(part) = Total)
      BY <1>1, ConstantsAssumption DEF CopyInv, UploadInv, PartTypes, InPlace
    <2>2. ASSUME Len(part) = Total PROVE part = Source
      BY <2>1, <2>2, AllInPlace
    <2>3. QED
      BY <2>1, <2>2 DEF CommittedIsSource
  <1>2. CopyInv => (~stale => CommittedIsSource)
    BY <1>1
  <1>3. QED
    BY <1>2, CopyInvariant, PTL

(* The .part file of copy_to_local is a prefix of the remote file after    *)
(* any number of broken streams, ignored ranges, crashes and calls.        *)
THEOREM DownloadKeepsPrefix == CopySpec => []PartIsPrefix
  <1>1. CopyInv => PartIsPrefix
    BY PrefixIs DEF CopyInv
  <1>2. QED
    BY <1>1, CopyInvariant, PTL

(* os.replace moves a file into place that has every unit at its place, of *)
(* whichever version, and that is a whole file of one version unless the   *)
(* remote file changed while there was a .part.                            *)
THEOREM DownloadReplacesWhole == CopySpec => ReplacedIsWhole
  <1> DEFINE A == local' # local => Placed(local') /\ (~mixed => local' = Content(remoteFile))
  <1>1. CopyInv /\ [CopyNext]_all => [A]_download
    <2> SUFFICES ASSUME CopyInv, [CopyNext]_all, local' # local
                 PROVE  Placed(local') /\ (~mixed => local' = Content(remoteFile))
      OBVIOUS
    <2>1. Downloads
      BY DEF CopyNext, Uploads, Rpc, all, download
    <2>2. Replace
      BY <2>1 DEF Downloads, DownloadNext, DownloadStep, BeginDirect, BeginRpc, Whole, Partial, Stream,
         RangeRefused, Refused, WriteChunk, StreamDone, Broken, ReadRpc, RpcFails, Crash, RemoteWritten
    <2>3. QED
      BY <2>2, ReplacesPlaced, ReplacesWhole DEF CopyInv
  <1>2. QED
    BY <1>1, CopyInvariant, PTL DEF CopySpec, ReplacedIsWhole

(* A file copied by RuntimeRPC chunks is whole when copy_from_local        *)
(* returns, whatever writes of earlier calls are still on their way,       *)
(* unless the first of them, which truncates, comes after the next call.   *)
THEOREM RpcFileWhole == CopySpec => []RpcFileIsSource
  <1>1. CopyInv => RpcFileIsSource
    BY DEF CopyInv, RpcInv, FileRight, RpcFileIsSource
  <1>2. QED
    BY <1>1, CopyInvariant, PTL

(* tar never extracts a cut archive, in either direction. *)
THEOREM ArchiveWhole == CopySpec => []UnpackedIsWhole
  <1>1. CopyInv => UnpackedIsWhole
    BY DEF CopyInv, RpcInv, FileRight
  <1>2. QED
    BY <1>1, CopyInvariant, PTL

=============================================================================
