------------------------------ MODULE ChunkQueue ------------------------------
(***************************************************************************)
(* The chunk queues of mchunk.c: a source queue that bytes come into and a *)
(* destination queue that they are moved to and written from.              *)
(*                                                                         *)
(* A queue is a list of chunks, each with its bytes in memory or in a file *)
(* and an offset before which they are consumed, plus a pool of chunks for *)
(* reuse and two byte counters.  A chunk that returns to the pool keeps    *)
(* its offset, because chunk_reset does not clear it; some operations      *)
(* clear it when they take a chunk from the pool and some do not.  A       *)
(* pooled chunk is therefore represented by that offset, which is all the  *)
(* next user can see of its past.                                          *)
(*                                                                         *)
(* A byte is the number of its arrival, so that loss, duplication and      *)
(* reordering can be seen.  Each call is one step, except that moving      *)
(* bytes into temporary files takes a step per write(): its outcomes       *)
(* (all, some, EINTR, ENOSPC, another error) are what the code branches    *)
(* on.  Buffer sizes are left out: whether the buffer of the last chunk    *)
(* has room is a free choice in GetMemory.                                 *)
(***************************************************************************)
EXTENDS Integers, Sequences

CONSTANTS
  PoolMax,      \* chunks a queue keeps for reuse, 5 in the code
  TempDirs,     \* number of cq->tempdirs
  UploadLimit,  \* cq->upload_temp_file_size
  MaxPiece,     \* bound of the model: bytes of one append
  MaxBytes,     \* bound of the model: bytes that arrive between resets
  MaxQueued,    \* bound of the model: bytes in dst when a move to files starts
  MaxStale      \* bound of the model: uses of an old offset after which no
                \* further call is made

ASSUME LimitsAssumption ==
  /\ PoolMax \in Nat \ {0} /\ TempDirs \in Nat \ {0} /\ UploadLimit \in Nat
  /\ MaxPiece \in Nat \ {0} /\ MaxBytes \in Nat
  /\ MaxQueued \in Nat /\ MaxStale \in Nat

VARIABLES
  src, dst,   \* the queues
  tempdir_idx,\* dst->tempdir_idx
  pc,         \* "idle", or the call chunkqueue_steal_with_tempfiles is in
  len,        \* its argument len, counting down
  piece,      \* bytes of the current memory chunk that it moves, `use'
  todo,       \* bytes chunkqueue_append_mem_to_tempfile has still to write
  close_rc,   \* result of the last close() on the error path
  log,        \* last message of the error path
  arrived,    \* history: bytes that came in
  out,        \* history: bytes marked as written, in order
  failed      \* history: a move into temporary files failed half-way

queues  == <<src, dst>>
callVars == <<tempdir_idx, pc, len, piece, todo, close_rc, log>>
history == <<arrived, out, failed>>
vars    == <<queues, callVars, history>>

-----------------------------------------------------------------------------
(***************************************************************************)
(* Chunks and queues                                                       *)
(***************************************************************************)
Chunk(type, data) ==
  [type |-> type, data |-> data, offset |-> 0, temp |-> FALSE, open |-> FALSE]
TempFile == [Chunk("file", <<>>) EXCEPT !.temp = TRUE, !.open = TRUE]

\* `stale' is history: how often a pooled chunk was used with its old offset.
EmptyQueue == [chunks |-> <<>>, pool |-> <<>>, bytes_in |-> 0, bytes_out |-> 0,
               stale |-> 0]

\* chunk_remaining_length; negative for a chunk with too large an old offset.
Remaining(c) == Len(c.data) - c.offset

\* The bytes of a chunk that are still to be consumed.
Unread(c) == SubSeq(c.data, c.offset + 1, Len(c.data))

\* chunkqueue_length.
Length(chunks) ==
  LET upto[n \in 0 .. Len(chunks)] ==
        IF n = 0 THEN 0 ELSE upto[n - 1] + Remaining(chunks[n])
  IN  upto[Len(chunks)]

\* The bytes of a queue, in order.
Content(chunks) ==
  LET upto[n \in 0 .. Len(chunks)] ==
        IF n = 0 THEN <<>> ELSE upto[n - 1] \o Unread(chunks[n])
  IN  upto[Len(chunks)]

IsEmpty(q) == q.chunks = <<>>
LastChunk(q) == q.chunks[Len(q.chunks)]

\* chunkqueue_get_unused_chunk: the offset of the chunk it returns, and the
\* queue without it.
UnusedOffset(q) == IF q.pool = <<>> THEN 0 ELSE Head(q.pool)
TakeUnused(q)   == IF q.pool = <<>> THEN q ELSE [q EXCEPT !.pool = Tail(@)]

\* chunkqueue_push_unused_chunk.
PushUnused(q, c) ==
  IF Len(q.pool) > PoolMax - 1 THEN q ELSE [q EXCEPT !.pool = <<c.offset>> \o @]

\* Faulty variant: the whole chunk is counted, consumed bytes included.
AppendChunk_CountsAll(q, c) ==
  [q EXCEPT !.chunks = Append(@, c), !.bytes_in = @ + Len(c.data)]

\* chunkqueue_append_chunk.
AppendChunk(q, c) ==
  [q EXCEPT !.chunks = Append(@, c), !.bytes_in = @ + Remaining(c)]

\* The chunk at the head goes to the pool.
DropFirst(q) == PushUnused([q EXCEPT !.chunks = Tail(@)], Head(q.chunks))

\* chunkqueue_append_file, _append_file_fd, _append_buffer: the offset of the
\* chunk is cleared.
AppendFresh(q, c) == AppendChunk(TakeUnused(q), c)

\* chunkqueue_append_mem, _prepend_buffer, and the new chunk of _get_memory and
\* _get_append_tempfile: the offset is the one the chunk had before.
AppendStale(q, c) ==
  [AppendChunk(TakeUnused(q), [c EXCEPT !.offset = UnusedOffset(q)])
     EXCEPT !.stale = IF UnusedOffset(q) = 0 THEN @ ELSE @ + 1]

\* A loop from s on that is over after n turns: each of them takes a chunk or
\* comes to the next, or else is the last one, and then a turn changes nothing.
Loop(Turn(_), n, s) ==
  LET after[i \in 0 .. n] == IF i = 0 THEN s ELSE Turn(after[i - 1])
  IN  after[n]

\* chunkqueue_remove_finished_chunks.
FinishedTurn(q) ==
  IF ~IsEmpty(q) /\ Remaining(Head(q.chunks)) = 0 THEN DropFirst(q) ELSE q
RemoveFinished(q) == Loop(FinishedTurn, Len(q.chunks), q)

\* The offset of the chunk at the head moves by k.
Advance(q, k) == [q EXCEPT !.chunks[1].offset = @ + k]

\* The loop of chunkqueue_mark_written.  A chunk that is taken off has been
\* consumed to its end, which is the offset it keeps in the pool.
WriteTurn(s) ==
  LET q == s.queue
      c == Head(q.chunks)
  IN  IF IsEmpty(q) \/ (s.left = 0 /\ Remaining(c) # 0) THEN s
      ELSE IF s.left >= Remaining(c)
      THEN [queue |-> DropFirst(Advance(q, Remaining(c))), left |-> s.left - Remaining(c)]
      ELSE [queue |-> Advance(q, s.left), left |-> 0]
Written(q, k) == Loop(WriteTurn, Len(q.chunks), [queue |-> q, left |-> k]).queue

MarkWritten(q, k) == [Written(q, k) EXCEPT !.bytes_out = @ + k]

\* The loop of chunkqueue_steal: whole chunks change the queue, a part is copied.
StealTurn(s) ==
  LET c == Head(s.from.chunks)
      use == IF s.left >= Remaining(c) THEN Remaining(c) ELSE s.left
      out_of == [s.from EXCEPT !.bytes_out = @ + use]
      part == SubSeq(c.data, c.offset + 1, c.offset + use)
  IN  IF s.left <= 0 \/ IsEmpty(s.from) THEN s
      ELSE IF Remaining(c) = 0 THEN [s EXCEPT !.from = DropFirst(@)]
      ELSE IF use = Remaining(c)
      THEN [to |-> AppendChunk(s.to, c), from |-> [out_of EXCEPT !.chunks = Tail(@)],
            left |-> s.left - use]
      ELSE [to |-> IF c.type = "mem" THEN AppendStale(s.to, Chunk("mem", part))
                                     ELSE AppendFresh(s.to, Chunk("file", part)),
            from |-> Advance(out_of, use), left |-> 0]
Steal(to, from, k) ==
  Loop(StealTurn, Len(from.chunks), [to |-> to, from |-> from, left |-> k])

\* The loop of chunkqueue_remove_empty_chunks looks at the chunk behind the i-th.
\* It steps on after removing a chunk, and crashes when that was the last one.
SweepTurn(s) ==
  LET q == s.queue
      c == q.chunks[s.i + 1]
      rest == [q EXCEPT !.chunks = SubSeq(@, 1, s.i) \o SubSeq(@, s.i + 2, Len(@))]
  IN  IF s.crash \/ s.i >= Len(q.chunks) THEN s
      ELSE IF Remaining(c) # 0 THEN [s EXCEPT !.i = @ + 1]
      ELSE [queue |-> PushUnused(rest, c), i |-> s.i + 1, crash |-> s.i + 1 = Len(q.chunks)]

RemoveEmpty(q) ==
  LET p == RemoveFinished(q)
      begin == [queue |-> p, i |-> 1, crash |-> FALSE]
  IN  IF IsEmpty(p) THEN begin ELSE Loop(SweepTurn, Len(p.chunks), begin)

\* chunkqueue_reset pushes a chunk to the pool before it follows its `next',
\* which leads into the pool then: with a filled pool it ends up reading a
\* chunk it has freed, and with an empty one it drops all chunks but the first.
ResetCrashes(q) == ~IsEmpty(q) /\ q.pool # <<>>
ResetQueue(q) ==
  [EmptyQueue EXCEPT !.stale = q.stale,
                     !.pool = IF IsEmpty(q) THEN q.pool
                              ELSE PushUnused(q, Head(q.chunks)).pool]

-----------------------------------------------------------------------------
ChunkRecord ==
  [type : {"mem", "file"}, data : Seq(Nat), offset : Nat, temp : BOOLEAN, open : BOOLEAN]
Queue ==
  [chunks : Seq(ChunkRecord), pool : Seq(Nat), bytes_in : Int, bytes_out : Int, stale : Nat]

TypeOK ==
  /\ src \in Queue /\ dst \in Queue
  /\ tempdir_idx \in 0 .. TempDirs
  /\ pc \in {"idle", "steal", "tempfile", "write", "fault"}
  /\ len \in Int
  /\ piece \in Nat
  /\ todo \in Seq(Nat)
  /\ close_rc \in {0, -1}
  /\ log \in {"none", "open failed", "write failed", "close failed"}
  /\ arrived \in 0 .. MaxBytes
  /\ out \in Seq(Nat)
  /\ failed \in BOOLEAN

Init ==
  /\ src = EmptyQueue /\ dst = EmptyQueue
  /\ tempdir_idx = 0
  /\ pc = "idle" /\ len = 0 /\ piece = 0 /\ todo = <<>>
  /\ close_rc = 0 /\ log = "none"
  /\ arrived = 0 /\ out = <<>> /\ failed = FALSE

-----------------------------------------------------------------------------
(***************************************************************************)
(* Bytes arrive in src.                                                    *)
(***************************************************************************)
Idle == pc = "idle" /\ src.stale + dst.stale <= MaxStale

Arrivals(k) == [i \in 1 .. k |-> arrived + i]

Arrive(k) ==
  /\ Idle
  /\ arrived + k <= MaxBytes
  /\ arrived' = arrived + k
  /\ UNCHANGED <<dst, callVars, out, failed>>

\* chunkqueue_append_file, chunkqueue_append_file_fd.
AppendFile(k) == Arrive(k) /\ src' = AppendFresh(src, Chunk("file", Arrivals(k)))

\* chunkqueue_append_buffer.
AppendBuffer(k) == Arrive(k) /\ src' = AppendFresh(src, Chunk("mem", Arrivals(k)))

\* chunkqueue_append_mem, and chunkqueue_prepend_buffer, which appends as well.
AppendMem(k) == Arrive(k) /\ src' = AppendStale(src, Chunk("mem", Arrivals(k)))

\* chunkqueue_use_memory.
UseMemory(q, data) ==
  [q EXCEPT !.chunks[Len(q.chunks)].data = @ \o data, !.bytes_in = @ + Len(data)]

\* chunkqueue_get_memory, read() and chunkqueue_use_memory, as in
\* connection_handle_read: into the last chunk when it is in memory and has
\* room, into a new one otherwise.  read() may bring nothing.
GetMemory(k) ==
  /\ Arrive(k)
  /\ \/ /\ ~IsEmpty(src) /\ LastChunk(src).type = "mem"
        /\ src' = UseMemory(src, Arrivals(k))
     \/ /\ ~IsEmpty(src) => ~(LastChunk(src).type = "mem" /\ LastChunk(src).data = <<>>)
        /\ src' = UseMemory(AppendStale(src, Chunk("mem", <<>>)), Arrivals(k))

-----------------------------------------------------------------------------
(***************************************************************************)
(* Bytes leave.                                                            *)
(***************************************************************************)

\* chunkqueue_steal.
StealBytes(k) ==
  /\ Idle
  /\ dst' = Steal(dst, src, k).to
  /\ src' = Steal(dst, src, k).from
  /\ UNCHANGED <<callVars, history>>

\* k bytes of dst went out and chunkqueue_mark_written is told so.
Write(k) ==
  /\ Idle
  /\ k <= Length(dst.chunks)
  /\ dst' = MarkWritten(dst, k)
  /\ out' = out \o SubSeq(Content(dst.chunks), 1, k)
  /\ UNCHANGED <<src, callVars, arrived, failed>>

\* chunkqueue_remove_finished_chunks.
Clean ==
  /\ Idle
  /\ src' = RemoveFinished(src)
  /\ UNCHANGED <<dst, callVars, history>>

\* chunkqueue_reset of both queues, for the next use of the connection.
Reset ==
  /\ Idle
  /\ IF ResetCrashes(src) \/ ResetCrashes(dst)
     THEN pc' = "fault" /\ UNCHANGED <<queues, tempdir_idx, history>>
     ELSE /\ src' = ResetQueue(src) /\ dst' = ResetQueue(dst)
          /\ tempdir_idx' = 0
          /\ arrived' = 0 /\ out' = <<>> /\ failed' = FALSE
          /\ UNCHANGED pc
  /\ UNCHANGED <<len, piece, todo, close_rc, log>>

-----------------------------------------------------------------------------
(***************************************************************************)
(* chunkqueue_steal_with_tempfiles: memory chunks are written to files.    *)
(***************************************************************************)
StealToFiles(k) ==
  /\ Idle
  /\ k <= Length(src.chunks)
  /\ Length(dst.chunks) <= MaxQueued
  /\ pc' = "steal" /\ len' = k
  /\ close_rc' = 0 /\ log' = "none"
  /\ UNCHANGED <<queues, tempdir_idx, piece, todo, history>>

\* What the loop takes from the chunk at the head of src.
Use == LET r == Remaining(Head(src.chunks)) IN IF len >= r THEN r ELSE len

\* src after k bytes of its first chunk were copied: a chunk that is used up
\* goes to the pool.
Consumed(q, k) ==
  LET r == [q EXCEPT !.bytes_out = @ + k] IN
  IF k = Remaining(Head(q.chunks)) THEN DropFirst(r) ELSE Advance(r, k)

StealDone ==
  /\ pc = "steal" /\ len <= 0
  /\ pc' = "idle" /\ len' = 0
  /\ UNCHANGED <<queues, tempdir_idx, piece, todo, close_rc, log, history>>

StealSkipsEmpty ==
  /\ pc = "steal" /\ len > 0
  /\ Remaining(Head(src.chunks)) = 0
  /\ src' = DropFirst(src)
  /\ UNCHANGED <<dst, callVars, history>>

\* A file chunk changes the queue, or a chunk for a part of it is made.
StealFile ==
  LET c == Head(src.chunks) IN
  /\ pc = "steal" /\ len > 0
  /\ Remaining(c) # 0 /\ c.type = "file"
  /\ len' = len - Use
  /\ IF Use = Remaining(c)
     THEN /\ dst' = AppendChunk(dst, c)
          /\ src' = [src EXCEPT !.chunks = Tail(@), !.bytes_out = @ + Use]
     ELSE /\ dst' = AppendFresh(dst, Chunk("file", SubSeq(Unread(c), 1, Use)))
          /\ src' = [Advance(src, Use) EXCEPT !.bytes_out = @ + Use]
  /\ UNCHANGED <<tempdir_idx, pc, piece, todo, close_rc, log, history>>

\* chunkqueue_append_mem_to_tempfile is called for a memory chunk.  A negative
\* length would be a huge size_t there, and write() would read past the chunk.
StealMem ==
  LET c == Head(src.chunks) IN
  /\ pc = "steal" /\ len > 0
  /\ Remaining(c) # 0 /\ c.type = "mem"
  /\ IF Use < 0
     THEN pc' = "fault" /\ UNCHANGED <<len, piece, todo>>
     ELSE /\ pc' = "tempfile"
          /\ len' = len - Use
          /\ piece' = Use
          /\ todo' = SubSeq(Unread(c), 1, Use)
  /\ UNCHANGED <<queues, tempdir_idx, close_rc, log, history>>

\* chunkqueue_append_mem_to_tempfile returns -1, and so does its caller.
GiveUp(message) ==
  /\ pc' = "idle" /\ failed' = TRUE /\ log' = message
  /\ len' = 0 /\ piece' = 0 /\ todo' = <<>>
  /\ UNCHANGED <<arrived, out>>

Goto(label) ==
  /\ pc' = label
  /\ UNCHANGED <<len, piece, todo, log, history>>

\* dst ends in a temporary file that can be appended to.
OpenTempFile ==
  /\ ~IsEmpty(dst)
  /\ LET c == LastChunk(dst) IN c.temp /\ c.open /\ c.offset = 0
TooLarge == Len(LastChunk(dst).data) > UploadLimit

\* Faulty variant: a file that is closed leaves the queue.
CloseLast_Drops(q) == [q EXCEPT !.chunks = SubSeq(@, 1, Len(@) - 1)]

\* The fd of the last file is closed.
CloseLast(q) == [q EXCEPT !.chunks[Len(q.chunks)].open = FALSE]

\* The last file is appended to.
KeepTempFile ==
  /\ pc = "tempfile"
  /\ OpenTempFile /\ ~TooLarge
  /\ Goto("write")
  /\ UNCHANGED <<queues, tempdir_idx, close_rc>>

(***************************************************************************)
(* A new file is made, after the last one was closed if it grew too large. *)
(* mkstemp() is tried in the directories from tempdir_idx on, and fcntl()  *)
(* on the file it made: either may fail.  When no directory is left from   *)
(* the start, chunkqueue_get_append_tempfile looks at an fd it never set:  *)
(* that may look like a failure, or a descriptor that belongs to something *)
(* else is taken for the file ("fault").                                   *)
(***************************************************************************)
NewTempFile ==
  /\ pc = "tempfile"
  /\ OpenTempFile => TooLarge
  /\ \E rc \in IF OpenTempFile THEN {0, -1} ELSE {0} :
       LET closed == IF OpenTempFile THEN CloseLast(dst) ELSE dst IN
       /\ close_rc' = rc
       /\ \/ /\ rc = -1
             /\ dst' = closed
             /\ GiveUp("close failed")
             /\ UNCHANGED tempdir_idx
          \/ /\ rc = 0
             /\ \E i \in tempdir_idx .. TempDirs - 1 : tempdir_idx' = i
             /\ dst' = AppendStale(closed, TempFile)
             /\ Goto("write")
          \/ /\ rc = 0
             /\ dst' = closed
             /\ tempdir_idx' \in tempdir_idx .. TempDirs
             /\ GiveUp("open failed")
          \/ /\ rc = 0 /\ tempdir_idx = TempDirs
             /\ dst' = closed
             /\ Goto("fault")
             /\ UNCHANGED tempdir_idx
  /\ UNCHANGED src

\* k bytes reach the end of the file.
Grow(q, k) ==
  [q EXCEPT !.chunks[Len(q.chunks)].data = @ \o SubSeq(todo, 1, k), !.bytes_in = @ + k]

\* write() takes everything: the bytes leave src.
WriteAll ==
  /\ pc = "write"
  /\ dst' = Grow(dst, Len(todo))
  /\ src' = Consumed(src, piece)
  /\ piece' = 0 /\ todo' = <<>>
  /\ pc' = "steal"
  /\ UNCHANGED <<tempdir_idx, len, close_rc, log, history>>

\* Faulty variant: the bytes written are not taken off.
Left_All(k) == todo
Left(k) == SubSeq(todo, k + 1, Len(todo))

\* write() takes a part, or is interrupted before it took anything.
WriteSome(k) ==
  /\ pc = "write"
  /\ k < Len(todo)
  /\ dst' = Grow(dst, k)
  /\ todo' = Left(k)
  /\ pc' = "tempfile"
  /\ UNCHANGED <<src, tempdir_idx, len, piece, close_rc, log, history>>

(***************************************************************************)
(* write() fails.  After ENOSPC the next directory is tried, if there is   *)
(* one.  A file that got nothing is removed from dst; any other is closed, *)
(* and when that succeeds the code reports that it failed and gives up,    *)
(* even if it could have gone on.  (An index past TempDirs is not counted  *)
(* on: it means the same.)                                                 *)
(***************************************************************************)
WriteFails(nospace) ==
  LET retry == nospace /\ tempdir_idx + 1 < TempDirs
      swept == RemoveEmpty(dst)
      next  == IF retry THEN Goto("tempfile") ELSE GiveUp("write failed")
  IN
  /\ pc = "write"
  /\ tempdir_idx' = IF nospace /\ tempdir_idx < TempDirs
                    THEN tempdir_idx + 1 ELSE tempdir_idx
  /\ \/ /\ Remaining(LastChunk(dst)) = 0
        /\ dst' = swept.queue
        /\ IF swept.crash THEN Goto("fault") ELSE next
        /\ UNCHANGED close_rc
     \/ /\ Remaining(LastChunk(dst)) # 0
        /\ dst' = CloseLast(dst)
        /\ \E rc \in {0, -1} :
             /\ close_rc' = rc
             /\ IF rc = 0 THEN GiveUp("close failed") ELSE next
  /\ UNCHANGED src

-----------------------------------------------------------------------------
Pieces == 1 .. MaxPiece

Next ==
  \/ \E k \in Pieces : AppendFile(k)
  \/ \E k \in Pieces : AppendBuffer(k)
  \/ \E k \in Pieces : AppendMem(k)
  \/ \E k \in 0 .. MaxPiece : GetMemory(k)
  \/ \E k \in 1 .. MaxBytes : StealBytes(k)
  \/ \E k \in 1 .. MaxBytes : Write(k)
  \/ Clean
  \/ Reset
  \/ \E k \in 1 .. MaxBytes : StealToFiles(k)
  \/ StealDone
  \/ StealSkipsEmpty
  \/ StealFile
  \/ StealMem
  \/ KeepTempFile
  \/ NewTempFile
  \/ WriteAll
  \/ \E k \in 0 .. MaxBytes : WriteSome(k)
  \/ \E nospace \in BOOLEAN : WriteFails(nospace)

Spec == Init /\ [][Next]_vars

-----------------------------------------------------------------------------
(***************************************************************************)
(* Properties                                                              *)
(***************************************************************************)

\* The counters of a queue always differ by the length of the queue, through
\* partial moves, reuse, short writes, failures and resets.
Accounting ==
  \A q \in {src, dst} : q.bytes_in - q.bytes_out = Length(q.chunks)

Clear == src.stale = 0 /\ dst.stale = 0

\* The bytes of both queues behind those that went out.
Stream == out \o Content(dst.chunks) \o Content(src.chunks)

\* Bytes leave in the order in which they came, none lost and none twice: as
\* long as no old offset was used and no move into temporary files failed.
InOrder ==
  Clear /\ ~failed /\ pc \in {"idle", "steal"} => Stream = [i \in 1 .. arrived |-> i]

\* A move into temporary files that fails half-way loses no byte either: what
\* was already written is in dst, and all of it still in src.
NothingLost ==
  Clear => \A b \in 1 .. arrived : \E i \in DOMAIN Stream : Stream[i] = b

\* force_assert in mchunk.c:115, in every call of chunk_remaining_length.
OffsetInChunk ==
  \A q \in {src, dst} : \A i \in DOMAIN q.chunks :
    Len(q.chunks[i].data) >= q.chunks[i].offset

\* The message "close() temp-file ... failed" of mchunk.c:360 and :402.
CloseMessageTrue == log = "close failed" => close_rc = -1
=============================================================================
