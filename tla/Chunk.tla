------------------------------- MODULE Chunk -------------------------------
(***************************************************************************)
(* One Chunk of writer/read_write_data.c: a RAM copy of a file and the      *)
(* number of its bytes the copy believes to be on disk.  A chunk is         *)
(*                                                                         *)
(*   [data |-> the first size bytes of the buffer, persisted_size |-> n]    *)
(*                                                                         *)
(* size is Len(data).  The buffer's capacity grows by doubling and is never *)
(* observable here; a realloc() that fails is a fault of the modules that   *)
(* use these operators.  Each operator is the effect of one call made under *)
(* the chunk's mutex.                                                       *)
(***************************************************************************)
EXTENDS Integers, Sequences

ChunkType(Bytes) == [data : Seq(Bytes), persisted_size : Nat]

\* chunk_load(): RAM becomes the file, whatever RAM held before.  A file that fopen() cannot
\* open counts as an empty one, ChunkLoad(<< >>), and the call returns 0 all the same.
ChunkLoad(file) == [data |-> file, persisted_size |-> Len(file)]

\* chunk_append()
ChunkAppend(chunk, bytes) == [chunk EXCEPT !.data = chunk.data \o bytes]

\* chunk_read(): at most size bytes from a zero-based offset.
ChunkRead(chunk, size, offset) ==
    IF offset >= Len(chunk.data) THEN << >>
    ELSE IF offset + size <= Len(chunk.data)
         THEN SubSeq(chunk.data, offset + 1, offset + size)
         ELSE SubSeq(chunk.data, offset + 1, Len(chunk.data))

\* The bytes chunk_save_delta() hands to fwrite(); none when size <= persisted_size.
Delta(chunk) == SubSeq(chunk.data, chunk.persisted_size + 1, Len(chunk.data))

\* The last assignment of chunk_save_delta().
Synced(chunk) == [chunk EXCEPT !.persisted_size = Len(chunk.data)]
=============================================================================
