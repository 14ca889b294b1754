------------------------------ MODULE FileLink ------------------------------
(***************************************************************************)
(* The commands of file operations on the WebSocket.  A token is the one   *)
(* of a WSNETSession: one open file, or one operation on a directory.      *)
(* Offsets and sizes count chunks of __chunk_size bytes, and a chunk is a  *)
(* number that tells what was written from everything else; 0 is what the  *)
(* file system fills a gap with.                                           *)
(***************************************************************************)
EXTENDS WsLink, SequencesExt

FileCmd(type, t) == [type |-> type, token |-> t]

FileOpen(t, mode) == [type |-> "FILEOPEN", token |-> t, mode |-> mode]

FileRead(t, off) == [type |-> "FILEREAD", token |-> t, offset |-> off]

FileData(t, off, data) ==
    [type |-> "FILEDATA", token |-> t, offset |-> off, data |-> data]

FileEntry(t, size) == [type |-> "FILEENTRY", token |-> t, size |-> size]

\* A dictionary with a value put at a key.
Put(f, k, v) == [x \in DOMAIN f \cup {k} |-> IF x = k THEN v ELSE f[x]]

\* The file after data was written at an offset.
WriteAt(file, off, data) ==
    [i \in 1..(IF Len(file) > off + Len(data) THEN Len(file) ELSE off + Len(data)) |->
        IF i \in (off + 1)..(off + Len(data)) THEN data[i - off]
        ELSE IF i <= Len(file) THEN file[i] ELSE 0]

\* At most n chunks from an offset on, as many as there are.
ReadAt(file, off, n) ==
    SubSeq(file, off + 1, IF off + n < Len(file) THEN off + n ELSE Len(file))
=============================================================================
