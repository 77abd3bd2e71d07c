--------------------------- MODULE SourceIdentity ---------------------------
(***************************************************************************)
(* Which stored index belongs to the file behind a descriptor.  Opening a  *)
(* session hashes the whole source through a logical reader (source_       *)
(* identity, FdLogicalReader, hash_complete_seekable) and derives the path *)
(* of its index from the result (stable_key, frame_index_path), while the  *)
(* provider of the document may rewrite it and the user may cancel.        *)
(*                                                                         *)
(* BLAKE3 is external and taken to be free of collisions: a digest is the  *)
(* sequence of values that was fed to the hasher.                          *)
(***************************************************************************)
EXTENDS Integers, Sequences

CONSTANTS
  Files,     \* contents the source may have, sequences of numbers
  Chunk,     \* FULL_HASH_BUFFER_BYTES
  MaxOpens,
  None

VARIABLES
  file,       \* what a read would see now
  seekable,   \* regular file or pipe
  reader,     \* position and len of the FdLogicalReader
  hashed,     \* bytes fed to the hasher
  cancelled,
  pc,
  started,    \* the contents when hashing started
  disturbed,  \* the source was rewritten since
  opened      \* every finished call: contents at its start, whether they changed, identity

vars == <<file, seekable, reader, hashed, cancelled, pc, started, disturbed, opened>>

FullTag == 2

\* SourceIdentity, as far as this path sets it: no modification time and no
\* provider document id.
Complete(size, content) == [size_bytes |-> size, content_tag |-> <<FullTag, size>> \o content]
MetadataOnly(size) == [size_bytes |-> size, content_tag |-> None]

\* is_reuse_safe; the tags of the sampled hash are no longer produced.
ReuseSafe(identity) == identity.size_bytes # None /\ identity.content_tag # None

\* hash_optional_u64, hash_optional_text and stable_key.
OptionalU64(value) == IF value = None THEN <<0>> ELSE <<1, value>>
OptionalText(text) == IF text = None THEN <<0>> ELSE <<1, Len(text)>> \o text
StableKey(identity) ==
  OptionalU64(identity.size_bytes) \o OptionalU64(None) \o OptionalText(None) \o OptionalText(identity.content_tag)

\* frame_index_path: an index that must not be found again is kept apart by
\* the operation that makes it.
FrameIndexPath(identity, operation) ==
  [source |-> StableKey(identity), operation |-> IF ReuseSafe(identity) THEN None ELSE operation]

Init ==
  /\ file \in Files /\ seekable \in BOOLEAN
  /\ reader = [position |-> 0, len |-> 0] /\ hashed = <<>> /\ cancelled = FALSE
  /\ pc = "idle" /\ started = file /\ disturbed = FALSE /\ opened = <<>>

Answer(content, changed, identity) ==
  /\ pc' = "idle"
  /\ opened' = Append(opened, [content |-> content, disturbed |-> changed, identity |-> identity])

\* source_identity up to the loop: descriptor_seekable and fstat, then check()
\* and the two seeks of hash_complete_seekable.
Start ==
  /\ pc = "idle" /\ Len(opened) < MaxOpens
  /\ cancelled' = FALSE /\ started' = file /\ disturbed' = FALSE /\ hashed' = <<>>
  /\ \/ Answer(file, FALSE, MetadataOnly(None)) /\ UNCHANGED reader
     \/ /\ reader' = [position |-> 0, len |-> Len(file)]
        /\ IF ~seekable \/ file = <<>>
           THEN Answer(file, FALSE, MetadataOnly(IF seekable THEN Len(file) ELSE None))
           ELSE pc' = "hash" /\ UNCHANGED opened
  /\ UNCHANGED <<file, seekable>>

GiveUpShort ==
  IF cancelled THEN pc' = "idle" /\ UNCHANGED opened
  ELSE Answer(started, disturbed, Complete(reader.len, hashed))

\* check() refused, a read failed or the file ended early: Err(_) in
\* source_identity, which a cancelled call passes on.
GiveUp ==
  IF cancelled THEN pc' = "idle" /\ UNCHANGED opened
  ELSE Answer(started, disturbed, MetadataOnly(reader.len))

\* One turn of the loop: check(), then a pread that may be short, find nothing
\* where the file was truncated, or fail.
Read ==
  /\ pc = "hash" /\ reader.position < reader.len
  /\ \/ /\ ~cancelled
        /\ \E n \in 1 .. Chunk :
             /\ reader.position + n <= reader.len /\ reader.position + n <= Len(file)
             /\ hashed' = hashed \o SubSeq(file, reader.position + 1, reader.position + n)
             /\ reader' = [reader EXCEPT !.position = @ + n]
        /\ UNCHANGED <<pc, opened>>
     \/ GiveUp /\ UNCHANGED <<reader, hashed>>
  /\ UNCHANGED <<file, seekable, cancelled, started, disturbed>>

Finish ==
  /\ pc = "hash" /\ reader.position = reader.len
  /\ Answer(started, disturbed, Complete(reader.len, hashed))
  /\ UNCHANGED <<file, seekable, reader, hashed, cancelled, started, disturbed>>

Cancel ==
  /\ pc = "hash" /\ ~cancelled /\ cancelled' = TRUE
  /\ UNCHANGED <<file, seekable, reader, hashed, pc, started, disturbed, opened>>

\* The provider rewrites the document, or another document is chosen.
Rewrite ==
  /\ \E new \in Files \ {file} : file' = new
  /\ disturbed' = TRUE
  /\ UNCHANGED <<seekable, reader, hashed, cancelled, pc, started, opened>>

Next == Start \/ Read \/ Finish \/ Cancel \/ Rewrite

Spec == Init /\ [][Next]_vars

(***************************************************************************)
(* Properties.                                                             *)
(***************************************************************************)

PathOf(k) == FrameIndexPath(opened[k].identity, k)

\* A reusable identity stands for a whole source: whatever short reads,
\* truncations and cancellations came in between, as many bytes were hashed as
\* its size says, and they are the source's if it did not change meanwhile.
ReuseSafeIsWhole ==
  \A k \in DOMAIN opened :
    LET o == opened[k]
    IN ReuseSafe(o.identity) =>
         /\ Len(o.identity.content_tag) = o.identity.size_bytes + 2
         /\ ~o.disturbed => o.identity = Complete(Len(o.content), o.content)

\* Undisturbed opens share an index exactly if the sources are equal and can
\* be recognised; an unverifiable source never meets a stored index.
PathsTellSourcesApart ==
  \A j, k \in DOMAIN opened :
    j # k /\ ~opened[j].disturbed /\ ~opened[k].disturbed =>
      (PathOf(j) = PathOf(k) <=> /\ ReuseSafe(opened[j].identity) /\ ReuseSafe(opened[k].identity)
                                 /\ opened[j].content = opened[k].content)
=============================================================================
