------------------------------- MODULE TsSync -------------------------------
(***************************************************************************)
(* How gst/dvrtsdemux/mpegtspacketizer.c finds the packets of a transport  *)
(* stream in the buffers it is given: it finds out which of the packet     *)
(* sizes the stream has, looks for the sync byte when it has lost it, and  *)
(* hands out one packet after the other with its offset in the file.       *)
(*                                                                         *)
(* A file is a sequence of bytes of which it only matters whether they     *)
(* look like a sync byte.  Sizes are scaled down.  Upstream pushes chunks  *)
(* of a file, and may seek: the element flushes the packetizer, and the    *)
(* next chunk comes from elsewhere in the file.                            *)
(***************************************************************************)
EXTENDS Integers, Sequences, FiniteSets, FiniteSetsExt

CONSTANTS
  Files,      \* [bytes, starts, jumps]: what looks like a sync byte, where its
              \* packets really begin, and where upstream may seek to
  Sizes,      \* psizes: the sizes of a packet, in the order they are tried
  M2ts,       \* the size of a packet that begins with a prefix
  Prefix,     \* and the length of that prefix
  Chunk,      \* the size of a buffer
  MaxJumps    \* bound: seeks

ASSUME SyncAssumption ==
  /\ Sizes \in Seq(Nat \ {0}) /\ Sizes # <<>>
  /\ M2ts \in Nat /\ Prefix \in 0 .. M2ts
  /\ Chunk \in Nat \ {0} /\ MaxJumps \in Nat
  /\ \A f \in Files : f.bytes \in Seq({"S", "x"}) /\ f.jumps \subseteq 0 .. Len(f.bytes)

MaxSize == Max({Sizes[i] : i \in DOMAIN Sizes})

VARIABLES
  sy,         \* the packetizer; base: where in the file the adapter begins
  syFile,     \* the file
  syLooking,  \* is next_packet in its loop?
  syLast,     \* the last packet: the offset it was given, where it was
  syGot,      \* where packets have been found since the last seek
  syFrom,     \* where the data since the last seek begins, and if the size of
              \* a packet was known then
  syJumps

syncVars == <<sy, syFile, syLooking, syLast, syGot, syFrom, syJumps>>

NoPacket == [offset |-> 0, at |-> -1]

SyncInit ==
  /\ syFile \in Files
  /\ sy = [base |-> 0, avail |-> 0, mapSize |-> 0, mapOffset |-> 0, size |-> 0,
           offset |-> 0, empty |-> TRUE, needSync |-> FALSE]
  /\ syLooking = FALSE
  /\ syLast = NoPacket /\ syGot = {} /\ syFrom = [at |-> 0, known |-> FALSE] /\ syJumps = 0

-----------------------------------------------------------------------------
FileSize == Len(syFile.bytes)

(* Does the byte at position k of the map look like a sync byte?  Past the  *)
(* end of what is mapped the code reads whatever is there: `beyond`.        *)
IsSync(p, k, beyond) ==
  IF k < p.avail THEN syFile.bytes[p.base + k + 1] = "S" ELSE beyond

(* mpegts_packetizer_flush_bytes                                            *)
FlushBytes(p, n) ==
  [p EXCEPT !.base = @ + n, !.avail = @ - n, !.mapSize = 0, !.mapOffset = 0]

Mapped(p, n) == p.mapSize - p.mapOffset >= n

(* mpegts_packetizer_map: the caller finds out with Mapped if it worked.    *)
Map(p, n) ==
  IF Mapped(p, n) THEN p
  ELSE LET q == FlushBytes(p, p.mapOffset)
       IN  IF q.avail < n THEN q ELSE [q EXCEPT !.mapSize = q.avail]

Before(p) == IF p.size = M2ts THEN Prefix ELSE 0

(* n sync bytes at a distance of s, the first at position k of what is mapped. *)
InStep(p, k, s, n) ==
  \A m \in 0 .. n - 1 : IsSync(p, p.mapOffset + k + m * s, FALSE)

(* mpegts_try_discover_packet_size: what is skipped is not counted in the   *)
(* offset.                                                                  *)
Discover(p0) ==
  LET p == Map(p0, 4 * MaxSize)
      tried == {k \in 0 .. p.mapSize - p.mapOffset : k + 3 * MaxSize < p.mapSize - p.mapOffset}
      sizes(k) == {j \in DOMAIN Sizes : InStep(p, k, Sizes[j], 4)}
      found == {k \in tried : sizes(k) # {}}
  IN  IF ~Mapped(p, 4 * MaxSize) THEN p
      ELSE IF found = {} THEN FlushBytes(p, p.mapOffset + Max(tried) + 1)
      ELSE LET at == p.mapOffset + Min(found)
               size == Sizes[Min(sizes(Min(found)))]
           IN  [p EXCEPT !.size = size,
                         !.mapOffset = IF size = M2ts /\ at >= Prefix THEN at - Prefix ELSE at]

(* Bytes are skipped, and counted.                                          *)
Skip_Uncounted(p, n) == [p EXCEPT !.mapOffset = @ + n]
Skip(p, n) == [p EXCEPT !.mapOffset = @ + n, !.offset = @ + n]

(* mpegts_packetizer_sync, with needSync reset if it worked.  With a prefix, *)
(* a sync byte further on is taken if it is followed by two as well.        *)
Sync(p0) ==
  LET p == Map(p0, 3 * p0.size)
      b == Before(p)
      size == p.mapSize - p.mapOffset
      tried == {k \in b .. size : k + 2 * p.size + b < size}
      found == {k \in tried : InStep(p, k, p.size, 3)}
      later == {j \in 1 .. b : InStep(p, Min(found) + j, p.size, 3)}
      skip == IF found = {} THEN IF tried = {} THEN 0 ELSE Max(tried) + 1 - b
              ELSE Min(found) - b + (IF later = {} THEN 0 ELSE Min(later))
      q == Skip(p, skip)
  IN  IF ~Mapped(p, 3 * p0.size) THEN p
      ELSE IF found = {} THEN FlushBytes(q, q.mapOffset)
      ELSE [q EXCEPT !.needSync = FALSE]

(* Two packets are there, and do not both begin with a sync byte, but bytes *)
(* at another distance do (for DLNA servers that rewind by bytes).          *)
Elsewhere(p, beyond) ==
  LET start == p.mapOffset + Before(p)
      both(k) == IsSync(p, start + k, beyond) /\ IsSync(p, start + k + p.size, beyond)
  IN  /\ Mapped(p, 2 * p.size)
      /\ ~both(0)
      /\ \E k \in 1 .. p.size - 2 : both(k)

(* mpegts_packetizer_clear_packet, when the caller is done with the packet. *)
ClearPacket(p) ==
  LET q == [p EXCEPT !.mapOffset = @ + p.size]
  IN  IF q.mapSize - q.mapOffset < p.size THEN FlushBytes(q, q.mapOffset) ELSE q

(* mpegts_packetizer_flush                                                  *)
Cleared(p) ==
  [p EXCEPT !.avail = 0, !.mapSize = 0, !.mapOffset = 0, !.offset = 0,
            !.empty = TRUE, !.needSync = FALSE]

-----------------------------------------------------------------------------
(* mpegts_packetizer_push, and the loop around next_packet begins.          *)
Push ==
  /\ ~syLooking
  /\ LET read == sy.base + sy.avail
         n == Min({Chunk, FileSize - read})
     IN  /\ n > 0
         /\ sy' = [sy EXCEPT !.avail = @ + n, !.empty = FALSE,
                             !.offset = IF sy.empty THEN read ELSE @]
  /\ syLooking' = TRUE
  /\ UNCHANGED <<syFile, syLast, syGot, syFrom, syJumps>>

NeedMore(p) == sy' = p /\ syLooking' = FALSE /\ UNCHANGED <<syLast, syGot>>

(* One turn of mpegts_packetizer_next_packet's loop; a packet that is found *)
(* is handled by the caller and cleared.                                    *)
Look ==
  /\ syLooking
  /\ \E beyond \in BOOLEAN :
       LET known == IF sy.size = 0 THEN Discover(sy) ELSE sy
           synced == IF known.needSync THEN Sync(known) ELSE known
           p == Map(synced, synced.size)
       IN  IF known.size = 0 THEN NeedMore(known)
           ELSE IF synced.needSync THEN NeedMore(synced)
           ELSE IF ~Mapped(p, p.size) THEN NeedMore(p)
           ELSE IF ~InStep(p, Before(p), p.size, 1) \/ Elsewhere(p, beyond)
           THEN /\ sy' = [p EXCEPT !.needSync = TRUE]
                /\ UNCHANGED <<syLooking, syLast, syGot>>
           ELSE /\ sy' = ClearPacket([p EXCEPT !.offset = @ + p.size])
                /\ syLast' = [offset |-> p.offset, at |-> p.base + p.mapOffset]
                /\ syGot' = syGot \cup {p.base + p.mapOffset}
                /\ UNCHANGED syLooking
  /\ UNCHANGED <<syFile, syFrom, syJumps>>

(* Upstream seeks; the element flushes the packetizer.                      *)
SeekUpstream ==
  /\ ~syLooking /\ syJumps < MaxJumps
  /\ \E to \in syFile.jumps :
       /\ sy' = [Cleared(sy) EXCEPT !.base = to]
       /\ syFrom' = [at |-> to, known |-> sy.size # 0]
  /\ syLast' = NoPacket /\ syGot' = {} /\ syJumps' = syJumps + 1
  /\ UNCHANGED <<syFile, syLooking>>

SyncNext == Push \/ Look \/ SeekUpstream
SyncSpec == SyncInit /\ [][SyncNext]_syncVars

-----------------------------------------------------------------------------
SyncTypeOK ==
  /\ sy \in [base : 0 .. FileSize, avail : 0 .. FileSize, mapSize : 0 .. FileSize,
             mapOffset : Nat, size : {0} \cup {Sizes[i] : i \in DOMAIN Sizes},
             offset : Nat, empty : BOOLEAN, needSync : BOOLEAN]
  /\ sy.base + sy.avail <= FileSize
  /\ sy.mapSize \in {0, sy.avail} /\ sy.mapOffset <= sy.mapSize
  /\ syFile \in Files /\ syLooking \in BOOLEAN
  /\ syGot \subseteq 0 .. FileSize

(* The offset that the element uses to seek and to relate a PCR to a place  *)
(* in the file moves with the adapter: two packets are as far apart in the  *)
(* file as their offsets say, whatever was skipped between them.            *)
OffsetsMoveTogether ==
  syLast'.at >= 0 /\ syLast.at >= 0 =>
    syLast'.offset - syLast.offset = syLast'.at - syLast.at

OffsetsMove == [][OffsetsMoveTogether]_syncVars

(* When the packet size was known before a seek, the offset of a packet is  *)
(* its place in the file.  (What is skipped to discover the size is not     *)
(* counted.)                                                                *)
OffsetTrueAfterSeek ==
  syFrom.known /\ syLast.at >= 0 => syLast.offset = syLast.at

(* Do only packets look like they begin with a sync byte?                   *)
Clean ==
  Cardinality({k \in 1 .. FileSize : syFile.bytes[k] = "S"}) = Cardinality(syFile.starts)

(* No false packet: what is handed out begins where a packet begins, unless *)
(* other bytes look like sync bytes.  (The last packet that is mapped is    *)
(* trusted on the strength of a single byte.)                               *)
OnlyPackets == Clean => syGot \subseteq syFile.starts

(* The packets that come around a packet: those that are needed to find it. *)
Around(at) ==
  {at + k * sy.size : k \in (IF Clean THEN 0 ELSE -2) .. 2}

(* No packet is lost for good: when everything has been pushed and nothing  *)
(* more is found, every packet has been handed out that is followed by two  *)
(* more, and, if bytes between packets look like sync bytes, comes after    *)
(* two others: a false packet costs no more than two.                       *)
AllPackets ==
  ~syLooking /\ sy.base + sy.avail = FileSize /\ sy.size # 0 =>
    \A at \in syFile.starts :
      Around(at) \subseteq syFile.starts /\ Min(Around(at)) >= syFrom.at => at \in syGot

(* The packets of the file are found, and where they are.                   *)
PacketsFound == OffsetTrueAfterSeek /\ OnlyPackets /\ AllPackets
=============================================================================
