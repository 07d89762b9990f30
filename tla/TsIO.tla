-------------------------------- MODULE TsIO --------------------------------
(***************************************************************************)
(* How gst/dvrtsdemux/mpegtsbase.c reads its input: the scan for the first *)
(* and the last clock reference that the duration is computed from, normal *)
(* reading, seeks, and the trick modes that jump from one key frame to     *)
(* another.  The source is pulled by a task of the element, or pushes and  *)
(* is told to seek by events.                                              *)
(*                                                                         *)
(* Places in the file are counted in blocks, that is in what one pull or   *)
(* one buffer brings; a frame does not cross blocks.                       *)
(***************************************************************************)
EXTENDS Integers, FiniteSets, FiniteSetsExt

CONSTANTS
  IoFiles,    \* [size, pcrs, keys, tables]: the blocks with PCRs, key frames, and the
              \* block that ends the first PMT
  Sources,    \* [pull, sized, seeks]: does it let itself be pulled, does it know its
              \* size, does it accept seeks
  HeadLen, TailLen, \* where a pulled scan stops to look for PCRs at the start, how far from
              \* the end a pushed one looks (640 KiB)
  Enough,     \* 5 PCRs are enough at the start
  Stride,     \* 200 packets: the jump before the distance of key frames is known
  PcrCap, MaxIoSeeks   \* bounds: the counter of PCRs, the seeks

ASSUME IoAssumption ==
  /\ \A f \in IoFiles : f.size \in Nat \ {0} /\ f.pcrs \cup f.keys \cup {f.tables} \subseteq 0 .. f.size - 1
  /\ {HeadLen, TailLen, Enough, Stride, PcrCap, MaxIoSeeks} \subseteq Nat

VARIABLES
  ioFile, ioSource,
  io,        \* the element, see IoInit
  ioUp,      \* the block that the source pushes next
  ioOut,     \* what has come out since the last seek: [first, last, gap, key]
  ioSeeks

ioVars == <<ioFile, ioSource, io, ioUp, ioOut, ioSeeks>>

Nowhere == -1
Size == ioFile.size
Blocks == 0 .. Size - 1
Playing(mode) == mode \in {"pushing", "streaming"}
Nothing == [first |-> Nowhere, last |-> Nowhere, gap |-> FALSE, wrongWay |-> FALSE]

-----------------------------------------------------------------------------
(* mpegts_base_sink_activate_mode, mpegts_base_reset                        *)
IoInit ==
  /\ ioFile \in IoFiles /\ ioSource \in Sources
  /\ io = [mode |-> "scanning", offset |-> Nowhere, size |-> Nowhere, pcrs |-> 0, seenPcrs |-> 0,
           started |-> FALSE, known |-> {}, end |-> "no", trick |-> "no",
           jump |-> Nowhere, step |-> 0, interval |-> Nowhere, key |-> Nowhere,
           lastKey |-> Nowhere, keyDone |-> FALSE, inKey |-> FALSE, sought |-> FALSE,
           misled |-> FALSE]
  /\ ioUp = 0 /\ ioOut = Nothing /\ ioSeeks = 0

(* A block is looked at: PCRs are counted, tables read, key frames found;   *)
(* its data go out if the mode is one that plays (see TsStreams for what a  *)
(* trick mode lets pass).  A key frame is where the reader is when it has   *)
(* been recognised, that is behind its start.                               *)
Distance(a, b) == IF a > b THEN a - b ELSE b - a
Inspected(s, b) ==
  LET key == b \in ioFile.keys
      inTrick == s.trick # "no" /\ Playing(s.mode) /\ s.started
      found == key /\ s.started /\ Playing(s.mode) /\ (s.interval = Nowhere \/ inTrick)
  IN  [s EXCEPT !.pcrs = IF b \in ioFile.pcrs THEN Min({@ + 1, PcrCap}) ELSE @,
                !.known = @ \cup ({b} \cap ioFile.pcrs),
                !.started = @ \/ b = ioFile.tables,
                !.interval = IF found /\ @ = Nowhere /\ s.key # Nowhere /\ ~s.sought
                             THEN Distance(s.key, b + 1) ELSE @,
                !.key = IF found /\ ~s.keyDone THEN b + 1 ELSE @,
                !.sought = @ /\ ~found,
                !.inKey = IF inTrick THEN key ELSE @,
                !.keyDone = IF inTrick THEN @ \/ key ELSE @]
Played(out, s, b) ==
  IF ~(Playing(s.mode) /\ s.started /\ (s.trick = "no" \/ b \in ioFile.keys)) THEN out
  ELSE [first |-> IF out.first = Nowhere THEN b ELSE out.first, last |-> b,
        gap |-> out.gap \/ (out.last # Nowhere /\ b # out.last + 1),
        wrongWay |-> out.wrongWay \/ (out.last # Nowhere /\ (IF s.trick = "reverse" THEN b > out.last
                                                              ELSE b <= out.last))]

(* mpegts_base_chain in a trick mode, after a block: where to read next.    *)
TrickDue(s) ==
  \/ s.keyDone
  \/ s.trick = "reverse" /\ s.offset >= s.jump + s.step /\ (~s.inKey \/ s.lastKey = s.key)
(* seek_size_ratio: 1.2 times the distance of key frames back, 0.8 forward;  *)
(* rounded up to a block.                                                   *)
Ratio(distance, trick) == (distance * (IF trick = "reverse" THEN 12 ELSE 8) + 9) \div 10
Measured(s) ==
  IF ~(s.keyDone /\ s.interval = Nowhere) THEN s
  ELSE IF s.lastKey = Nowhere THEN [s EXCEPT !.lastKey = s.key]
  ELSE [s EXCEPT !.interval = Distance(s.key, s.lastKey),
                 !.step = Ratio(Distance(s.key, s.lastKey), s.trick)]
JumpFrom(s) ==
  LET at == IF s.keyDone /\ s.interval # Nowhere /\ s.lastKey # s.key THEN s.key ELSE s.jump
  IN  IF s.trick = "reverse" /\ s.jump <= 0 THEN Nowhere
      ELSE IF s.trick = "reverse" /\ s.jump <= s.step THEN 0
      ELSE IF s.trick = "reverse" THEN at - s.step ELSE at + s.step
Jumped(s0) ==
  LET s == Measured(s0)
      to == JumpFrom(s)
  IN  IF s0.trick = "no" \/ ~TrickDue(s0) THEN s0
      ELSE [s EXCEPT !.jump = to, !.keyDone = FALSE, !.inKey = FALSE,
                     !.offset = IF s.trick = "reverse" \/ s.interval # Nowhere THEN to ELSE @,
                     !.lastKey = IF s.interval # Nowhere THEN s.key ELSE @]

-----------------------------------------------------------------------------
(* scan_for_push: [s, skip, seek], before a block is looked at.  A refused  *)
(* seek leaves the offset where it would have led.                          *)
ScanTarget == Size - Max({Size \div 10, TailLen})
Accepts(to) == ioSource.seeks /\ to \in 0 .. Size
ScanForPush(s) ==
  IF s.mode \notin {"scanning", "for_scan"} \/ (ioSource.sized /\ s.pcrs < 2)
  THEN [s |-> s, seek |-> Nowhere]
  ELSE IF ~ioSource.sized THEN [s |-> [s EXCEPT !.mode = "pushing"], seek |-> Nowhere]
  ELSE LET t == [s EXCEPT !.size = Size, !.seenPcrs = IF s.mode = "scanning" THEN s.pcrs ELSE @]
       IN  IF ~s.started THEN [s |-> [t EXCEPT !.mode = "pushing"], seek |-> Nowhere]
           ELSE IF s.mode = "scanning"
           THEN IF Accepts(ScanTarget)
                THEN [s |-> [t EXCEPT !.mode = "for_scan"], seek |-> ScanTarget]
                ELSE [s |-> [t EXCEPT !.mode = "pushing", !.offset = ScanTarget, !.misled = TRUE],
                      seek |-> Nowhere]
           ELSE IF t.pcrs > t.seenPcrs \/ t.offset >= Size
           THEN [s |-> [t EXCEPT !.mode = "pushing"], seek |-> 0]
           ELSE [s |-> t, seek |-> Nowhere]
(* The segment that follows a seek tells the offset: mpegts_base_sink_event. *)
Segment(s, to) == [s EXCEPT !.offset = to, !.misled = FALSE]

(* mpegts_base_chain of a source that pushes, with                          *)
(* mpegts_base_chain_push_mode for trick modes.                             *)
Counted(s) == [s EXCEPT !.offset = IF @ = Nowhere THEN 1 ELSE @ + 1]
PushJump(s, t) ==
  IF t.trick = "no" \/ ~TrickDue(s) \/ ~(t.trick = "reverse" \/ t.interval # Nowhere)
  THEN [s |-> t, up |-> ioUp + 1]
  ELSE IF t.offset = Nowhere THEN [s |-> [t EXCEPT !.end = "eos"], up |-> Size]
  ELSE IF t.offset < Size /\ ioSource.seeks THEN [s |-> Segment(t, t.offset), up |-> t.offset]
  ELSE [s |-> [t EXCEPT !.misled = TRUE], up |-> ioUp + 1]
PushBlock ==
  /\ ~ioSource.pull /\ ioUp \in Blocks /\ io.end = "no"
  /\ LET scan == ScanForPush(Counted(io))
         s == Inspected(scan.s, ioUp)
         t == Jumped(s)
         jump == PushJump(s, t)
     IN  IF scan.seek # Nowhere
         THEN /\ io' = Segment(scan.s, scan.seek)
              /\ ioUp' = scan.seek
              /\ UNCHANGED ioOut
         ELSE /\ io' = jump.s /\ ioUp' = jump.up
              /\ ioOut' = Played(ioOut, s, ioUp)
  /\ UNCHANGED <<ioFile, ioSource, ioSeeks>>

(* The end of what is pushed: not told downstream while the end of the file *)
(* is scanned.                                                              *)
UpstreamEos ==
  /\ ~ioSource.pull /\ ioUp >= Size /\ io.end = "no" /\ io.mode # "for_scan"
  /\ io' = [io EXCEPT !.end = IF io.started THEN "eos" ELSE "error"]
  /\ UNCHANGED <<ioFile, ioSource, ioUp, ioOut, ioSeeks>>

-----------------------------------------------------------------------------
(* mpegts_base_loop.  mpegts_base_scan: blocks from the start on until      *)
(* there were enough PCRs, then blocks from the end back to one with a PCR. *)
Upto(b) == ioFile.pcrs \cap 0 .. b
HeadScanned ==
  LET last == Min({HeadLen, Size}) - 1
      stops == {b \in 0 .. last : Cardinality(Upto(b)) >= Enough}
  IN  IF stops = {} THEN last ELSE Min(stops)
LoopScan ==
  /\ ioSource.pull /\ io.mode = "scanning" /\ io.end = "no"
  /\ LET head == Upto(HeadScanned)
     IN  io' = [io EXCEPT !.mode = "streaming", !.offset = 0,
                  !.started = @ \/ ioFile.tables <= HeadScanned,
                  !.pcrs = Cardinality(head) + (IF head = {} THEN 0 ELSE 1),
                  !.known = IF head = {} THEN {} ELSE head \cup {Max(ioFile.pcrs)}]
  /\ UNCHANGED <<ioFile, ioSource, ioUp, ioOut, ioSeeks>>
LoopPull ==
  /\ ioSource.pull /\ io.mode = "streaming" /\ io.end = "no"
  /\ IF io.offset \in Blocks
     THEN LET s == Inspected([io EXCEPT !.offset = @ + 1], io.offset)
          IN  io' = Jumped(s) /\ ioOut' = Played(ioOut, s, io.offset)
     ELSE io' = [io EXCEPT !.end = IF io.started THEN "eos" ELSE "error"] /\ UNCHANGED ioOut
  /\ UNCHANGED <<ioFile, ioSource, ioUp, ioSeeks>>
LoopSeeking ==
  /\ ioSource.pull /\ io.mode = "seeking" /\ io.end = "no"
  /\ io' = [io EXCEPT !.mode = "streaming"]
  /\ UNCHANGED <<ioFile, ioSource, ioUp, ioOut, ioSeeks>>

(* gst_ts_demux_do_seek: the place of a time is known when there are PCRs.  *)
Sought(s, to, trick) ==
  LET step == IF s.interval # Nowhere
              THEN Ratio(s.interval, trick)
              ELSE IF trick = "reverse" THEN Stride ELSE 0
      at == IF trick = "reverse" THEN Max({0, to - step}) ELSE to
  IN  [s EXCEPT !.offset = at, !.trick = trick, !.step = step, !.sought = TRUE,
                !.jump = IF trick = "reverse" THEN at ELSE @]

(* mpegts_base_handle_seek_event for a source that is pulled; with a flush. *)
SeekPulled(to, trick) ==
  /\ ioSource.pull /\ io.started /\ io.mode # "scanning" /\ io.pcrs >= 2
  /\ io' = [Sought(io, to, trick) EXCEPT !.mode = "seeking", !.end = "no"]
  /\ ioOut' = Nothing /\ UNCHANGED ioUp

(* mpegts_base_handle_seek_event_push_mode                                  *)
SeekPushed(to, trick) ==
  /\ ~ioSource.pull /\ io.started /\ io.mode = "pushing" /\ io.pcrs >= 2
  /\ LET s == Sought(io, to, trick)
     IN  IF Accepts(s.offset)
         THEN io' = [Segment(s, s.offset) EXCEPT !.end = "no"] /\ ioUp' = s.offset /\ ioOut' = Nothing
         ELSE io' = [s EXCEPT !.misled = TRUE] /\ UNCHANGED <<ioUp, ioOut>>

(* While the start or the end is scanned a seek is handled as if the source *)
(* were pulled: it is answered, and never reaches the source.               *)
SeekScanning(to, trick) ==
  /\ ~ioSource.pull /\ io.started /\ io.mode \in {"scanning", "for_scan"} /\ io.pcrs >= 2
  /\ io' = [Sought(io, to, trick) EXCEPT !.mode = "streaming", !.end = "no", !.misled = TRUE]
  /\ ioOut' = Nothing /\ UNCHANGED ioUp

IoSeek ==
  /\ ioSeeks < MaxIoSeeks
  /\ \E to \in Blocks : \E trick \in {"no", "forward", "reverse"} :
       SeekPulled(to, trick) \/ SeekPushed(to, trick) \/ SeekScanning(to, trick)
  /\ ioSeeks' = ioSeeks + 1
  /\ UNCHANGED <<ioFile, ioSource>>

IoReads == PushBlock \/ UpstreamEos \/ LoopScan \/ LoopPull \/ LoopSeeking
IoNext == IoReads \/ IoSeek
IoSpec == IoInit /\ [][IoNext]_ioVars

-----------------------------------------------------------------------------
IoTypeOK ==
  /\ io.mode \in {"scanning", "for_scan", "pushing", "streaming", "seeking"}
  /\ io.end \in {"no", "eos", "error"} /\ ioUp \in 0 .. Size
  /\ io.known \subseteq ioFile.pcrs /\ ioOut.first \in Blocks \cup {Nowhere}

(* The offset of the element is the place of the source that pushes, unless *)
(* a seek was refused or did not reach it.                                  *)
OffsetTrue ==
  ~ioSource.pull /\ ~io.misled /\ io.end = "no" /\ io.offset # Nowhere => io.offset = ioUp

(* The duration is computed from a PCR at the end of the file: a scan that  *)
(* pulls finds the last one; one that is pushed to finds one in the tail,   *)
(* if there is one before the last buffer, which it does not look at.       *)
LastPcrKnown ==
  Playing(io.mode) /\ ~io.misled /\ ioSeeks = 0 =>
    IF ioSource.pull THEN io.known # {} => Max(ioFile.pcrs) \in io.known
    ELSE io.size # Nowhere /\ io.seenPcrs >= 2 /\ ioOut = Nothing /\ io.started
         /\ ioFile.pcrs \cap ScanTarget .. Size - 2 # {} /\ io.offset = 0 =>
           \E b \in io.known : b >= ScanTarget

(* What is played at the normal speed has no gaps and starts at the start,  *)
(* or with the data after the PMT.                                          *)
NoGaps ==
  /\ io.trick = "no" /\ ~io.misled => ~ioOut.gap
  /\ io.trick = "no" /\ ioSeeks = 0 /\ ioOut.first # Nowhere /\ ~io.misled /\ ioSource.pull =>
       ioOut.first <= ioFile.tables

(* A trick mode goes in its direction.  Not if the distance of key frames   *)
(* was never measured or found to be 0; nor forward if the first key frame  *)
(* is the last of a trick mode before, whose place to jump to is then used. *)
RightWay ==
  io.trick # "no" /\ ~io.misled /\ io.step > 0 /\ (io.trick = "forward" => ioSeeks = 1) =>
    ~ioOut.wrongWay

IoTrue == OffsetTrue /\ LastPcrKnown /\ NoGaps /\ RightWay
=============================================================================
