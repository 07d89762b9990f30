------------------------------- MODULE TsSkew -------------------------------
(***************************************************************************)
(* How gst/dvrtsdemux/mpegtspacketizer.c turns the time stamps of a live   *)
(* stream into running time: it estimates from the arrival of the PCRs how *)
(* the clocks of sender and receiver differ, and copes with wraparounds    *)
(* and resets of the sender's clock and with time stamps (PTS, DTS) that   *)
(* wrap around in another order than the clock.                            *)
(*                                                                         *)
(* The sender's clock is `clock` + `shift`, modulo ClockMax.  Packets      *)
(* arrive with a jitter, or without an arrival time.                       *)
(*                                                                         *)
(* The time that calculate_skew returns is not used by the code and left   *)
(* out, with the fields that only it depends on.                           *)
(***************************************************************************)
EXTENDS Integers, FiniteSets, SequencesExt

CONSTANTS
  ClockMax,      \* PCR_GST_MAX_VALUE
  Sec,           \* GST_SECOND
  Window,        \* MAX_WINDOW: how many values the window has
  WindowTime,    \* MAX_TIME: up to when it is filled
  Weight,        \* the weight of the old skew in the average, of Weight + 1
  Threshold,     \* pcr_discont_threshold
  WrapThreshold, \* PTS_WRAP_DETECT_THRESHOLD
  FirstClock,    \* where the sender's clock may start
  Step, Jitters, \* between two PCRs; how late a packet may be
  Reorders,      \* [pts, dts]: how far ahead of the clock a frame's stamps are
  Jumps,         \* by how much the clock may be reset
  MaxClock, MaxResets    \* bounds

ASSUME SkewAssumption ==
  /\ ClockMax \in Nat /\ Sec \in Nat \ {0} /\ ClockMax > 60 * Sec
  /\ Window \in Nat \ {0} /\ WindowTime \in Nat \ {0} /\ Weight \in Nat
  /\ WrapThreshold \in Nat /\ Jitters \subseteq Nat /\ Step \in Nat \ {0}

Invalid == -1000000    \* GST_CLOCK_TIME_NONE
Valid(t) == t # Invalid

VARIABLES
  skPcr,      \* the fields of MpegTSPCR that the skew is calculated with
  skClock,    \* the sender's clock, its shift, when the last frame came
  skArrived,  \* the arrival time of the last PCR
  skStream,   \* what is kept for the stream of the frames
  skOut,      \* the last time stamps: what they should be and what was made of them
  skJumps

skewVars == <<skPcr, skClock, skArrived, skStream, skOut, skJumps>>

SkewInit ==
  /\ skPcr = [base |-> Invalid, basePcr |-> Invalid, last |-> Invalid, offset |-> 0,
              prevIn |-> 0, window |-> [k \in 0 .. Window - 1 |-> 0], pos |-> 0,
              size |-> 0, filling |-> TRUE, min |-> 0, skew |-> 0]
  /\ \E f \in FirstClock : skClock = [clock |-> 0, shift |-> f, frame |-> 0]
  /\ skArrived = 0
  /\ skStream = [pts |-> Invalid, dts |-> Invalid, offset |-> 0, wraps |-> 0]
  /\ skOut = {} /\ skJumps = 0

-----------------------------------------------------------------------------
Magnitude(x) == IF x < 0 THEN -x ELSE x
(* A division in C rounds towards zero.                                     *)
Quotient(a, b) == IF a < 0 THEN -((-a) \div b) ELSE a \div b

(* calculate_skew, up to the first use of the arrival time: the PCR with    *)
(* the offset that corrects it, and how long ago by the sender's clock the  *)
(* base was taken.                                                          *)
Extended(pcr, time) ==
  LET old == skPcr
      first == old.offset + pcr
      p == [old EXCEPT !.base = IF Valid(@) THEN @ ELSE time,
                       !.basePcr = IF Valid(@) THEN @ ELSE first]
      back == IF Valid(p.last) THEN p.last - first ELSE 0
      with(q, offset) ==
        [pcr |-> [q EXCEPT !.offset = offset, !.last = pcr + offset], time |-> time,
         sent |-> pcr + offset - q.basePcr]
  IN  IF back > ClockMax \div 2
      THEN with(p, p.offset + ClockMax)
      ELSE IF back > 15 * Sec /\ Valid(time)
      THEN with(p, p.offset + time - p.base + p.basePcr - first)
      ELSE IF back > 0
      THEN [pcr |-> [p EXCEPT !.last = first, !.basePcr = IF back < Sec THEN @ ELSE Invalid],
            time |-> IF back < Sec THEN Invalid ELSE time, sent |-> 0]
      ELSE with(p, p.offset)

(* mpegts_packetizer_resync                                                 *)
Resync(p, time) ==
  [p EXCEPT !.base = time, !.basePcr = p.last, !.filling = TRUE, !.pos = 0,
            !.min = 0, !.size = 0, !.skew = 0]

(* A new difference between the clocks while the window is being filled ... *)
Fill(p, delta, sent) ==
  LET n == p.pos + 1
      min == IF n = 1 \/ delta < p.min THEN delta ELSE p.min
      part == Max({Quotient(sent * 100, WindowTime), (n * 100) \div Window})
      q == [p EXCEPT !.window[p.pos] = delta, !.min = min]
  IN  IF sent >= WindowTime \/ n >= Window
      THEN [q EXCEPT !.size = n, !.skew = min, !.filling = FALSE, !.pos = 0]
      ELSE [q EXCEPT !.skew = Quotient(part * part * min + (10000 - part * part) * @, 10000),
                     !.size = n + 1, !.pos = n]

(* ... and afterwards, when it takes the place of the oldest.               *)
Slide(p, delta) ==
  LET window == [p.window EXCEPT ![p.pos] = delta]
      min == IF delta <= p.min THEN delta
             ELSE IF p.window[p.pos] = p.min
             THEN Min({window[k] : k \in 0 .. p.size - 1})
             ELSE p.min
  IN  [p EXCEPT !.window = window, !.min = min,
                !.skew = Quotient(min + Weight * @, Weight + 1),
                !.pos = IF @ + 1 >= p.size THEN 0 ELSE @ + 1]

(* calculate_skew                                                           *)
CalculateSkew(pcr, time) ==
  LET e == Extended(pcr, time)
      p == e.pcr
      delta == e.time - p.base - e.sent
      jump == Magnitude(delta - p.skew) > Threshold
      q == IF jump THEN Resync(p, e.time) ELSE p
      d == IF jump THEN 0 ELSE delta
  IN  [(IF ~Valid(e.time) \/ ~Valid(p.base) \/ e.time = p.prevIn THEN p
        ELSE IF q.filling THEN Fill(q, d, IF jump THEN 0 ELSE e.sent)
        ELSE Slide(q, d))
       EXCEPT !.prevIn = e.time]

-----------------------------------------------------------------------------
(* mpegts_packetizer_calculate_ts: a stamp that is behind the last by half  *)
(* the range has wrapped.  The offset is only changed when that has been    *)
(* seen WrapThreshold times, since stamps do not come in order.             *)
CalculateTs(stream, which, raw) ==
  LET last == stream[which]
      ts == raw + stream.offset
      wrapped == Valid(last) /\ last - ts > ClockMax \div 2
      fixed == IF wrapped THEN ts + ClockMax ELSE ts
      moved == IF ~wrapped THEN stream
               ELSE IF stream.wraps < WrapThreshold THEN [stream EXCEPT !.wraps = @ + 1]
               ELSE [stream EXCEPT !.offset = @ + ClockMax, !.wraps = 0]
      res == skPcr.base + skPcr.skew + fixed - skPcr.basePcr
  IN  IF ~Valid(skPcr.base) THEN [stream |-> stream, ts |-> Invalid]
      ELSE IF res >= 0 THEN [stream |-> [moved EXCEPT ![which] = fixed], ts |-> res]
      ELSE [stream |-> moved, ts |-> Invalid]

(* mpegts_packetizer_pts_to_ts with clock skew.                             *)
PtsToTsSkewed(raw) ==
  LET ts == raw + skPcr.offset
      res == skPcr.base + skPcr.skew + ts - skPcr.basePcr
  IN  IF Magnitude(ts - skPcr.last) > 15 * Sec \/ res <= 0 THEN Invalid ELSE res

-----------------------------------------------------------------------------
Raw(t) == (t + skClock.shift) % ClockMax

(* A PCR arrives.                                                           *)
ReceivePcr(jitter) ==
  /\ skClock.clock < MaxClock
  /\ LET t == skClock.clock + Step
         arrived == Max({skArrived, t + jitter})
     IN  /\ skClock' = [skClock EXCEPT !.clock = t]
         /\ skArrived' = arrived
         /\ skPcr' = CalculateSkew(Raw(t), arrived)
  /\ UNCHANGED <<skStream, skOut, skJumps>>

(* A frame arrives that is to be decoded and shown a little later.          *)
ReceiveFrame(f) ==
  LET pts == CalculateTs(skStream, "pts", Raw(skClock.clock + f.pts))
      dts == CalculateTs(pts.stream, "dts", Raw(skClock.clock + f.dts))
  IN  /\ Valid(skPcr.base) /\ skClock.frame < skClock.clock
      /\ skClock' = [skClock EXCEPT !.frame = skClock.clock]
      /\ skStream' = dts.stream
      /\ skOut' = {[due |-> skClock.clock + f.pts, live |-> pts.ts,
                    ts |-> PtsToTsSkewed(Raw(skClock.clock + f.pts))],
                   [due |-> skClock.clock + f.dts, live |-> dts.ts,
                    ts |-> PtsToTsSkewed(Raw(skClock.clock + f.dts))]}
      /\ UNCHANGED <<skPcr, skArrived, skJumps>>

(* The sender's clock is reset.                                             *)
Jump(by) ==
  /\ skJumps < MaxResets /\ skJumps' = skJumps + 1
  /\ skClock' = [skClock EXCEPT !.shift = (@ + by) % ClockMax]
  /\ skOut' = {}
  /\ UNCHANGED <<skPcr, skArrived, skStream>>

SkewNext ==
  \/ \E j \in Jitters : ReceivePcr(j)
  \/ \E f \in Reorders : ReceiveFrame(f)
  \/ \E by \in Jumps : Jump(by)
SkewSpec == SkewInit /\ [][SkewNext]_skewVars

-----------------------------------------------------------------------------
MaxJitter == Max(Jitters)

SkewTypeOK ==
  /\ skPcr.pos \in 0 .. Window - 1 /\ skPcr.size \in 0 .. Window
  /\ skPcr.filling \in BOOLEAN /\ DOMAIN skPcr.window = 0 .. Window - 1
  /\ skStream.wraps \in 0 .. WrapThreshold
  /\ skClock.clock \in 0 .. MaxClock + Step /\ skJumps \in 0 .. MaxResets

(* The skew is one that has been seen: between the least and the greatest   *)
(* difference of the clocks that jitter alone makes.                        *)
SkewBounded == skJumps = 0 => Magnitude(skPcr.skew) <= MaxJitter

(* The times of frames are true up to the jitter, also while the clock and  *)
(* the stamps wrap around one after the other, and a stream that has had    *)
(* time stamps goes on having them.                                         *)
TimesTrue ==
  skJumps = 0 =>
    \A o \in skOut :
      /\ o.ts \in {Invalid} \cup (o.due - MaxJitter) .. (o.due + MaxJitter)
      /\ o.live \in (IF skStream.pts = Invalid THEN {Invalid} ELSE {})
                    \cup (o.due - MaxJitter) .. (o.due + MaxJitter)

LiveTrue == SkewBounded /\ TimesTrue
=============================================================================
