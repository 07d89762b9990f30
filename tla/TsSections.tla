----------------------------- MODULE TsSections -----------------------------
(***************************************************************************)
(* How gst/dvrtsdemux/mpegtspacketizer.c puts the sections of the tables   *)
(* (PAT, PMT, ...) of one PID together from the payloads of its packets.   *)
(*                                                                         *)
(* A sender repeats the sections of a carousel for ever, packs them into   *)
(* packets as it likes, and may update a table or announce the next        *)
(* version.  On the way packets are lost or duplicated.  The element may   *)
(* flush, or remove the PID and begin anew.                                *)
(*                                                                         *)
(* A payload is a sequence of cells: a cell is Stuffing or tells which     *)
(* section, and which part of it, it holds.                                *)
(***************************************************************************)
EXTENDS Integers, FiniteSets, SequencesExt

CONSTANTS
  Carousel,     \* a sequence of [table, ext, number, last, long, len]
  Cells,        \* the size of a payload
  ShortHead, LongHead,   \* how much of a section must be in its first packet
  Counter,      \* a continuity counter is a number modulo Counter
  MaxVersion, MaxFaults, MaxRestarts    \* bounds

ASSUME SectionsAssumption ==
  /\ Cells \in Nat /\ 1 < ShortHead /\ ShortHead < LongHead /\ LongHead < Cells
  /\ Counter \in Nat \ {0, 1}
  /\ \A i \in DOMAIN Carousel : Carousel[i].len >= LongHead

Stuffing == [pos |-> 0]
CounterUnset == -1

VARIABLES
  seSender,   \* the sender: its last section, how much of that it has sent,
              \* the version of the tables, the continuity counter
  seStream,   \* MpegTSPacketizerStream, or NoStream
  seNow,      \* the sections the last packet has completed
  seGot,      \* the sections with a version got since the stream was created
  seOwed,     \* can the section that is being sent still be put together?
  seDue,      \* what should have come out of the last packet
  seLost,     \* packets lost in a row
  seFaults, seRestarts

sectionsVars == <<seSender, seStream, seNow, seGot, seOwed, seDue, seLost,
                  seFaults, seRestarts>>

-----------------------------------------------------------------------------
(* The sender.                                                              *)

Form(s) == Carousel[s.index]
Slice(s, from, to) == [k \in 1 .. to - from |-> [section |-> s, pos |-> from + k]]
Whole(s) == Slice(s, 0, Form(s).len)

(* The n sections after the one sent last; the first is announced for later *)
(* if `next`.                                                               *)
Begun(n, next) ==
  [k \in 1 .. n |->
     [index |-> ((seSender.section.index + k - 1) % Len(Carousel)) + 1,
      version |-> seSender.version + (IF next /\ k = 1 THEN 1 ELSE 0),
      current |-> ~(next /\ k = 1)]]

Rest == Slice(seSender.section, seSender.sent, Form(seSender.section).len)

(* A packet with what is left of the last section and the beginning of n    *)
(* others, which all find some room.                                        *)
Concat(ss) == FoldLeft(LAMBDA acc, s : acc \o Whole(s), Rest, ss)
Room(n) == IF n = 0 THEN Cells ELSE Cells - 1
Fits(begun) ==
  /\ Len(Rest) + Len(begun) > 0
  /\ begun # <<>> => Len(Concat(Front(begun))) < Room(1)
Packet(begun) ==
  LET all == Concat(begun)
  IN  [start |-> begun # <<>>, pointer |-> Len(Rest), cc |-> seSender.cc,
       cells |-> [k \in 1 .. Room(Len(begun)) |->
                    IF k <= Len(all) THEN all[k] ELSE Stuffing]]
Sent(begun) ==
  LET last == IF begun = <<>> THEN seSender.section ELSE Last(begun)
      over == Max({0, Len(Concat(begun)) - Room(Len(begun))})
  IN  [seSender EXCEPT !.section = last, !.sent = Form(last).len - over,
                       !.cc = (@ + 1) % Counter]

(* Can the k-th of the sections that begin here be put together?  Not if    *)
(* its head is cut off, and not what comes after one that is for later.     *)
Fair(begun, k) ==
  LET before == Len(Concat(SubSeq(begun, 1, k - 1)))
      f == Form(begun[k])
  IN  /\ \A j \in 1 .. k : begun[j].current
      /\ IF f.long THEN Room(1) - before >= LongHead
         ELSE Room(1) - before > f.len

-----------------------------------------------------------------------------
(* The receiver.                                                            *)

NoStream == [cc |-> CounterUnset, need |-> 0, data |-> <<>>, tables |-> <<>>, there |-> FALSE]
NewStream == [NoStream EXCEPT !.there = TRUE]

ClearSection(st) == [st EXCEPT !.cc = CounterUnset, !.need = 0, !.data = <<>>]

(* A section with table id and extension; short ones have no extension, no  *)
(* version and are numbered 0 of 0.                                         *)
Key(s) == [table |-> Form(s).table, ext |-> IF Form(s).long THEN Form(s).ext ELSE 0]
VersionOf(s) == IF Form(s).long THEN s.version ELSE 0
NumberOf(s) == IF Form(s).long THEN Form(s).number ELSE 0
LastOf(s) == IF Form(s).long THEN Form(s).last ELSE 0

SeenBefore_AnyVersion(st, s) ==
  /\ Key(s) \in DOMAIN st.tables
  /\ LET t == st.tables[Key(s)]
     IN  t.last = LastOf(s) /\ NumberOf(s) \in t.seen

(* seen_section_before                                                      *)
SeenBefore(st, s) ==
  /\ Key(s) \in DOMAIN st.tables
  /\ LET t == st.tables[Key(s)]
     IN  t.version = VersionOf(s) /\ t.last = LastOf(s) /\ NumberOf(s) \in t.seen

ParseSectionHeader_NotNoted(st) ==
  LET s == st.data[1].section
      fresh == [version |-> VersionOf(s), last |-> LastOf(s), seen |-> {}]
  IN  [ClearSection(st) EXCEPT !.tables = (Key(s) :> fresh) @@ @]

(* mpegts_packetizer_parse_section_header: the subtable that a complete     *)
(* section belongs to is found or made, and forgets what it has seen of     *)
(* another version.                                                         *)
ParseSectionHeader(st) ==
  LET s == st.data[1].section
      fresh == [version |-> VersionOf(s), last |-> LastOf(s), seen |-> {}]
      old == IF Key(s) \in DOMAIN st.tables THEN st.tables[Key(s)] ELSE fresh
      t == IF old.version = VersionOf(s) THEN old ELSE fresh
  IN  [ClearSection(st) EXCEPT
         !.tables = (Key(s) :> [t EXCEPT !.seen = @ \cup {NumberOf(s)}]) @@ @]

Drop(d, n) == SubSeq(d, n + 1, Len(d))
Most(n, d) == Min({n, Len(d)})

(* What mpegts_packetizer_push_section does from its label section_start on *)
(* with the data d, and from its label accumulate_data on.  The result is   *)
(* the stream and the sections found.                                       *)
RECURSIVE SectionStart(_, _, _, _), Accumulate(_, _, _, _)

SectionStart(st, d, cc, got) ==
  LET s == d[1].section
      more(rest) == rest # <<>> /\ rest[1] # Stuffing
      n == Most(Form(s).len, d)
  IN  IF Len(d) < ShortHead \/ d[1] = Stuffing
      THEN [stream |-> ClearSection(st), got |-> got]
      ELSE IF ~Form(s).long /\ Form(s).len < Len(d)
      THEN IF more(Drop(d, n))
           THEN SectionStart(st, Drop(d, n), cc, Append(got, SubSeq(d, 1, n)))
           ELSE [stream |-> st, got |-> Append(got, SubSeq(d, 1, n))]
      ELSE IF Form(s).long /\ (Len(d) < LongHead \/ ~s.current)
      THEN [stream |-> st, got |-> got]
      ELSE IF SeenBefore(st, s)
      THEN IF more(Drop(d, n)) THEN SectionStart(st, Drop(d, n), cc, got)
           ELSE [stream |-> st, got |-> got]
      ELSE IF NumberOf(s) > LastOf(s)
      THEN [stream |-> st, got |-> got]
      ELSE Accumulate([st EXCEPT !.need = Form(s).len, !.data = <<>>], d, cc, got)

Accumulate(st, d, cc, got) ==
  LET n == Most(st.need - Len(st.data), d)
      full == [st EXCEPT !.cc = cc, !.data = @ \o SubSeq(d, 1, n)]
  IN  IF Len(full.data) < full.need THEN [stream |-> full, got |-> got]
      ELSE SectionStart(ParseSectionHeader(full), Drop(d, n), cc, Append(got, full.data))

(* mpegts_packetizer_push_section                                           *)
PushSection(st0, p) ==
  LET st == IF st0.there THEN st0 ELSE NewStream
      continues == st.cc # CounterUnset /\ (st.cc + 1) % Counter = p.cc
  IN  IF ~st0.there /\ ~p.start THEN [stream |-> st0, got |-> <<>>]
      ELSE IF p.start /\ (p.pointer = 0 \/ ~continues)
      THEN SectionStart(ClearSection(st), Drop(p.cells, p.pointer), p.cc, <<>>)
      ELSE IF ~continues THEN [stream |-> ClearSection(st), got |-> <<>>]
      ELSE Accumulate(st, p.cells, p.cc, <<>>)

-----------------------------------------------------------------------------
SectionsInit ==
  /\ seSender = [section |-> [index |-> Len(Carousel), version |-> 0, current |-> TRUE],
                 sent |-> Carousel[Len(Carousel)].len, version |-> 0, cc |-> 0]
  /\ seStream = NoStream
  /\ seNow = <<>> /\ seGot = {} /\ seOwed = FALSE /\ seDue = {}
  /\ seLost = 0 /\ seFaults = 0 /\ seRestarts = 0

Versioned(got) == {c[1].section : c \in {x \in Range(got) : Form(x[1].section).long}}

(* A packet is sent; it arrives, or is lost, or arrives twice.              *)
SendPacket(n, next, fate) ==
  LET begun == Begun(n, next)
      p == Packet(begun)
      once == PushSection(seStream, p)
      twice == PushSection(once.stream, p)
      result == IF fate = "twice" THEN twice ELSE once
      inside == Sent(begun).sent < Form(Sent(begun).section).len
      done == {begun[k] : k \in {j \in 1 .. n : Fair(begun, j) /\ ~(j = n /\ inside)}}
  IN  /\ Fits(begun)
      /\ next => /\ n > 0 /\ Form(begun[1]).long
                  /\ seSender.version < MaxVersion
      /\ fate # "once" => seFaults < MaxFaults
      /\ seFaults' = seFaults + (IF fate = "once" THEN 0 ELSE 1)
      /\ seSender' = Sent(begun)
      /\ IF fate = "lost"
         THEN /\ seLost < Counter - 1 /\ seLost' = seLost + 1
              /\ seNow' = <<>> /\ seDue' = {} /\ seOwed' = FALSE
              /\ UNCHANGED <<seStream, seGot>>
         ELSE /\ seLost' = 0
              /\ seStream' = result.stream
              /\ seNow' = IF fate = "twice" THEN once.got \o twice.got ELSE once.got
              /\ seGot' = seGot \cup Versioned(seNow')
              /\ seDue' = done \cup (IF seOwed /\ ~(n = 0 /\ inside) /\ Rest # <<>>
                                     THEN {seSender.section} ELSE {})
              /\ seOwed' = IF n = 0 THEN seOwed /\ inside /\ fate = "once"
                           ELSE inside /\ Fair(begun, n)
      /\ UNCHANGED seRestarts

UpdateTables ==
  /\ seSender.version < MaxVersion
  /\ seSender' = [seSender EXCEPT !.version = @ + 1]
  /\ seNow' = <<>> /\ seDue' = {}
  /\ UNCHANGED <<seStream, seGot, seOwed, seLost, seFaults, seRestarts>>

(* mpegts_packetizer_flush, mpegts_packetizer_remove_stream                 *)
Restart(stream) ==
  /\ seRestarts < MaxRestarts /\ seRestarts' = seRestarts + 1
  /\ seStream.there
  /\ seStream' = stream /\ seOwed' = FALSE /\ seNow' = <<>> /\ seDue' = {}
  /\ seGot' = IF stream = NoStream THEN {} ELSE seGot
  /\ UNCHANGED <<seSender, seLost, seFaults>>

FlushSections == Restart(ClearSection(seStream))
RemoveStream == Restart(NoStream)

SectionsNext ==
  \/ \E n \in 0 .. 3, next \in BOOLEAN, fate \in {"once", "lost", "twice"} :
       SendPacket(n, next, fate)
  \/ UpdateTables
  \/ FlushSections
  \/ RemoveStream
SectionsSpec == SectionsInit /\ [][SectionsNext]_sectionsVars

-----------------------------------------------------------------------------
SectionsTypeOK ==
  /\ seSender.cc \in 0 .. Counter - 1
  /\ seSender.sent \in 0 .. Form(seSender.section).len
  /\ seStream.cc \in -1 .. Counter - 1
  /\ Len(seStream.data) <= seStream.need
  /\ seLost \in 0 .. Counter - 1 /\ seOwed \in BOOLEAN

(* What is handed out is what was sent: all of one section, in order, and   *)
(* of no table that does not apply yet, whatever is lost or comes twice.    *)
Genuine ==
  \A c \in Range(seNow) : c = Whole(c[1].section) /\ c[1].section.current

(* A section of a table is handed out once in each version, even if its     *)
(* packet comes twice.                                                      *)
OncePerVersion ==
  LET long == SelectSeq(seNow', LAMBDA c : Form(c[1].section).long)
  IN  /\ seGot' # {} => Versioned(seNow') \cap seGot = {}
      /\ Cardinality(Versioned(seNow')) = Len(long)

(* No section is lost while all its packets arrive and there is room for    *)
(* its head.                                                                *)
NoneLost ==
  \A s \in seDue : Whole(s) \in Range(seNow) \/ s \in seGot

SectionsDelivered == Genuine /\ NoneLost
=============================================================================
