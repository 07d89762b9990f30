------------------------------ MODULE MCTs ---------------------------------
(* Small instances of the nine parts of the MPEG-TS demuxer, checked        *)
(* together: `part` says which of them runs, the others stay as they are.   *)
EXTENDS TsSync, TsSections, TsPcr, TsSkew,
        TsPrograms, TsStreams, TsIO, TsCaps, TsFrames

VARIABLE part
tsVars == <<part, syncVars, sectionsVars, pcrVars, skewVars,
            programsVars, streamsVars, ioVars, capsVars, framesVars>>

-----------------------------------------------------------------------------
(* Packets of three sizes after and between garbage that may hold bytes     *)
(* that look like a sync byte.                                              *)
Others(n) == [k \in 1 .. n |-> "x"]
PacketOf(size) ==
  IF size = M2ts THEN Others(Prefix) \o <<"S">> \o Others(size - Prefix - 1)
  ELSE <<"S">> \o Others(size - 1)
RECURSIVE Packets(_, _)
Packets(size, n) == IF n = 0 THEN <<>> ELSE PacketOf(size) \o Packets(size, n - 1)
FileOf(size, g, n, g2, n2) ==
  LET second == Len(g) + n * size + Len(g2)
      starts == {Len(g) + k * size : k \in 0 .. n - 1} \cup {second + k * size : k \in 0 .. n2 - 1}
  IN  [bytes |-> g \o Packets(size, n) \o g2 \o Packets(size, n2),
       starts |-> starts, jumps |-> {Len(g) + size, second}]
MCSizes == <<3, 4, 5>>
MCFiles ==
  {FileOf(size, g, 5, g2, 6) :
     size \in {3, 4, 5}, g \in {<<>>, <<"x">>, <<"S", "x">>},
     g2 \in {<<>>, <<"x">>, <<"S">>, <<"x", "S">>}}

(* A table of two sections and a short one.                                 *)
MCCarousel ==
  <<[table |-> 1, ext |-> 1, number |-> 0, last |-> 1, long |-> TRUE, len |-> 6],
    [table |-> 1, ext |-> 1, number |-> 1, last |-> 1, long |-> TRUE, len |-> 3],
    [table |-> 2, ext |-> 0, number |-> 0, last |-> 0, long |-> FALSE, len |-> 3]>>

(* Clocks that run on, wrap around, are reset, or of a faster stream.       *)
Clock(n, first, step) ==
  [i \in 1 .. n |-> [offset |-> step * i, pcr |-> (first + step * i) % PcrMax, time |-> step * i]]
Reset(n, m, first, second) ==
  [i \in 1 .. n + m |->
     [offset |-> 5 * i, time |-> 5 * i,
      pcr |-> (IF i <= n THEN first + 5 * i ELSE second + 5 * (i - n)) % PcrMax]]
Faster(n, step) ==
  [i \in 1 .. n |-> [offset |-> IF i <= 4 THEN 5 * i ELSE 20 + 15 * (i - 4),
                     pcr |-> step * i, time |-> step * i]]
MCPcrFiles == {Clock(8, 0, 5), Clock(8, 985, 5), Clock(8, 970, 7), Clock(6, 100, 25),
               Reset(6, 4, 500, 100), Reset(6, 4, 100, 500), Reset(6, 3, 990, 0), Faster(8, 5)}
MCReorders == {[pts |-> 6, dts |-> 2], [pts |-> 2, dts |-> 2], [pts |-> 10, dts |-> 2]}
MCJumps == {-300, -5, 300}

-----------------------------------------------------------------------------
(* Programs: 1 that moves to another PMT, that is left for 2, or that both  *)
(* are there; tables that share, move and repeat PIDs.                      *)
MCRequests == {-1, 2}
MCPats == {(1 :> 101), (1 :> 101 @@ 2 :> 102), (2 :> 102), (1 :> 103 @@ 2 :> 102)}
MCPmts == {[streams |-> (11 :> "video" @@ 12 :> "audio"), pcr |-> 11],
           [streams |-> (11 :> "audio" @@ 13 :> "text"), pcr |-> 14],
           [streams |-> (15 :> "section" @@ 14 :> "none"), pcr |-> 14],
           [streams |-> (11 :> "video" @@ 12 :> "video"), pcr |-> 12]}

(* Frames of a video, an audio and a sparse stream, cut over packets, with   *)
(* and without stamps; one begins with a bad PES header.                    *)
PesPacket(stream, frame, start, key, pts, len, pcr) ==
  [stream |-> stream, frame |-> frame, start |-> start, bad |-> FALSE, key |-> key,
   pts |-> pts, len |-> len, pcr |-> pcr]
MCTsFiles ==
  {<<PesPacket(1, 1, TRUE, TRUE, 2, 0, -1), PesPacket(1, 1, FALSE, TRUE, 2, 0, -1),
     PesPacket(2, 2, TRUE, FALSE, 3, 2, 0), PesPacket(2, 2, FALSE, FALSE, 3, 2, -1),
     PesPacket(1, 3, TRUE, FALSE, 5, 0, -1), PesPacket(2, 4, TRUE, FALSE, -1, 2, 4),
     PesPacket(3, 5, TRUE, FALSE, 6, 1, -1), PesPacket(2, 4, FALSE, FALSE, -1, 2, -1),
     PesPacket(1, 3, FALSE, FALSE, 5, 0, -1), PesPacket(1, 6, TRUE, TRUE, 8, 0, 6),
     PesPacket(2, 7, TRUE, FALSE, 9, 1, 9), PesPacket(1, 8, TRUE, FALSE, 12, 0, 10)>>,
   <<PesPacket(2, 1, TRUE, FALSE, -1, 2, -1), PesPacket(2, 1, FALSE, FALSE, -1, 2, -1),
     [PesPacket(1, 2, TRUE, FALSE, 5, 0, -1) EXCEPT !.bad = TRUE],
     PesPacket(1, 3, TRUE, FALSE, 6, 0, 5), PesPacket(1, 3, FALSE, FALSE, 6, 0, 5),
     PesPacket(2, 4, TRUE, FALSE, 7, 1, 6), PesPacket(1, 5, TRUE, TRUE, 8, 0, 7),
     PesPacket(1, 6, TRUE, FALSE, 10, 0, 9), PesPacket(1, 7, TRUE, FALSE, 12, 0, 11)>>}

(* Files in blocks: PCRs all along, late, or only at the end.               *)
MCIoFiles ==
  {[size |-> 9, pcrs |-> {0, 1, 2, 4, 6, 8}, keys |-> {0, 3, 6}, tables |-> 0],
   [size |-> 10, pcrs |-> {1, 2, 5, 9}, keys |-> {1, 2, 7}, tables |-> 1],
   [size |-> 4, pcrs |-> {2, 3}, keys |-> {3}, tables |-> 2]}
MCSources == [pull : BOOLEAN, sized : BOOLEAN, seeks : BOOLEAN]

(* Programs of every family of stream types, registrations and descriptors. *)
Elementary(pid, type) ==
  [pid |-> pid, type |-> type, reg |-> "none", descs |-> {}, dovi |-> [profile |-> 0],
   dts |-> [core |-> FALSE, asset |-> 0], opus |-> 0, entries |-> <<>>,
   langs |-> <<"und">>, progressive |-> TRUE, described |-> "no"]
English == <<[lang |-> "en", type |-> 1]>>
ProgramOf(number, reg, streams) == [number |-> number, reg |-> reg, streams |-> streams]
MCCapsPrograms ==
  {ProgramOf(1, "none", <<Elementary(1, 27), Elementary(2, 15),
     [Elementary(3, 6) EXCEPT !.descs = {"teletext"}, !.entries = English]>>),
   ProgramOf(2, "none", <<Elementary(1, 36),
     [Elementary(2, 129) EXCEPT !.descs = {"dvb_ac3"}, !.described = "component"],
     [Elementary(3, 6) EXCEPT !.descs = {"subtitling"}, !.entries = English]>>),
   ProgramOf(3, "HDMV", <<Elementary(1, 234), Elementary(2, 131), Elementary(3, 128), Elementary(4, 144)>>),
   ProgramOf(10510, "GA94", <<Elementary(3401, 6), Elementary(4, 128),
     [Elementary(2, 6) EXCEPT !.reg = "DTS", !.descs = {"extension"}, !.dts.asset = 18]>>),
   ProgramOf(4, "none", <<[Elementary(5, 6) EXCEPT !.reg = "KLVA"],
     [Elementary(1, 6) EXCEPT !.reg = "DOVI", !.descs = {"dovi"}, !.dovi.profile = 5],
     [Elementary(2, 6) EXCEPT !.reg = "OPUS", !.descs = {"opus"}, !.opus = 2]>>),
   ProgramOf(5, "none", <<[Elementary(1, 33) EXCEPT !.descs = {"j2k"}, !.progressive = FALSE],
     Elementary(5, 1)>>),
   ProgramOf(6, "none", <<Elementary(1, 209)>>),
   ProgramOf(7, "none", <<[Elementary(3, 6) EXCEPT !.descs = {"isdb"}]>>)}
MCCapsModes == [thumbnail : BOOLEAN, only : {"all", "video", "audio"}, dolby : BOOLEAN]

(* Pictures of every codec whose key frames are looked for.                 *)
Unit(at, kind, num) == [at |-> at, kind |-> kind, num |-> num]
Picture(codec, total, units) == [codec |-> codec, total |-> total, units |-> units]
MCPictures ==
  {Picture("h264", 60, <<Unit(0, "aud", 0), Unit(6, "sps", 0), Unit(18, "pps", 0), Unit(26, "idr", 0), Unit(44, "idr", 0)>>),
   Picture("h264", 58, <<Unit(0, "sps", 0), Unit(12, "I", 3), Unit(30, "I", 3)>>),
   Picture("h264", 58, <<Unit(0, "aud", 0), Unit(12, "P", 3), Unit(30, "B", 3)>>),
   Picture("h264", 58, <<Unit(0, "aud", 0), Unit(12, "part", 3), Unit(30, "part", 3)>>),
   Picture("h264", 58, <<Unit(0, "aud", 0), Unit(12, "I", 3), Unit(30, "P", 3), Unit(44, "P", 3)>>),
   Picture("h265", 60, <<Unit(0, "vps", 0), Unit(9, "sps", 0), Unit(26, "pps", 0), Unit(40, "I", 0)>>),
   Picture("h265", 60, <<Unit(0, "aud", 0), Unit(9, "P", 0), Unit(26, "P", 0)>>),
   Picture("mpeg2", 60, <<Unit(0, "sps", 0), Unit(20, "gop", 0), Unit(30, "I", 0), Unit(45, "slice", 0)>>),
   Picture("mpeg2", 40, <<Unit(0, "P", 0), Unit(20, "slice", 0)>>),
   Picture("mpeg4", 40, <<Unit(0, "vos", 0), Unit(15, "I", 0)>>)}
MCUpstreams ==
  [size : {Unknown, 8}, length : {Unknown, 9}, duration : {Unknown, 10},
   op : {{"initial"}, {}, {"bytes"}, {"time"}, {"bytes", "time"}}]

-----------------------------------------------------------------------------
(* A part that does not run has one of its files.                           *)
Parts == {"sync", "sections", "pcr", "skew", "programs", "streams", "io", "caps", "frames"}

Still(name) == part # name

Init ==
  /\ part \in Parts
  /\ part = "sync"    \/ (Still("sync") /\ syFile = CHOOSE f \in Files : TRUE)
  /\ part = "pcr"     \/ (Still("pcr") /\ pcFile = CHOOSE f \in PcrFiles : TRUE)
  /\ part = "streams" \/ (Still("streams") /\ tsFile = CHOOSE f \in TsFiles : TRUE)
  /\ part = "io"      \/ (/\ Still("io")
                          /\ ioFile = CHOOSE f \in IoFiles : TRUE
                          /\ ioSource = CHOOSE x \in Sources : TRUE)
  /\ part = "caps"    \/ (Still("caps") /\ capsMode = CHOOSE m \in CapsModes : TRUE)
  /\ part = "frames"  \/ (/\ Still("frames")
                          /\ picture = CHOOSE p \in Pictures : TRUE
                          /\ upstream = CHOOSE u \in Upstreams : TRUE)
  /\ SyncInit /\ SectionsInit /\ PcrInit /\ SkewInit
  /\ ProgramsInit /\ StreamsInit /\ IoInit /\ CapsInit /\ FramesInit
  /\ Still("skew") => skClock.shift = CHOOSE f \in FirstClock : TRUE
  /\ Still("programs") => pg.requested = CHOOSE r \in Requests : TRUE

Next ==
  \/ /\ part = "sync" /\ SyncNext
     /\ UNCHANGED <<part, sectionsVars, pcrVars, skewVars, programsVars, streamsVars, ioVars, capsVars, framesVars>>
  \/ /\ part = "sections" /\ SectionsNext
     /\ UNCHANGED <<part, syncVars, pcrVars, skewVars, programsVars, streamsVars, ioVars, capsVars, framesVars>>
  \/ /\ part = "pcr" /\ PcrNext
     /\ UNCHANGED <<part, syncVars, sectionsVars, skewVars, programsVars, streamsVars, ioVars, capsVars, framesVars>>
  \/ /\ part = "skew" /\ SkewNext
     /\ UNCHANGED <<part, syncVars, sectionsVars, pcrVars, programsVars, streamsVars, ioVars, capsVars, framesVars>>
  \/ /\ part = "programs" /\ ProgramsNext
     /\ UNCHANGED <<part, syncVars, sectionsVars, pcrVars, skewVars, streamsVars, ioVars, capsVars, framesVars>>
  \/ /\ part = "streams" /\ StreamsNext
     /\ UNCHANGED <<part, syncVars, sectionsVars, pcrVars, skewVars, programsVars, ioVars, capsVars, framesVars>>
  \/ /\ part = "io" /\ IoNext
     /\ UNCHANGED <<part, syncVars, sectionsVars, pcrVars, skewVars, programsVars, streamsVars, capsVars, framesVars>>
  \/ /\ part = "caps" /\ CapsNext
     /\ UNCHANGED <<part, syncVars, sectionsVars, pcrVars, skewVars, programsVars, streamsVars, ioVars, framesVars>>
  \/ /\ part = "frames" /\ FramesNext
     /\ UNCHANGED <<part, syncVars, sectionsVars, pcrVars, skewVars, programsVars, streamsVars, ioVars, capsVars>>

Spec == Init /\ [][Next]_tsVars

-----------------------------------------------------------------------------
(* Each part's own properties, of the part that runs.                       *)

(* mpegts_try_discover_packet_size, mpegts_packetizer_next_packet and       *)
(* _push_section: whatever is lost or comes between, the packets that are   *)
(* there are found at their offsets, and a section that is delivered was    *)
(* sent, and none is lost that came whole.                                  *)
InputTrue ==
  /\ part = "sync" => SyncTypeOK /\ PacketsFound
  /\ part = "sections" => SectionsTypeOK /\ SectionsDelivered

(* record_pcr, pts_to_ts and calculate_skew: offsets and times of a file    *)
(* follow its PCRs, also beyond a wrap or a reset, and the clock of a live  *)
(* stream stays near the sender's.                                          *)
ClockTrue ==
  /\ part = "pcr" => PcrTypeOK /\ PcrTrue
  /\ part = "skew" => SkewTypeOK /\ LiveTrue

(* mpegts_base_apply_pat, _apply_pmt and gst_ts_demux_stream_added: after   *)
(* any change of the tables the program that plays is one that is sent, its *)
(* pads are those of its PMT, named apart, each with what it can play.      *)
PadsTrue ==
  /\ part = "programs" => ProgramsTypeOK /\ ProgramsTrue
  /\ part = "caps" => CapsTrue

(* gst_ts_demux_push_pending_data, scan_keyframe and the loop: what goes    *)
(* out is whole frames in order from a key frame near what was asked for,   *)
(* read from where the table of offsets says, and a key frame is found      *)
(* however the packets cut it.                                              *)
PlayTrue ==
  /\ part = "streams" => StreamsTypeOK /\ StreamsTrue
  /\ part = "io" => IoTypeOK /\ IoTrue
  /\ part = "frames" => FramesTypeOK /\ FramesTrue

(* See OncePerVersion and PadsOverlap.                                      *)
SectionsOnce == [][OncePerVersion]_sectionsVars
PadsHandOver == [][PadsOverlap]_programsVars
=============================================================================
