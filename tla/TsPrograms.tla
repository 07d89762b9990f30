----------------------------- MODULE TsPrograms -----------------------------
(***************************************************************************)
(* The programs of a transport stream: how gst/dvrtsdemux/mpegtsbase.c     *)
(* follows the tables (PAT, PMT) that announce them, and how tsdemux.c     *)
(* chooses the one it plays and shows the pads of its streams.             *)
(*                                                                         *)
(* A sender changes its tables as it likes, one version at a time.  A      *)
(* table is applied when a section of it arrives on a PID that is known to *)
(* carry sections, in a version that was not the last one (see             *)
(* TsSections).  Programs are instances: a new version of a program is a   *)
(* new instance, the old one may outlive it until its pads are removed.    *)
(***************************************************************************)
EXTENDS Integers, FiniteSets, SequencesExt

CONSTANTS
  Pats,        \* tables that map program numbers to PIDs of PMTs
  Pmts,        \* program tables: [streams: PID -> type, pcr: PID]
  Requests,    \* values of the property program-number; -1: any
  Updating,    \* real_time, and the application is aware of streams
  MaxSenders, MaxStops   \* bounds: changes of the tables, flushes and resets

NoOne == 0
NoPid == 8191           \* 0x1fff
AnyProgram == -1
Numbers == UNION {DOMAIN t : t \in Pats}
Instances == 1 .. Cardinality(Numbers) + 2

ASSUME ProgramsAssumption ==
  /\ \A t \in Pats : \A n \in DOMAIN t : n \in Nat /\ t[n] \in 1 .. NoPid - 1
  /\ \A t \in Pmts : t.pcr \in 1 .. NoPid
  /\ Updating \in BOOLEAN /\ MaxSenders \in Nat /\ MaxStops \in Nat

VARIABLES
  pg,      \* the element; hash: program number -> instance
  pgAir,   \* what the sender says: [pat, pmts], and how often it has changed
  pgStops

programsVars == <<pg, pgAir, pgStops>>

-----------------------------------------------------------------------------
(* The types of streams, from what they do to their program (see TsCaps).   *)
HasPad(type) == type \in {"video", "audio", "text"}
IsSection(type) == type = "section"
Sections(pmt) == {p \in DOMAIN pmt.streams : IsSection(pmt.streams[p])}
MediaPids(pmt) == DOMAIN pmt.streams \ Sections(pmt)

NoPmt == [streams |-> <<>>, pcr |-> NoPid]
NoInstance == [number |-> NoOne]
NewProgram(n, pid, patcount) ==
  [number |-> n, pmtPid |-> pid, pcr |-> -1, patcount |-> patcount, active |-> FALSE,
   pmt |-> NoPmt, streams |-> <<>>]

(* is_valid_program and video_num, as the pads of the streams set them.     *)
IsValid(p) == \E x \in DOMAIN p.pmt.streams : p.pmt.streams[x] \in {"video", "audio"}
VideoNum(p) == Cardinality({x \in DOMAIN p.pmt.streams : p.pmt.streams[x] = "video"})

Live(s) == {i \in Instances : s.inst[i] # NoInstance}
Unused(s) == CHOOSE i \in Instances \ Live(s) : TRUE
Tracked(s) == {s.hash[n] : n \in DOMAIN s.hash}
PadOf(s, i, x) == <<i, x, s.inst[i].streams[x]>>
PadsOf(s, i) ==
  {PadOf(s, i, x) : x \in {y \in DOMAIN s.inst[i].streams : HasPad(s.inst[i].streams[y])}}

(* mpegts_pid_in_active_programs: of the programs that are tracked.         *)
InActivePrograms(s, pid) ==
  \E i \in Tracked(s) : s.inst[i].active /\ pid \in DOMAIN s.inst[i].streams

-----------------------------------------------------------------------------
(* mpegts_base_deactivate_program, with program_remove_stream for its       *)
(* streams and gst_ts_demux_program_stopped.                                *)
Deactivated_Unshared(s, i) ==
  LET p == s.inst[i]
      gone == DOMAIN p.pmt.streams \cup {p.pcr}
  IN  IF ~p.active THEN s
      ELSE [s EXCEPT
        !.inst[i].active = FALSE,
        !.inst[i].streams = [x \in DOMAIN p.streams \ gone |-> p.streams[x]],
        !.pads = @ \ {PadOf(s, i, x) : x \in gone \cap DOMAIN p.streams},
        !.isPes = @ \ ((gone \ Sections(p.pmt)) \cup {p.pcr}),
        !.knownPsi = @ \ Sections(p.pmt),
        !.current = IF @ = i THEN NoOne ELSE @,
        !.number = IF s.current = i THEN AnyProgram ELSE @]
Deactivated(s, i) ==
  LET p == s.inst[i]
      gone == DOMAIN p.pmt.streams \cup {p.pcr}
      stopped == [s EXCEPT !.inst[i].active = FALSE,
                           !.inst[i].streams = [x \in DOMAIN p.streams \ gone |-> p.streams[x]],
                           !.pads = @ \ {PadOf(s, i, x) : x \in gone \cap DOMAIN p.streams}]
      unused == {x \in gone : ~InActivePrograms(stopped, x)}
  IN  IF ~p.active THEN s
      ELSE [stopped EXCEPT
        !.isPes = @ \ ((unused \ Sections(p.pmt)) \cup ({p.pcr} \cap unused)),
        !.knownPsi = @ \ (unused \cap Sections(p.pmt)),
        !.current = IF @ = i THEN NoOne ELSE @,
        !.number = IF s.current = i THEN AnyProgram ELSE @]

(* mpegts_base_deactivate_and_free_program                                  *)
Freed(s, i) == [Deactivated(s, i) EXCEPT !.inst[i] = NoInstance]
FreedIfAny(s, i) == IF i = NoOne THEN s ELSE Freed(s, i)

(* The program n is no longer tracked: mpegts_base_steal_program, remove_program. *)
Stolen(s, n) == [s EXCEPT !.hash = [m \in DOMAIN s.hash \ {n} |-> s.hash[m]]]
Removed(s, n) == Freed(Stolen(s, n), s.hash[n])

(* The same, if the program that plays is kept until the next one does:     *)
(* gst_ts_demux_can_remove_program.                                         *)
Dropped_AtOnce(s, n) == Removed(s, n)
Dropped(s, n) ==
  IF s.hash[n] = s.current
  THEN [Stolen(s, n) EXCEPT !.previous = s.current, !.number = AnyProgram]
  ELSE Removed(s, n)

(* gst_ts_demux_program_started: the pads of program i are added, then those *)
(* of the previous program removed.                                         *)
Wanted(s, i) ==
  \/ s.requested = s.inst[i].number
  \/ s.requested = AnyProgram /\ s.number = AnyProgram
Conforms(s, i) ==
  VideoNum(s.inst[i]) >= 2 => Cardinality(DOMAIN s.pat \ {0}) < 2
Started(s, i) ==
  IF ~(Wanted(s, i) /\ Conforms(s, i)) THEN s
  ELSE LET t == [s EXCEPT !.number = s.inst[i].number, !.current = i,
                          !.pads = @ \cup PadsOf(s, i)]
       IN  [FreedIfAny(t, s.previous) EXCEPT !.previous = NoOne]

(* mpegts_base_activate_program                                             *)
Activated(s, i, pid, pmt) ==
  LET media == MediaPids(pmt)
      pcr == IF Updating THEN NoPid ELSE pmt.pcr
      t == [s EXCEPT
              !.inst[i] = [@ EXCEPT !.pmtPid = pid, !.pmt = pmt, !.pcr = pcr, !.active = TRUE,
                             !.streams = [x \in DOMAIN pmt.streams \cup {pmt.pcr} |->
                                IF x \in DOMAIN pmt.streams THEN pmt.streams[x] ELSE "pcr"]],
              !.knownPsi = (@ \cup Sections(pmt)) \ media,
              !.isPes = @ \cup media \cup {pmt.pcr}]
  IN  IF s.inst[i].active THEN s
      ELSE IF DOMAIN pmt.streams # {} /\ IsValid(t.inst[i]) THEN Started(t, i) ELSE t

-----------------------------------------------------------------------------
(* mpegts_base_apply_pat.  A program is counted once for every table that   *)
(* names it, and dropped when none does.                                    *)
Renumbered(s, n) ==
  LET pid == s.pat[n]
      i == s.hash[n]
  IN  IF n \in DOMAIN s.hash
      THEN [s EXCEPT !.knownPsi = IF s.inst[i].pmtPid = pid THEN @
                                  ELSE (@ \ {s.inst[i].pmtPid}) \cup {pid},
                     !.inst[i].pmtPid = pid, !.inst[i].patcount = @ + 1]
      ELSE LET j == Unused(s)
           IN  [s EXCEPT !.knownPsi = @ \cup {pid}, !.inst[j] = NewProgram(n, pid, 1),
                         !.hash = [m \in DOMAIN s.hash \cup {n} |-> IF m = n THEN j ELSE s.hash[m]]]
ForgetPid(s, pid) == [s EXCEPT !.heard = {h \in @ : h.pid # pid}]
Unlisted(s, n, pid) ==
  LET t == [s EXCEPT !.inst[s.hash[n]].patcount = @ - 1]
      u == Dropped(t, n)
  IN  IF t.inst[s.hash[n]].patcount > 0 THEN t
      ELSE ForgetPid([u EXCEPT !.knownPsi = @ \cup {pid}], pid)
InOrder(numbers) == SetToSortSeq(numbers, <)
ApplyPat(s, pat) ==
  LET t == FoldLeft(Renumbered, [s EXCEPT !.pat = pat], InOrder(DOMAIN pat))
      without(u, n) == IF n \in DOMAIN u.hash THEN Unlisted(u, n, s.pat[n]) ELSE u
  IN  [FoldLeft(without, t, InOrder(DOMAIN s.pat)) EXCEPT !.seenPat = TRUE]

(* mpegts_base_is_same_program                                              *)
SameProgram(p, pid, pmt) ==
  /\ p.pmtPid = pid /\ p.pcr = pmt.pcr
  /\ \A x \in DOMAIN pmt.streams : x \in DOMAIN p.streams /\ p.streams[x] = pmt.streams[x]
  /\ Cardinality(DOMAIN p.streams) =
       Cardinality(DOMAIN pmt.streams) + (IF p.pcr \in DOMAIN pmt.streams THEN 0 ELSE 1)

(* mpegts_base_is_program_update                                            *)
IsUpdate(p, pid, pmt) ==
  /\ p.pmtPid = pid
  /\ \E x \in MediaPids(pmt) : x \in DOMAIN p.streams /\ p.streams[x] = pmt.streams[x]

(* mpegts_base_update_program, with gst_ts_demux_update_program.  Streams   *)
(* that are gone have been taken out of the program when it is asked to     *)
(* remove those with their PIDs, so that it is the new stream of the same   *)
(* PID, if any, that is removed.                                            *)
Updated(s, i, pmt) ==
  LET p == s.inst[i]
      stays == {x \in DOMAIN p.streams : x \in DOMAIN pmt.streams /\ p.streams[x] = pmt.streams[x]}
      gone == DOMAIN p.streams \ stays
      t == [s EXCEPT !.inst[i].pmt = pmt, !.inst[i].streams = pmt.streams]
  IN  [t EXCEPT !.pads = (@ \cup PadsOf(t, i)) \ {PadOf(t, i, x) : x \in gone \cap DOMAIN pmt.streams},
                !.inst[i].streams = [x \in DOMAIN pmt.streams \ gone |-> pmt.streams[x]]]

(* mpegts_base_apply_pmt, for a section of program n that came on pid.      *)
Replaced(s, n, pid, pmt) ==
  LET old == s.hash[n]
      t == Dropped(s, n)
      i == Unused(t)
      u == [t EXCEPT !.inst[i] = NewProgram(n, pid, s.inst[old].patcount),
                     !.hash = [m \in DOMAIN t.hash \cup {n} |-> IF m = n THEN i ELSE t.hash[m]]]
  IN  Activated(u, i, pid, pmt)
ApplyPmt(s, n, pid, pmt) ==
  IF ~s.seenPat THEN ForgetPid(s, pid)
  ELSE IF n \notin DOMAIN s.hash THEN s
  ELSE LET p == s.inst[s.hash[n]]
       IN  IF Updating /\ IsUpdate(p, pid, pmt) THEN Updated(s, s.hash[n], pmt)
           ELSE IF SameProgram(p, pid, pmt) THEN s
           ELSE IF p.active THEN Replaced(s, n, pid, pmt)
           ELSE Activated(s, s.hash[n], pid, pmt)

-----------------------------------------------------------------------------
ProgramsInit ==
  /\ \E r \in Requests :
       pg = [inst |-> [i \in Instances |-> NoInstance], hash |-> <<>>, pat |-> <<>>,
             seenPat |-> FALSE, current |-> NoOne, previous |-> NoOne, number |-> AnyProgram,
             requested |-> r, isPes |-> {}, knownPsi |-> {}, pads |-> {}, heard |-> {}]
  /\ pgAir = [pat |-> CHOOSE t \in Pats : TRUE,
              pmts |-> [n \in Numbers |-> CHOOSE t \in Pmts : TRUE], changes |-> 0]
  /\ pgStops = 0

Said(pid, n, what) == [pid |-> pid, table |-> n, says |-> what]
Heard(s, pid, n, what) ==
  [s EXCEPT !.heard = {h \in @ : h.pid # pid \/ h.table # n} \cup {Said(pid, n, what)}]

(* mpegts_base_chain, handle_psi: a section arrives that was not the last   *)
(* of its table.                                                            *)
HearPat ==
  /\ Said(0, 0, pgAir.pat) \notin pg.heard
  /\ pg' = ApplyPat(Heard(pg, 0, 0, pgAir.pat), pgAir.pat)
  /\ UNCHANGED <<pgAir, pgStops>>
HearPmt ==
  \E n \in DOMAIN pgAir.pat :
    LET pid == pgAir.pat[n]
        pmt == pgAir.pmts[n]
    IN  /\ pid \in pg.knownPsi \ pg.isPes
        /\ Said(pid, n, pmt) \notin pg.heard
        /\ pg' = ApplyPmt(Heard(pg, pid, n, pmt), n, pid, pmt)
        /\ UNCHANGED <<pgAir, pgStops>>

SenderChanges ==
  /\ pgAir.changes < MaxSenders
  /\ \/ \E t \in Pats \ {pgAir.pat} : pgAir' = [pgAir EXCEPT !.pat = t, !.changes = @ + 1]
     \/ \E n \in DOMAIN pgAir.pat : \E t \in Pmts \ {pgAir.pmts[n]} :
          pgAir' = [pgAir EXCEPT !.pmts[n] = t, !.changes = @ + 1]
  /\ UNCHANGED <<pg, pgStops>>

(* FLUSH_STOP: what has been heard is still known not to be new.            *)
FlushStop ==
  /\ pgStops < MaxStops
  /\ pg' = [pg EXCEPT !.seenPat = FALSE]
  /\ pgStops' = pgStops + 1 /\ UNCHANGED pgAir

(* mpegts_base_reset, gst_ts_demux_reset                                    *)
ResetPrograms ==
  /\ pgStops < MaxStops
  /\ LET s == [pg EXCEPT !.pat = <<>>, !.seenPat = FALSE, !.isPes = {}, !.knownPsi = {},
                         !.heard = {}]
         t == FoldLeft(Removed, s, InOrder(DOMAIN pg.hash))
     IN  pg' = [FreedIfAny(t, pg.previous) EXCEPT !.previous = NoOne]
  /\ pgStops' = pgStops + 1 /\ UNCHANGED pgAir

ProgramsNext == HearPat \/ HearPmt \/ SenderChanges \/ FlushStop \/ ResetPrograms
ProgramsSpec == ProgramsInit /\ [][ProgramsNext]_programsVars

-----------------------------------------------------------------------------
ProgramsTypeOK ==
  /\ pg.requested \in Requests /\ pg.number \in Numbers \cup {AnyProgram}
  /\ pg.seenPat \in BOOLEAN
  /\ DOMAIN pg.hash \subseteq Numbers /\ Tracked(pg) \subseteq Instances
  /\ pg.pads \subseteq Instances \X (1 .. NoPid) \X {"video", "audio", "text"}
  /\ pg.isPes \subseteq 1 .. NoPid /\ pg.knownPsi \subseteq 1 .. NoPid

(* No instance is lost or used after it was freed: the live ones are those   *)
(* that are tracked and the previous program; the one that plays is one of   *)
(* them.                                                                    *)
NoDangling ==
  /\ Live(pg) = Tracked(pg) \cup ({pg.previous} \ {NoOne})
  /\ pg.current # NoOne => pg.current \in Live(pg)
  /\ \A n \in DOMAIN pg.hash : pg.inst[pg.hash[n]].number = n

(* The pads that are shown are those of the streams of the program that     *)
(* plays: none is left behind and none missing.                             *)
PadsMatch == pg.pads = (IF pg.current = NoOne THEN {} ELSE PadsOf(pg, pg.current))

(* Packets find their way: the PIDs of the media of active programs are     *)
(* handled as such and no others; the PIDs of their sections and those of   *)
(* the PMTs are read for sections.                                          *)
Routed ==
  LET active == {i \in Live(pg) : pg.inst[i].active}
      tracked == active \cap Tracked(pg)
      media(i) == MediaPids(pg.inst[i].pmt) \cup {pg.inst[i].pmt.pcr}
  IN  /\ UNION {media(i) : i \in tracked} \subseteq pg.isPes
      /\ pg.isPes \subseteq UNION {media(i) : i \in active}
      /\ \A i \in tracked : Sections(pg.inst[i].pmt) \subseteq pg.knownPsi
      /\ \A n \in DOMAIN pg.pat : pg.pat[n] \in pg.knownPsi

(* If nothing plays, there is nothing that could: no active program that is *)
(* wanted and has media.                                                    *)
PlaysIfAny ==
  pg.current = NoOne =>
    \A i \in Tracked(pg) :
      ~(pg.inst[i].active /\ IsValid(pg.inst[i]) /\ Wanted(pg, i) /\ VideoNum(pg.inst[i]) < 2)

ProgramsTrue == NoDangling /\ PadsMatch /\ Routed /\ PlaysIfAny

(* While streams are switched there are always pads: those of the old       *)
(* program are removed when those of the new one have been added.           *)
PadsOverlap == pg.pads # {} /\ pgStops' = pgStops => pg'.pads # {}
=============================================================================
