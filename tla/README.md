# A model of gst-plugins-cool

TLA+ specifications of the parts of this repository in which several threads
meet or in which a long sequence of steps must add up: the adaptive demuxer and
its DASH subclass with the manifest (`gst/dvrdashdemux`), the MPEG-TS demuxer
(`gst/dvrtsdemux`), the ISO MP4 demuxer (`gst/dvrisomp4`), the decoder proxy
(`gst/decproxy`) and four small elements. TLC checks small instances, TLAPS
proves invariants for every value of the constants.

    tlc -workers 2 -config DashPlay.cfg MCDashStream     # a run
    tlapm AdaptiveDemux_proofs.tla                       # the proofs

| module | models |
|---|---|
| `AdaptiveDemux` | the threads of `GstAdaptiveDemux` and the stream lists |
| `DecProxy` | the change of decoders in `GstDecProxy` |
| `MpdParse`, `MpdSetup` | the manifest as it is read; periods, remote elements, streams |
| `MpdSegments` | position, seek and advance in the segments of a stream |
| `DashStream` | the download of one DASH stream, with retries and switches |
| `Playback` | what that download promises (abstract) |
| `TsSync`, `TsSections`, `TsPcr`, `TsSkew` | the packetizer: packets, sections, clock references, live clock |
| `TsPrograms`, `TsIO` | the base class: programs, the scan and the trick modes |
| `TsStreams`, `TsCaps`, `TsFrames` | the demuxer: PES data and time, caps and pads, key frames and queries |
| `QtPush`, `QtLoop` | the MP4 demuxer as it is pushed, and as it pulls |
| `QtIndex`, `QtSamples`, `QtCenc`, `QtBoxes` | its sample tables and fragments, encryption, indexes and other boxes |
| `QtStreams`, `QtCaps`, `QtEdits`, `QtTags` | tracks and pads, descriptions, edit lists, tags and redirections |
| `DolbyCombiner`, `StreamIdDemux`, `DynAppSrc`, `FakeAdec` | the elements of these names |
| `Elements` | the four small elements together |
| `..._proofs`, `DashStream_plays` | theorems about the module in the name (`Ts_proofs`: `TsSync`) |
| `MC...` | instances for TLC |

An operator with an underscore in its name (`TakeOld_Kept`) is a faulty variant
of the one after it: put in its place, it breaks one property, which
shows that the property depends on that code (`mutants` in `PROJECT.json`).

Contents: 1 inventory, 2 plan, 3 `AdaptiveDemux`, 4 `DecProxy`, 5 `DashStream`
and its companions, 6 the manifest, 7 MPEG-TS, 8 MP4, 9 small elements,
10 disagreements found, 11 what is proved, 12 what is not covered.

## 1. Inventory

Lines are those of the component's own C files. "Hard" is what a test would
hardly reach; the lines where it bites are in the hazard list of
`PROJECT.json`.

### Adaptive playback (`gst/dvrdashdemux`, 15800 lines)

**Adaptive demuxer threads** (`gstadaptivedemux.c`). State: the lists
`streams`, `prepared_streams`, `next_streams`, `old_streams`; per stream
`cancelled`, `download_finished`, `do_block`, `last_ret`, a download task and a
source element; `preroll_pending`, the running flag, the current period.
Operations: manifest EOS, SEEK, FLUSH_START/STOP, state changes (under
`api_lock`); the download loop (task); `_src_chain`, `_src_event` (streaming
thread of the source); `handle_message` (any thread); `updates_loop` for live
streams. Locks: `api_lock`, the recursive `manifest_lock`, `preroll_lock`,
per-stream `fragment_download_lock`, `segment_lock`, `manifest_update_lock`.
Hard: `manifest_lock` is given up in the middle of list walks, around joins and
pad changes; preroll is a rendezvous of all streams of a set. Correct when
each stream has one owner, stopped threads stay stopped, preroll releases its
waiters, periods follow each other, every call ends.

**DASH subclass** (`gstdashdemux.c`). State per stream: the active
representation, the sidx index with its current entry, the adapter with unread
data, the current file offset, the current box, a pending seek. Operations:
`update_fragment_info`, `data_received`, `fragment_finished`,
`advance_fragment`, `select_bitrate`, `stream_seek`, `seek`,
`update_manifest_data`, all called back by the base class under
`manifest_lock`. Hard: the state is built up over several requests (header,
index, media), reset in part by a switch or an advance, and relied upon by
retries. Correct when what is pushed is the file data with its offsets, behind
the right header, without gaps, from the seek target to the end.

**MPD parser** (`gstmpdparser.c`). State: `segment_index` and
`segment_repeat_index` per stream, the period. Operations: set-up of a
representation's segment list, seek, advance, next-fragment queries, counts.
Hard: two representations of segment lists (with repeats, negative ones
included) and templates, two directions, ends. Correct when stepping visits
each fragment once and seeking finds the one that holds the time.

### Containers

**MPEG-TS packetizer** (`dvrtsdemux/mpegtspacketizer.c`): section assembly per
PID, PCR/offset groups for seeking, wraparound of 33-bit clocks. Hard:
continuity errors and discontinuities between packets of one section, group
changes, wraps. Correct when a section is delivered once, whole, and times are
monotonic over a wrap.

**MPEG-TS base** (`mpegtsbase.c`), **demuxer** (`tsdemux.c`, `pesparse.c`) and
**parser element** (`mpegtsparse.c`): programs with their streams and reference
counts, PAT/PMT changes, pending PES data, segment and gap events. Hard: a PMT
that changes while PES data is pending, a program replaced by one that shares
PIDs, a seek between two packets. Correct when each PID in use belongs to a
live program and the data of a PES is pushed once with its program's segment.

**ISO MP4 demuxer** (`dvrisomp4/qtdemux.c`, `gstisoff.c`): push-mode state
machine (initial, header, movie, buffering mdat), pull loop, sample tables,
fragments, edit lists. Hard: push mode with `mdat` before `moov`, fragmented
files across seeks, sample-table arithmetic. Correct when every sample is
pushed once, in order, with the bytes its table names.
**MP4 atoms, dumps and types** are tables and dumps without state.

**MPEG-TS section library** (`gst-libs/gst/dvrmpegts`): stateless parsers of
tables and descriptors.

### Decoding and streams

**Decoder proxy** (`gst/decproxy`): state: `puppet` and `decoder` elements,
current/next/pending decoder state, blocking probes on the bridges, flags about
eaten flushes. Threads: streaming, flushing, application. Operations:
`sink_event`, `analyze_new_caps`, `switch_decoder`, `idle_reconfigure`,
`src_event`. Hard: the change is decided in one thread and made in another
when a pad happens to be idle; flushes meet it half way. Correct when there is
one decoder at a time, a decision is carried out, nothing stays blocked.

**Dolby stream combiner** (`dolbystreamcombiner`): alternates base and
enhancement layer buffers through collect pads, waits for two streams before
PAUSED. Hard: flush and EOS of one of the two pads.
**Stream-id demuxer** (`streamiddemux`): a source pad per stream id, an active
pad. Hard: a stream collection that changes while data flows (two locks).
**Split application sink** and **dynamic application sources**
(`splitappsink`, `dynappsrc`): bins whose children are added and removed around
state changes. Hard: a second READY-PAUSED cycle, additions in the middle of
one.
**Fake decoders** (`fakedec`): `fakevdec` passes data through; `fakeadec` throws
it away, each buffer when its time has come. State: flags `flushing`, `eos`,
`need_clock_waiting`, `exit_loop`, the base time last seen. Hard: the thread that
sleeps is woken by timers, flushes and state changes that share those flags
without always holding the lock. Correct when a sleeper always has a waker.

### Recording and protection

**MPO muxer** (`mpomux`): collects images of several pads into one file.
**DASH sink** (`dashsink`): segment files and a manifest written from several
pads. Hard: manifest and files out of step.
**DRM decryptors** (`cencdrm/*`), **DVR encryption** (`dvrdrm`), **DTCP to USB**
(`dtcp`): wrap closed libraries; the wait for a licence is the only protocol of
their own.

### Small pieces

**Convenience bins** (`avibin`, `httpextbin`, `textbin`, `tsinkbin`,
`dvcombbin`): fixed pipelines. **Reformatter**: a stateless conversion.
**Tracers** (`cooltracer`): observe and log. **Cool library**
(`gst-libs/gst/cool`): configuration and ranks at start-up.

### How they interact

playbin hands a manifest to the DASH demuxer; the base class calls the
subclass, the subclass the MPD parser, all in the threads of the base class
and under `manifest_lock`. Data goes through preroll to the exposed pads, to
the MP4 or TS demuxer (offsets and discontinuities matter there), to a
decryptor if need be, and to the decoder proxy, which swaps a puppet for a
hardware decoder when the application, through an upstream event, says so.

## 2. Plan

Order is by how much can go wrong and how little a test can see of it.

1. *(done)* `AdaptiveDemux`: threads, lists, preroll; all its safety properties proved.
2. *(done)* `DecProxy`: change of decoders and flushes; all its invariants proved.
3. *(done)* `MpdSegments`, `DashStream`, `Playback`: the download of a stream
   as a refinement of "media without a gap"; theorems about seek and advance.
4. *(done)* the MPEG-TS demuxer in nine modules, from bytes to buffers.
5. *(done)* the MP4 demuxer in ten modules, from boxes to buffers.
6. *(done)* `MpdParse`, `MpdSetup`: the manifest and what is set up from it.
7. *(done)* `DolbyCombiner`, `StreamIdDemux`, `DynAppSrc`, `FakeAdec`.
8. *(done)* `Elements_proofs`: `FakeAdec`, `DynAppSrc`, `StreamIdDemux`, `DolbyCombiner`.
9. *(open)* `LiveUpdates`: `updates_loop`, manifest expiry, waiting for the next
   fragment; promises: no lost wakeup, every expiry leads to an update.
10. *(open)* `ChunkedFragment`: key-unit mode with its chunk loop and range seeks.
11. *(done)* `DashStream_proofs`: `PushedTrue`, `RightEntry`, `Retried` for any files;
    `DashStream_plays`: `SeekHonoured` and the refinement of `Playback`.
12. *(done)* `QtPush_proofs`: the MP4 demuxer in push mode; `Ts_proofs`: offsets
    and places in the packetizer.
13. *(open)* proofs of the other invariants of the containers and of the
    manifest, which are only model-checked.

**Runs.** A run that reads "parts" (`TsPlay`, `QtPlay`, `Setup`) is a sum of
components that share no state: its variable `part` says which of them runs,
the other ones keep their initial value, so that its states are the sum
of theirs and not the product. A property of such a run names, per part, the
invariant of that component's module; the module's own text says what it means.

## 3. AdaptiveDemux

**State.** `streams`, `prepared`, `old`, `next` are the lists of the same names
as sets; `free` the objects not allocated; `xold`, `xtodo`, `aold`, `dfree[s]`
the local lists of `expose_streams`, a seek and the download loop, which own
what they hold while `manifest_lock` is given up. `manifest` and `preroll` are
lock owners. Flags carry the names of the fields. `dpc[s]`, `spc[s]`, `apc` say
where the download task, the streaming thread and the API call are.

**Actions.** `A...` the API call (`gst_adaptive_demux_handle_seek_event`, flush
events, `change_state` with `reset`, the manifest EOS), `D...` one iteration of
`download_loop`, `S...` `_src_chain`, `push_buffer` with preroll and
`expose_streams`, `_src_event`; `SourceError` is `handle_message`. An action is
the code from where a thread gets the lock to where it may be held up next.

| run | asks | instance |
|---|---|---|
| `ADSeek` | who owns a stream; what a call finds and leaves (`CallsAtRest`, `Resumed`); preroll; the advance to the next period (`NeverRefused`: nothing is prepared twice) | five streams in a pool, two periods (two streams, then one), one call, one error |
| `ADLive` | calls end, preroll ends | two streams, one call, fairness |
| `ADLateError`, `ADStaleEos` | disagreements, section 10 | |

**Bounds.** Two streams are the fewest that wait for each other in preroll; two
periods give both a next and a last one; the pool is as large as a call needs
when old streams are not yet freed (a call that finds no object free is not
taken, which is why the pool grows with the calls). Streams are symmetric in
the safety runs; `ADLive` has no symmetry. `NeverRefused` and `LastReleases` hold
with two periods, and with more when there is no seek: `ADStaleEos` has three
periods and a seek. Section 11 says what is proved without these bounds.

**Fairness** (`FairSpec`). Strong fairness of every thread's actions: a thread
waiting for a mutex gets it when it is free again and again, which GLib's
mutexes and the scheduler give; a source element eventually delivers a buffer
and EOS, or an error. Nobody has to make a call.

**Simplifications.** On-demand only, `is_static` is never set here. One
download per iteration of the loop; what happens inside a download is
`DashStream`'s subject. Left out: restart of unlinked streams
(NOT_LINKED/RECONFIGURE), the soft flush and `replaced` of live streams, the
end-of-manifest message and the `eos` flag, a partial failure of
`setup_all_streams`, the no-URL error. The streaming thread's stop is one step;
errors come from a thread apart from it; pads need their set-up after every
prepare; a switch of the representation while `next_streams` is set is left out
because `NeverRefused` shows that list empty. In the passing runs a stream
gives a buffer before it ends (fault `"empty"`), errors come from listed
streams (fault `"lateError"`), and a non-flushing seek changes its start
(`"keep"`): with each of those TLC finds a violation or a deadlock, see the
hazards at `gstadaptivedemux.c:2387`, `2389`, `4398`.

## 4. DecProxy

**State.** The three decoder states, `active` (the state that the last
`resource_info` asks for), the elements `puppet` and `decoder`, the probes
(`blocked` at the front's source pad, `frontProbes`, `eventProbe` at the back),
`hook` (the IDLE probe with `idle_reconfigure`: none, deferred, running in T
or A, or never removed), the flags about flushes, and the positions of three threads: T
(streaming), A (application, upstream event), F (flushing).

**Actions** go from lock point to lock point. `flush_lock` is held over a step
only by F when it has been woken and waits for the DECPROXY lock
(`flushAt = "relock"`). Pads, IDLE hooks and flushing flags behave as
GStreamer's do and are marked external; so is what upstream sends: sticky
events in order, then gaps and buffers.

**Run** `DecSwitch`: three requests, two flushes, seven items, both kinds of
failures of finding a decoder (video: error, audio: warning); 622 099 states.
Three requests are one that is carried out, one that comes during it and one
after; two flushes let the second meet what the first left; seven items are
the sticky events, data, and the sticky events that follow a flush.
Deadlock is not checked, because the code can deadlock (`DecLockCycle`), and
because upstream may simply stop.

**Fairness.** Weak fairness of each of the threads; upstream, the application
and the one who flushes need not begin anything.

**Left out:** events stored for the back bridge and the internal pad,
media-info messages, the secure element, a puppet that cannot be made,
`pad_unlinked`, dual-mono and DTS settings, joining the old decoder's output
thread (hazard at `gstdecproxy2.c:1657`).

## 5. DashStream, MpdSegments, Playback

**What is modelled.** One stream of an on-demand MPD, from a request for data to
what is pushed downstream, with three threads: D the download loop
(`gst_adaptive_demux_stream_download_loop`, `..._download_fragment`,
`..._download_uri`), S the streaming thread (`_src_chain`, `data_received`,
`parse_isobmff`, `handle_isobmff`, `_src_event`), U the source that fails
(`handle_message`). Seeks and stops while it runs are `AdaptiveDemux`'s
subject; here a playback starts from the beginning or from a seek target.

**Files** are made of units (a unit stands for some bytes of one box). Four
layouts: `"inline"`, a file per representation, moov sidx (moof mdat)*, of
which the MPD tells nothing; `"indexed"`, the same with Initialization and
indexRange in the MPD; `"list"` and `"template"`, a moof mdat per file and the moov
in one of its own. Buffers have one or two units, so that a box may be cut
anywhere and two may come at once.

**State.** The record `d` has the fields of `GstDashDemuxStream` and its base
that these functions use, under their names or those in the comments
(`queue` the adapter, `off` current_offset, `section`
current_index_header_or_data, `base` sidx_base_offset, `index` whose sidx the
parser holds, `entry` entry_index). `frag` and `todo` are the request, `src`
the source element's transfer. `push`, `moov`, `run`, `heard`, `at` record what
has been pushed; no action looks at them.

| code | action or operator |
|---|---|
| `update_fragment_info`, `update_headers_info` | `UpdateInfo`, `NoFragment` with `Request`, `Headers`, `IndexOnly` |
| `download_uri` | `Open`, `OpenFails`, `Woken` |
| `download_header_fragment`, `download_fragment` | `PartDone`, `Again`, `Cut` |
| `download_loop` | `Switched`, `Ended`, `StartOver`, `GiveUp` |
| `start_fragment`, `data_received` | `Receive` with `Begun` |
| `parse_isobmff` | `Parse` with `Parsed`, `ReadSidx` |
| `handle_isobmff` in an mdat | `Mdat` with `PushMdat`, `RefuseMdat` |
| `eos_handling`, `fragment_finished` | `SourceEos` with `FragmentFinished` |
| `advance_fragment`, `advance_subfragment` | `Advance`, `AdvanceFragment` |
| `select_bitrate` | `SwitchTo`, any representation |
| `update_manifest_data` | `Refetched` |
| `gst_mpd_client_advance_segment`, `..._stream_seek`, ... | `MpdSegments` |

**Promise.** `Playback` plays fragments of media: one that holds the place
reached, which moves on, or again one that has been played; the end may be
announced when everything has been played, or playback is given up. `Plays`
says that `DashStream` implements it, media being played when its moof and
mdat have been pushed as one piece. It covers the switch of the representation in
mid-file (the new file is pushed from the entry that holds the old position, so a
part may come twice, never be skipped), retries, backwards playback and seeks.
`Ends` says that the download ends.

`PushedTrue` adds that the media goes out behind its own header and with the
offsets of its file (`HeaderFirst`, `OffsetsTrue`).

**Run** `DashPlay`: all layouts forwards from the start, three representations
(two with entries at 0, 2, 4, the third at 0, 3); seeks to every time, forwards and
backwards; up to two changes and two faults out of: a refused request without
a status, a 5xx without data, a source that cannot be started;
`MAX_DOWNLOAD_ERROR_COUNT` is 1 instead of 3, so that two faults exhaust it.
128 686 states. Fairness: weak fairness of D and of S; U never has to act.
`Finished` keeps the end states from being deadlocks, so deadlock is checked.

**Left out of the passing run**, because TLC violates a property with it:
transfers that break off or whose error overtakes the data (`"broken"`,
`"overtakes"`: `PushedTrue`, `Retried`); seeks in an indexed file
(`SeekHonoured`), and playing one backwards (`RightEntry`: the file is requested
from its beginning as the first entry of a playback is, but the index stands at
the last; with four entries `Retried`); a refetched MPD with several representations (`RefetchOk`:
`PushedTrue`); backwards playback while changing between representations
whose entries begin at different times (`Plays`: the position stored for the
switch is where the entry begins, and the entry of the other representation
that holds it ends earlier than the media still to come). And because
the code answers them in a way no comment settles: a backwards seek behind the end
of a list, which ends at once; lists in a period that does not start at 0, where
`stream_seek` compares an absolute time with relative ones; a negative repeat,
of which the end is never noticed (`has_next_segment`).

**Not modelled:** live streams, key-unit trick mode with its chunk loop,
timestamps and positions of buffers, the tolerances of `sidx_seek`, a transfer
that ends early without an error, errors returned by a push downstream, the
order of events, queue2 (a buffer between U and S; `"overtakes"` is what it
makes possible).

## 6. The manifest: MpdParse, MpdSetup

`MpdParse` reads XML nodes into records as `gst_mpdparser_parse_*_node` do: each
property with its default, what is refused, what a Representation inherits from
its AdaptationSet and Period (`Infos`, `Nearest`), durations and dates from their
text (a sequence of numbers and what follows them). `MpdSetup` is the client: the
list of periods that is built as far as it is asked for and rebuilt when an
external element has been downloaded (`BuildOn`, `FetchPeriods`, `FetchSets`,
`FetchList`, any of which may fail), period, set and Representation chosen, the
segment list of a stream (`Setup...`), URLs from templates, availability, and
the demuxer's calls (`setup_streams`, `advance_period`, the seek of the
subclass, a change of the Representation). Positions in a segment list are
`MpdSegments`, used as an instance.

**Part** `mpd` of run `Setup`: four manifests, among them remote periods, sets and
lists, a live one and one with an anchor; every external element may fail to
come; three calls after each other with four times and two ids. `ManifestRight`:

- `PeriodsTrue`: in whatever order periods are asked for, and whatever was
  downloaded on the way, the list is the beginning of the whole one, without gaps;
- `SegmentsTrue`: the segments of a stream follow each other in their period,
  none twice, none without its URL, none available before an earlier one;
- `OutputsTrue`: the streams are those of the current period, each of its
  own active stream, pad and track;
- `SameMeaning`: a manifest and a twin that says the same in another
  order and on another level are read as the same.

**Bounds.** Three calls are one to enter a period, one to leave it and one to come
back or to be refused. Times are milliseconds, one of them on a boundary.

**Left out:** content protection, the refresh of a live manifest, the clock of a
live stream, `SegmentTemplate` identifiers with a width.

## 7. MPEG-TS: nine modules, run TsPlay

| part | module | what is in it | property |
|---|---|---|---|
| `sync` | `TsSync` | size of packets, the search for a sync byte, `map_offset`, flush | `PacketsFound`, `OffsetsMove` |
| `sections` | `TsSections` | sections out of packets that are lost, doubled, of several versions | `SectionsDelivered`, `SectionsOnce` |
| `pcr` | `TsPcr` | groups of PCRs, their offsets, `pts_to_ts`, `ts_to_offset`, `offset_to_ts` | `PcrTrue` |
| `skew` | `TsSkew` | the clock of a live stream, wraps and resets | `LiveTrue` |
| `programs` | `TsPrograms` | PAT and PMT, programs that are replaced, PIDs, pads | `ProgramsTrue`, `PadsHandOver` |
| `caps` | `TsCaps` | `create_pad_for_stream`, pads of a program | `CapsTrue` |
| `streams` | `TsStreams` | PES packets to buffers, held until all streams have a time, gaps, seeks | `StreamsTrue` |
| `io` | `TsIO` | the scan for the duration, pull and push, trick modes | `IoTrue` |
| `frames` | `TsFrames` | key frames of five codecs, answers to queries | `FramesTrue` |

The run's `InputTrue`, `ClockTrue`, `PadsTrue`, `PlayTrue` collect these with the
parts' type invariants. Of frames that are held, `NothingLost` in `TsStreams` says that they leave
before any later one, and why they may still wait: no stream that decides has a time
yet, or none has its segment; what is held after that goes in front of the stream's next
frame.

What upstream sends is a file chosen in the initial state, or a sender with
actions of its own (tables that change, packets that are lost, a clock with
jitter, wraps and resets); applications seek, flush and reset. Names of fields
are those of the code where it fits: `sy.offset` is `packetizer->offset`,
`pg.hash` the hash of programs, `tsOf[x].pending` the `pending` list of a stream.

**Bounds.** Sizes of packets are 3, 4, 5 instead of 188, 192, 204 and 208; a clock is
a number modulo 1000 (`PcrMax`) or 2000 (`ClockMax`) with tenths of a second, so
that a wrap comes within one short file; 200 packets back become 4 (`Back`), the
640 KiB of the scan 5 blocks (`HeadLen`); four changes of the tables are what it
takes to replace a program, take its PIDs and come back; two seeks are one that
leaves something behind and one that meets it. Each part has 100 to
50 000 states.

**What the properties leave out**, because TLC shows that the code does not do
it, is in their guards, each with a comment: a source that refused a seek
(`misled`), a slice header that was cut (`unsure`), clocks that wrapped between
groups that are not contiguous.

**Left out:** EIT, TDT and other tables than PAT and PMT, contents of
descriptors, joining of Dolby Vision dual tracks, headers of special audio,
liveness of the trick modes (an interval of 0 between key frames stands still).
The parser element `mpegtsparse` is not modelled.

## 8. ISO MP4: ten modules, run QtPlay

| part | module | what is in it | property |
|---|---|---|---|
| `push` | `QtPush` | the states of `gst_qtdemux_chain`, buffering of `mdat`, seeks, trick mode | `PushTrue` |
| `loop` | `QtLoop` | the task that pulls, edits, fragments, playing backwards | `LoopTrue` |
| `samples` | `QtSamples` | the six sample tables read piece by piece; `tfhd`, `trun` | `SamplesTrue` |
| `cenc` | `QtCenc` | vectors and keys of encrypted samples | `CencTrue` |
| `boxes` | `QtBoxes` | `sidx`, `mfra`, `pssh`, `uuid`, `mfhd`, `trex`; conversions | `BoxesTrue` |
| `streams` | `QtStreams` | headers that follow each other, pads that are taken over, tags and EOS on them | `QtStreamsTrue` |
| `caps` | `QtCaps` | sample descriptions, layers, pictures, frames of sound | `CapsRight` |
| `edits` | `QtEdits` | edit lists in push mode, clipping, growing duration | `EditsTrue` |
| `tags` | `QtTags` | the box tree, tags of four formats, reference movies, bitrates | `HeadTrue` |

`QtIndex` has what several of them look up in an index. The run's
properties are `PushRight` of the first part, which is proved (section 11), and
`PlayRight` (`loop`, `edits`), `SamplesRight` (`samples`, `cenc`, `boxes`),
`HeadRight` (`streams`, `caps`, `tags`), which collect the others.

`PlainFile` in `QtPush` says what a file is like for which the theorem holds. All
files of the run are plain but one, whose fragments come behind their media data
(`WholePiece`): there the data is kept and put back in front, and what lies behind the `moof` is set
aside together with its offset. When a buffer ends just where the `moof` does there is
nothing to set aside, and the offset is not remembered either: behind the
media data the demuxer goes on with the offset of the `moof`
(`qtdemux.c:7763-7796`, 7878), which TLC finds as soon as this file is not pushed
as one buffer.

`QtStreams` counts on every pad its starts, the tags of the file and the EOS:
`StartsOnce`, `ToldOnce` (once, and there as soon as the first segment is, however
many headers the pad lives through), `EndsOnce` (EOS on every pad that has
a stream, in pull mode once until a seek, or an error where there is no
stream) and `Counted` (`n_streams`, by which the code decides whether there is anything to
play). The first edit of every track is taken to be in reach, so that the
first SEGMENT goes to every pad. A stream that takes over from one without a pad has no pad
either (13295-13308); `ExposedAll` says so.

`QtCaps` reads the boxes behind a description one by one, with their lengths:
a box cut by the description, an empty one, `avcC` and `strf` in one description, maps and
channel definitions of JPEG 2000 whose length does not fit, palettes, blocks of
FLAC, version 2 of a sound description. **Not in it:** the endianness of `in24`
(`enda`), header fields of `owma` and `wma` and the header of Opus, the field handling and colour
table of JPEG and of `rle`, the wave atom of MS-style sound, the `damr` box of AMR. Of a
`strf` it assumes that its last 40 bytes, which the code reads as boxes, hold none,
and that it has at least those 40.

A file is a record chosen in the initial state: for `QtPush` a sequence of atoms
over cells (a cell is as long as a sample and as the head of an atom), for the
tables and boxes what their fields say. Upstream pushes buffers of one or
three cells, obeys a seek or refuses it; the application seeks both ways, with
and without a stop, in trick mode.

**Bounds.** Tables have seven samples in blocks that do not end
together; four fragments have every kind of base offset; three headers are
one, its successor and one that gets back what the first had; two seeks of
seven kinds. 500 000 states.

**Left out:** contents of subtitles and closed captions, splitting of
Dolby frames, the table of contents, queries other than seeking, the Smooth
Streaming header's XML. Times are small numbers; the rescaling between
timescales (and its wrap in `to_sample`) is not checked.

## 9. Small elements, run Setup

`DolbyCombiner` (part `dolby`): two threads bring caps, segments, tags, frames and
EOS of two layers, collect pads call the element when both have something; a seek
may come at any time in PAUSED, also before the first frame, the two FLUSH_STOPs come one
by one, the element is stopped and started, also between them. `DolbyTrue`: the i-th
buffer is the i-th base frame with the enhancement of the same number, both from after
the last flush; segment before data, EOS behind; no order of the threads leaves them
waiting on each other. Layers may differ in length. `SoundFeeds` says what the
demuxer sends: for each layer events and then frames, among the events the caps
of the layer and, for the base layer, its segment.

One case is an exception that `WellFramed` states (`Unprepared`): the code puts the
state to WAIT_BL at every FLUSH_STOP (860-863), also when it was NONE. Before the first
pair this makes `collected` skip `prepare` (678): no pad gets a type,
`choose_best_pad` finds none (740) and EOS goes out at once (762), without
STREAM_START, caps or a frame; it stays so until a restart. The same happens when a
FLUSH_STOP comes in while the element is being stopped, after the state was reset and before
the pads are deactivated. With pads that were typed before, a restart after
that plays, but does not send STREAM_START and caps again. Not modelled: flushes of
upstream's own outside a seek, and seeks outside of PAUSED (the source pad is not active).

`StreamIdDemux` (part `router`): what upstream shows is a sequence of
STREAM_START, STREAM_COLLECTION, buffers and EOS; `Replay` stops and starts. `RouterTrue`: a
pad has one stream; the active pad is one the element has; in each play every buffer goes
to one pad that was made in that play, and a pad is given what it gets in order
(`Delivered`). While the table is there, which is until the first stop (nothing makes it
again), a stream has one pad in it, and a pad in the table was given all that was sent of its
stream since it was made, once and in order; without it every STREAM_START makes a
pad, and `OnePad` and `AllGiven` say nothing. A new pad is first given the sticky events of the
sink pad (206): the STREAM_START and the collection of the stream before, `stuck` in
the model; `OneStream` says that its own STREAM_START comes behind them. `SoundShow`
says what upstream may send: a buffer is of the stream announced last, and a
collection replaces one which that stream does not belong to. Otherwise
`active_srcpad` would be a pad that `update_stream_collection` has removed, because that
function does not look at it.

`DynAppSrc` (part `source`): the application makes and ends sources while another
thread changes the state in three steps and a third one seeks. `SourcesTrue`:
in PAUSED every source has an open pad and every seek since; nothing is left
held after a change, also one that failed. When a change to PAUSED is tried again
without going down first, a source of the first try is linked already: no
second pad can be made, `srcpad` becomes NULL (420), and `remove_source` then leaves the
first pad in the bin (`strays`). The application is assumed not to start such a bin again
(the guard of `Begin`). `Polite` keeps the application from
making a source while the change to PAUSED is under way; without it TLC
finds a source that never gets a pad (`gstdynappsrc.c:480`). Both invariants
are proved (section 11).

`FakeAdec` (part `fake`): T streams, F flushes, A changes the state, the main loop
runs one timer at a time; a timer reads flags in one step and rings in a later one,
because it takes the lock only to ring. `FakeTrue`: T never sleeps through a flush
or a stop, while it sleeps some timer goes on looking (`exit_loop` is one flag for
all timers, and every sleep adds one), and when the pipeline plays again after the
segment T waits behind, the base time is one the element has not seen, so that
the wait ends. `Gapless` is FALSE: a segment without a flush before it brings no new
base time, and T then waits until the next flush (the FIXME at
`gstfakeadec.c:496`). What the model shows besides: a seek before the first
timer after PLAYING lets buffers pass by the old base time. Left out:
`sync_streams` changed at run time, the timer that outlives the element
(nothing removes it at finalize), and a downstream that blocks: a push in the
passive mode holds the lock (669), so FLUSH_START waits for it.

## 10. Disagreements found

Each is a run that TLC refutes; the quoted lines are in `PROJECT.json`.

| run | what the code does |
|---|---|
| `ADLateError` | `handle_message` keeps `manifest_lock` when the failing element belongs to no listed stream |
| `ADStaleEos` | a seek that changes nothing starts a stream again that had ended its period, and two download tasks advance from the same period (with two streams in it, `preroll_pending` is then reset while one of the next has prerolled, and playback stands still) |
| `DecLockCycle` | the flushing thread takes its two locks in the opposite order |
| `QtEdits` | a pushed file with an empty edit behind its media edit passes the parser and meets `g_assert` |
| `MpdAnchor` | the start time of an anchor is overwritten by the seek to the first segment |

Others were met while modelling. Those in the first group were refuted by TLC
at some stage and gave their run to another question; the second was read.

- Adaptive demuxer: the error of a last fragment is EOS in the return value but
  not in `last_ret`, so the next period never starts (`gstadaptivedemux.c:3989`);
  `_src_event` does not look at `cancelled` (3186); the retry of a broken
  transfer keeps offset, adapter and box of the first try (4005); with an index
  range in the MPD a seek fetches the file from its beginning
  (`gstdashdemux.c:1430`). Decoder proxy: a request during a change is stored
  in `pending_decoder_state`, which nothing reads (`gstdecproxy2.c:1263`).
  Packetizer: a group that is closed when a clock resets is not always one with
  its neighbour (`mpegtspacketizer.c:1727`). The tables of two `sidx` boxes are
  not sorted although `qtdemux.c:6575` says so. In a live manifest the last
  period is taken to be closed. `streamiddemux` has no table after PAUSED to READY
  (400), so each STREAM_START makes a pad; a collection that keeps a stream
  removes its pad while it is the active one (259-315).
- A chain that waits in preroll and is cancelled returns without `manifest_lock`
  (`gstadaptivedemux.c:2846-2849`), and its caller unlocks it (3087-3093): the unlock of a
  recursive mutex that is not held fails and is ignored. `notify_manifest_expired` signals before it sets the flag
  (`gstadaptivedemux.c:5090`); a persistent 5xx ends an on-demand stream
  silently as EOS (3976-3984), and the branch for 5xx does not retry although the
  comment at 3997 speaks of it.
- Manifest: hours from 24 and minutes from 60 in a duration are refused
  (`gstmpdparser.c:963-981`); clipping a list to its period forgets repeats and
  `presentationTimeOffset` (4163-4205); a stream whose set-up fails stays
  active (4804); availability adds the period start twice (6431-6437); a seek
  into a gap of a timeline wraps (4864).
- MPEG-TS: `mpegts_base_update_program` never removes a stream that vanished
  (`mpegtsbase.c:738-812`); sections that are short and span packets come once;
  FLUSH clears `seen_pat` but a PAT of the same version is not delivered; program
  2 does not start when program 1 leaves the PAT; a refused push seek leaves
  `seek_offset`; the DURATION query uses a program that may be NULL
  (`tsdemux.c:1171`).
- MP4: in trick mode the seek lock is taken under the stream lock, an
  application's seek takes them the other way (`qtdemux.c:7838`, `2034`); a
  failed seek back leaves the offset (7798-7801); an array of `senc` shorter
  than the samples (4383-4386); the result of `expose_streams` is dropped (7610); an
  open edit that starts behind the known duration wraps, and nothing of the track is
  shown (10259-10265; in `QtEdits`). A palette is read with the bytes of the fourcc
  `ctab` as its first index (11207), so one colour is read and the check at 11219 never
  asks for more than 94 bytes; behind a `strf` the search for boxes goes on 40 bytes
  too early, and for ever when it has just 40 (11511, 11565); a sound description of
  version 2 keeps the frame layout of its 16-bit fields, by which chunk sizes are divided
  (9871-9876). In push mode the header behind a STREAM_START is
  skipped in a file that is not fragmented (7567, against the comment at 2787); tags of
  the file that only a later header has are not told on a pad that is taken over.
- `dynappsrc`: a failed change to PAUSED leaves the sources (582-587), so that a second
  try loses their pads (420, section 9), and
  `end_of_stream` stops at the first one that refuses (516-534). The Dolby
  combiner loses a base frame when the other layer has ended, and a seek before its first
  pair ends the stream without a frame: FLUSH_STOP sets WAIT_BL from any state (860, with
  the comment "reset state to WAIT_BL to ensure the BL/EL ordering"), so `prepare` is skipped
  (section 9). `splitappsink`
  removes its tee with PAUSED to READY and does not make it again.

## 11. What is proved

With TLAPS, for every value of the constants that satisfies the module's
ASSUMEs (finite pool of streams, positive widths, bounds in Nat) and what the
theorem itself assumes:

- `AdaptiveDemux_proofs`: `TypeCorrect` (`Spec => []TypeOK`) and `SingleOwner`
  (`Spec => []OneOwner`). `TypeOK` is inductive together with `FreeingOwn`,
  which says that a thread that frees a stream has one in hand. `OneOwner` is
  not: that a list can be swapped or taken without
  loss depends on where the other threads are. `OwnInv` adds that only a task
  in its freeing states has a list (`FreeingWhere`), that the exposing thread
  holds `preroll_lock` and is alone (`ExposerHolds`, `OneExposer`), that a
  source is off while its task is in the phases after its join (`SourceOff`),
  and what a call that frees may meet (`FreeingCall`). One lemma per thread
  shows that its actions preserve it.
- `AdaptiveDemux_proofs`, second half: the other safety properties, for any number of streams,
  of periods and of streams in them, and any number of calls and errors, in
  three layers. `RestInv` gives `FreedIsQuiet`, `CallsFindRest`, `WakeupsArrive`,
  `CallsResume` and `ExposedHavePrerolled`: it adds to `OwnInv` what an object is
  like before its first start (`Fresh`) and after it was replaced (`OldStopped`),
  who holds the two locks in which state of which thread (`Holders`, `Exposer`),
  where an S may wait (`Blocked`, `BlockedWhere`), what is over once the tasks are
  halted, joined and freed (`Halted`, `Joined`, `FreeApi`, `FreeTask`, `Sourced`),
  that a call starts what it stopped (`Going`, `AllOrNone`), and that whoever is
  not counted in `preroll_pending` has prerolled (`Counted`). `PeriodInv` gives
  `PreparingNeverRefused` and `LastDAdvances`: a stream that ended its period does
  not run again (`EndedOnce`), so that two D never prepare (`NoDouble`).
  `CountInv` gives `LastOneReleases`: while streams preroll, `preroll_pending` is
  not more than those that have yet to come (`CountGe`); it is the only invariant
  about a number of streams, and rests on the library's facts about `Cardinality`.
  The assumptions, each of which TLC needs too: `NoEmpty` (every stream gives a
  buffer before it ends: otherwise, with three periods, a D can advance the
  period while its stream is being exposed, and `manifest_lock` and `preroll_lock`
  are taken crosswise); `FewPeriods` (two periods, or no seeks: `ADStaleEos`);
  `NoKeep` (a seek that keeps the position resets `preroll_pending`: the hazard
  at `gstadaptivedemux.c:2389`); for `LastDAdvances` no seeks at all.
- `DecProxy_proofs`: `TypeOK`, `OneDecoder`, `HookFindsWork`, `NextIsReached`,
  `DecoderFed`, `SomebodySignals`, `FlushPaired`, `EventsPass`. Three inductive
  invariants: `DecInv` (who can own the lock where, at most one change under way
  and what it still has to do, what a decoder needs), on top of it `FlushInv`
  (what F waits for and what it has forwarded), and for `EventsPass` `EventsInv`
  (while the probe that eats events is in place, a switch is on its way to the
  step that removes it, or a FLUSH_STOP is to come that will be eaten). The
  number of requests, flushes and items plays no part in them, so the bounds of
  the runs are no limit.
- `MpdSegments_proofs`: for a template and for any list without gaps and
  without open-ended (negative) repeats: `ForwardMeets` and `BackwardMeets`
  (the fragment `advance_segment` goes to begins, or ends, exactly where the
  last one ended, or began, and EOS is reported at the last, or first, one
  only), `ListSeekHolds` and `TemplateSeekHolds` (a seek to a time not before
  the list stands at the fragment that holds it; backwards at the one that ends
  at it). The lists need not be bounded: the first segment that holds a time
  exists because the numbers are well-founded (`LeastExists`). In a template
  timestamps count from the start of the period but the time sought from the
  start of the stream; a list is sought with the time as it is, so the
  theorem for lists reads the time as one of the period.
- `DashStream_proofs`: `DashPushedTrue`, `DashRightEntry`, `DashRetried`, for any
  files (entries, segments, representations), any sizes of boxes and buffers,
  and any number of failures and changes of the representation. What is pushed
  depends on what several requests have left in the stream, so the invariants
  follow the data. `DashInv` says what D has asked for (`Asked`), how far the
  source has got (`Transfer`), that the adapter holds the units from
  `current_offset` to there (`Adapter`), when an index is known and of which file
  (`Indexed`), and when the header of the representation has gone out (`Headed`).
  `PlaceInv` adds where the entry is: a request is for the entry the stream stands
  at, or for the whole file (`Wanted`), what comes is what was asked for (`Coming`),
  the sidx is looked for until it is found (`Looking`), and data that arrives is in
  front of the mdat of the entry or in it (`Arriving`), so that an mdat is never
  behind its entry. Lemmas about boxes (`BoxAt`, `WholeBoxesEnd`) do the
  arithmetic. Assumed are `Bare` (a source that fails has delivered nothing),
  `OneRefetch` (a refetched MPD has one representation) and, for the last two,
  `ReadInOrder` (a file that the MPD locates the index of is read forward from its
  beginning); without any one of them TLC finds a violation (section 5). TLC had
  checked both invariants before the proof (`DashInv` on 899 203 states with all
  starts, `PlaceInv` on 711 132, and both with longer boxes and buffers or four
  entries).
- `DashStream_plays`: `DashSeekHonoured`, and `DashPlays`: `DashStream` implements
  `Playback`, step by step. `DashInv` and `PlaceInv` say nothing of time; `PlayInv`
  relates the place reached (`at`) to where the stream stands: within the fragment
  it is at, or at its far end once all of it has been pushed (`Stands`, `Told`), or,
  while the index is not known, at a time that the index will be searched for and
  that leads to the entry that holds it (`Sought`; `ReadInside` is the step that
  proves this of `sidx_seek`). The rest is what makes it inductive: what has been
  pushed of a block has no gap (`Unbroken`), a fragment that is a file is fetched
  from its beginning (`Files`), a sidx is read as soon as it is there (`IndexRead`),
  the end is announced where everything has been pushed (`EndSaid`). Then a push
  completes no fragment but the one the stream is at (`MdatTells`), the source
  ends only behind it (`EosTold`), and what follows begins where it ends
  (`NextMeets`, from `ForwardMeets` and `BackwardMeets`; the entries of the index
  meet by `EntryTimes`); a switch stores the place where the next entry begins, a
  refetch finds the fragment it left (`SoughtAgain`). Every step is then a
  step `Play`, `Complete` or `GiveUp` of `Playback` or none at all: `Repeat` is
  not needed under these assumptions. Assumed are those of `DashRightEntry` and
  `Playable`: lists have no gaps and begin with their period (`Gapless`), which is the
  first if a list or a file with an index is played (`FirstPeriod`);
  a fragment is longer than the unit that a refetch adds to its start
  (`Divisible`); playback starts at the start, or at a time sought that lies in
  the media, and backwards only after a seek (`StartsInside`); backwards,
  representations are cut at the same times (`SameCuts`). The starts of
  `DashPlay` satisfy them all. What the code does outside of `SameCuts`, of
  `FirstPeriod` and of `Gapless` is in section 5 under "left out". TLC had checked
  `PlayInv` on all states of `DashPlay`.
- `Elements_proofs`, `FakeAdec`: `SomebodyWakes`, `StopWakes`, `ClockEndsWait`. `NobodyLeft` is
  nearly inductive: a timer is only told to exit by a flag that is lowered as T goes
  to sleep. Without `sync-streams` T never reaches that loop (`OnlyInSync`); that a
  stop leaves nobody asleep needs `FlagRaised` (who flushes has raised the flag, and
  F and A exclude each other). `ClockEndsWait` assumes `~Gapless` and needs that
  upstream owes a segment only while T has no buffer (`DueIsEmpty`) and that
  a base time is not seen before it is there (`BaseAhead`).
- `Elements_proofs`, `DynAppSrc`: `NeverLeftHeld` (`[]NothingHeld`), and `SourcesPlay` (`[]AllPlay`),
  which assumes `Polite`. Between set-up and PAUSED the sources are in the state
  PAUSED will show (`AllSound`), outside PAUSED they have seen no seek
  (`AllFresh`); only a change to PAUSED fails (`InOrder`).
- `Elements_proofs`, `StreamIdDemux`: `RouterSends` (`[]RouterTrue`), for any set of
  shows in which each is a `SoundShow`; what it says of one pad per stream is about the
  first play, while there is a table. `RouterTrue` does not say that the active pad is
  the one for the data that comes next. The invariant `RouterHolds` adds that it
  is the pad of the stream announced last (`Faces`), that the collection held is the
  last one shown (`Holds`), what each pad was given, by place in the show, and that
  what is in use was made in this play (`PlayHolds`).
- `Elements_proofs`, `DolbyCombiner`: `DolbyPairs` (`[]DolbyTrue`), for any set of feeds that are
  all `SoundFeeds`, any size of a fragment, any number of seeks and restarts, and the two
  FLUSH_STOPs of a seek at any time. After one before the first pair it says that
  nothing but EOS goes out (`Unprepared`, lemma `UnpreparedEnds`).
  `DolbyTrue` looks at what was pushed; the invariant `MuxInv` says where the
  element stands. Until the end is told, the base layer is next whenever nobody
  is in a callback, and each layer has brought as many frames as were pushed and
  the one its pad holds (`TurnOk`), which is the last one it brought (`PadOk`); once the end
  is told, the shorter layer is used up. A callback takes a frame
  from each pad, so the steps are proved apart: `Prepared` knows both layers
  because each was announced before its frames (`LayerOf`), `Announced` has a segment of
  the round to push because the base layer had told one (`SegOk`), `Combined` pushes
  the next pair or finds a layer at its end. That four fragments give the time
  back is `PtsFact`.
- `Elements_proofs`, all four: `ElementsHold` is the invariant of the run `Setup` as
  it stands (`ElementsRight`), with the types; under the assumptions of the parts.
  The type of `DynAppSrc` needs that `n_source` counts the list (`Counted`).
- `QtPush_proofs`: `PushPlays` (`PushSpec => []PushRight`) if all files are plain, for
  any number and size of atoms, tracks, samples and buffers, any limit to what is
  buffered and any number of seeks and trick plays. `PushRight` alone says little
  of where the demuxer is: that no sample is lost depends on every jump and every
  piece set aside having been right. `PushInv` therefore follows
  the data. In any case, also after an error, the types, tracks and flags agree
  (`TypeOf`, `IndexOf`, `FlagsOf`), at EOS nothing is left (`EndOf`), the samples out
  are those of the tracks, in a row, from the start of the run to where each
  track stands (`OutOf`, `InRow`, `DoneOf`, `TrickOf`), and the seek under way
  leads to a place from which each track begins early enough (`CoversOf`). While
  nothing has failed, upstream goes on where the adapter ends, or has been led
  away by a trick play whose last samples are all in the adapter (`LinkOf`,
  `Apart`); the state is that of an atom of the file (`AtomOf`); what is needed next
  is the sample of lowest place, or none is left (`MovieOf`, `NextAt`); no sample of
  a media track that is still to come lies behind the offset (`AheadOf`); media
  data in front of the header is ahead, jumped over or kept as a whole
  (`NoTracksOf`, `Kept`, `FirstOf`); fragments behind have been read and those
  ahead add samples behind all the others (`FragmentsOf`). TLC had checked
  `PushInv` on the 140 834 states of this part. A seek needs that `gst_qtdemux_adjust_seek` and `_find_sample` agree
  (`AdjustFact`, `FromFact`), which least and largest elements of sets of numbers
  give without any induction over data (`LeastNat`: the numbers are well-founded).
  What `PlainFile` asks: atoms do not overlap, there is one header and a media track;
  the samples of a track follow each other, no two begin at one place, all lie in
  media data. A film in one piece has no empty track and, where upstream cannot
  seek back to it, no media data behind a header that is behind media data (the
  demuxer would start with what it kept and skip the rest: `MdatTwice` is
  seekable). In fragments the header comes first, each `moof` before its data and
  behind the data of the one before, and no media data is without a sample.
- `Ts_proofs`: `SyncTypeCorrect` (`[]SyncTypeOK`), `OffsetsStayTogether` (the action
  property `OffsetsMove`) and `SeekMakesOffsetsTrue`
  (`[]OffsetTrueAfterSeek`) of `TsSync`, for any file, list of packet sizes and
  seeks. The distance between the offset and the place of what is mapped is kept
  by every way of skipping (`Distance0`); it is 0 from a seek on if the size was known then.

Only model-checked: liveness (`CallsEnd`, `PrerollEnds`, `FlushWaitEnds`,
`Ends`) because TLAPS has no ENABLED and so no fairness; sections 6 (but for
`MpdSegments`) to 8 (but for `QtPush` and what is said of `TsSync`).
The properties of sections 7 and 8 are sums of many parts, most of which compare a
recursive function with a reference: induction over data is not within reach of
the prover.

## 12. What is not covered

Open parts of components that are modelled are named under "left out" above.
Not modelled at all:

- **Live playback** in the adaptive demuxer (`updates_loop`, manifest expiry) and
  key-unit mode with its chunks: planned, next after the proofs.
- **Parser element** `mpegtsparse`: its pads select packets of programs that
  `TsPrograms` follows; it keeps nothing of its own but its pads.
- **Split application sink, MPO muxer, DASH sink**: everything
  happens in one callback or one state change; nothing of one thread waits for
  another. The DASH sink's state is in the files it writes.
- **DRM decryptors, DVR encryption, DTCP**: wrap closed libraries; what they do
  is behind the call.
- **Section library, atoms, dumps, reformatter**: functions of their input whose
  content is the layout of a standard.
- **Convenience bins, tracers, cool library**: construction, observation,
  configuration.
- **Vendored code** (`intl`) and tests.
