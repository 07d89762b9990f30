---------------------------- MODULE StreamIdDemux ----------------------------
(***************************************************************************)
(* streamiddemux: one sink pad on which several streams follow each other, *)
(* and a source pad for each stream id.  STREAM_START chooses the pad, or  *)
(* makes it; STREAM_COLLECTION takes away the pads of the collection it    *)
(* replaces.  The upstream announces each stream, then the collection it   *)
(* belongs to, then sends its data.                                        *)
(***************************************************************************)
EXTENDS Integers, Sequences, Functions

CONSTANTS
  Shows,          \* what upstream sends: a set of sequences of items
  MaxPlays        \* bound: times the element goes to PAUSED

VARIABLE router
routerVars == <<router>>

NoPad == 0
NoStream == "none"

(* gst_streamid_demux_init *)
InitialRouter(show) ==
  [show   |-> show,
   taken  |-> 0,              \* items of the show that this play has taken
   plays  |-> 1,
   made   |-> 0,              \* nb_srcpads
   table  |-> TRUE,           \* stream_id_pairs exists
   pairs  |-> {},             \* stream_id_pairs: [id, pad]
   pads   |-> {},             \* the source pads of the element
   active |-> NoPad,          \* active_srcpad
   held   |-> {},             \* active_collection
   stuck  |-> <<>>,           \* per pad: the sticky events it was made with
   given  |-> <<>>,           \* per pad: what it was sent then; both by the place in the show
   since  |-> 0]              \* the pads that were made before this play

Sent(r) ==
  IF r.active = NoPad THEN r ELSE [r EXCEPT !.given[r.active] = Append(@, r.taken)]

(* get_srcpad_by_stream_id *)
PadFor(r, id) ==
  LET known == {p \in r.pairs : p.id = id}
  IN  IF known = {} THEN NoPad ELSE (CHOOSE p \in known : TRUE).pad

(* The last items of a kind among the first n.                              *)
LastOf(show, n, kind) ==
  {m \in 1 .. n : show[m].kind = kind /\ \A l \in m + 1 .. n : show[l].kind # kind}

(* The sticky events the sink pad has when r.taken comes: an event sticks   *)
(* after it was handled, a STREAM_START takes off the EOS before it.        *)
Sticky(r) ==
  LastOf(r.show, r.taken - 1, "stream-start") \union LastOf(r.show, r.taken - 1, "collection")

(* srcpad_create: a new pad, active at once, and in the table if there is   *)
(* one; it gets the sink pad's sticky events, those of the stream before.   *)
Made(r, id) ==
  LET pad == r.made + 1
  IN  [r EXCEPT !.made = pad, !.active = pad,
                !.pads = @ \union {pad},
                !.stuck = Append(@, Sticky(r)),
                !.given = Append(@, <<>>),
                !.pairs = IF r.table THEN @ \union {[id |-> id, pad |-> pad]} ELSE @]

(* event, STREAM_START *)
Chosen(r, id) ==
  IF PadFor(r, id) = NoPad THEN Made(r, id) ELSE [r EXCEPT !.active = PadFor(r, id)]
(* update_stream_collection: every stream of the old collection loses its  *)
(* pad; active_srcpad is not looked at.                                    *)
WithCollection(r, ids) ==
  IF r.held = ids THEN r
  ELSE LET gone == {p \in r.pairs : p.id \in r.held}
       IN  [r EXCEPT !.held = ids, !.pairs = @ \ gone,
                     !.pads = @ \ {p.pad : p \in gone}]

(* event and chain: what comes in goes to the active pad; FLUSH and EOS go *)
(* to every pad (gst_pad_event_default).                                   *)
Take ==
  /\ router.taken < Len(router.show)
  /\ LET item == router.show[router.taken + 1]
         r    == [router EXCEPT !.taken = @ + 1]
     IN  \/ /\ item.kind = "stream-start"
            /\ router' = Sent(Chosen(r, item.id))
         \/ /\ item.kind = "collection"
            /\ router' = Sent(WithCollection(r, item.ids))
         \/ /\ item.kind = "buffer"
            /\ router' = Sent(r)
         \/ /\ item.kind = "eos"
            /\ router' = [r EXCEPT !.given = [i \in DOMAIN @ |->
                            IF i \in r.pads THEN Append(@[i], r.taken) ELSE @[i]]]

(* change_state PAUSED->READY, then reset: streaming has stopped and the   *)
(* sink pad keeps no event; the pads go, and so does the table, which      *)
(* nothing makes again.                                                    *)
Replay ==
  /\ router.plays < MaxPlays
  /\ router' = [router EXCEPT !.plays = @ + 1, !.taken = 0,
                              !.table = FALSE, !.pairs = {}, !.pads = {},
                              !.active = NoPad, !.since = router.made]

RouterInit == \E show \in Shows : router = InitialRouter(show)
RouterNext == Take \/ Replay
RouterSpec == RouterInit /\ [][RouterNext]_routerVars
-----------------------------------------------------------------------------
(* What upstream sends: a buffer is of the stream that was announced last,  *)
(* and a collection replaces one that the stream before it does not belong  *)
(* to.                                                                      *)
SoundShow(show) ==
  /\ show \in Seq(Range(show))
  /\ \A n \in DOMAIN show :
       /\ show[n].kind = "buffer" =>
            \E m \in LastOf(show, n, "stream-start") : show[m].id = show[n].id
       /\ show[n].kind = "collection" =>
            \A c \in LastOf(show, n - 1, "collection"), m \in LastOf(show, n, "stream-start") :
              show[c].ids # show[n].ids => show[m].id \notin show[c].ids

RouterTypeOK ==
  /\ router.taken \in 0 .. Len(router.show)
  /\ router.active \in 0 .. router.made
  /\ router.pads \subseteq 1 .. router.made
  /\ Len(router.given) = router.made /\ Len(router.stuck) = router.made
  /\ router.since \in 0 .. router.made
  /\ \A p \in router.pairs : p.pad \in router.pads

GivenTo(pad) == Range(router.given[pad])
Ids(pad) ==
  {router.show[n].id : n \in {m \in GivenTo(pad) : router.show[m].kind \in {"stream-start", "buffer"}}}

(* event, chain: once it is made a pad is one stream's only, and what it    *)
(* was made with is events that this stream's STREAM_START comes behind.    *)
OneStream ==
  \A pad \in 1 .. router.made :
    /\ \E id \in Ids(pad) : Ids(pad) = {id}
    /\ router.show[router.given[pad][1]].kind = "stream-start"
    /\ \A n \in router.stuck[pad] :
         n < router.given[pad][1] /\ router.show[n].kind \notin {"buffer", "eos"}

(* get_srcpad_by_stream_id: each stream has one pad in the table (which is  *)
(* there in the first play only), and a pad in use is one the element still *)
(* has.                                                                     *)
OnePad ==
  /\ \A p, q \in router.pairs : p.id = q.id => p = q
  /\ router.active # NoPad => router.active \in router.pads

(* event, chain: since it was made a pad in the table has been given all    *)
(* that upstream sent of its stream, once and in order.  (Without a table   *)
(* each STREAM_START makes a pad, and one that went before gets no more.)   *)
AllGiven ==
  \A p \in router.pairs :
    LET given == router.given[p.pad]
    IN  /\ Ids(p.pad) = {p.id}
        /\ \A i, j \in DOMAIN given : i < j => given[i] < given[j]
        /\ \A n \in given[1] .. router.taken :
             router.show[n].kind = "eos" \/ (router.show[n].kind = "buffer" /\ router.show[n].id = p.id)
               => n \in GivenTo(p.pad)

(* chain, also after a restart: each buffer of this play went to one pad    *)
(* that was made in this play; such a pad was given what it got in order.   *)
Delivered ==
  LET pads == router.since + 1 .. router.made
  IN  /\ \A pad \in pads : \A i, j \in DOMAIN router.given[pad] :
            i < j => router.given[pad][i] < router.given[pad][j]
      /\ \A n \in 1 .. router.taken : router.show[n].kind = "buffer" =>
            \E pad \in pads : \A x \in pads : n \in GivenTo(x) <=> x = pad

RouterTrue == OneStream /\ OnePad /\ AllGiven /\ Delivered
=============================================================================
