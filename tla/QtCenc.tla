------------------------------- MODULE QtCenc -------------------------------
(***************************************************************************)
(* How the ISO MP4 demuxer hands each sample of an encrypted, fragmented   *)
(* track the key and the vector it is decrypted with.  They come from the  *)
(* default of the track (tenc), from sample groups (sbgp, sgpd with seig   *)
(* entries) and from the auxiliary information of the fragment (senc, or   *)
(* saiz with saio), and wait in an array until the sample is pushed.       *)
(* A fragment is [n, info, good, groups, kids, pssh]: n samples, how the   *)
(* information is stored, how many entries of it can be read, the runs     *)
(* [n, idx] of its sbgp box, the keys of its sgpd box, whether it has pssh.*)
(***************************************************************************)
EXTENDS Integers, Sequences, FiniteSets, SequencesExt

CONSTANTS CencTracks     \* [mode, scheme, tenc, ids, moofs], see Tracked

VARIABLES cenc           \* the track and what was read of it
cencVars == <<cenc>>

NoKey == [kid |-> "none", iv |-> <<0, 0>>]
Common(scheme) == scheme \in {"cenc", "cbcs", "cens", "cbc1"}

(* qtdemux_parse_protection_scheme_info, with what it refuses.             *)
Tracked(t) ==
    IF t.tenc = "no sinf" THEN t.scheme # "cenc"
    ELSE t.tenc = "whole" \/ (t.tenc = "no tenc" /\ ~Common(t.scheme))

(* gst_qtdemux_configure_protected_caps: only a common scheme whose system *)
(* some decryptor serves.                                                  *)
Decryptable(t) == Common(t.scheme) /\ "served" \in t.ids

CencInit ==
    /\ \E t \in {u \in CencTracks : Tracked(u) /\ Decryptable(u)} :
         cenc = [track |-> t, next |-> 1, samples |-> <<>>, pos |-> 1, crypto |-> <<>>,
                 groups |-> <<>>, inMoof |-> 0, events |-> {}, got |-> <<>>, sent |-> {},
                 failed |-> FALSE, wild |-> FALSE]

----------------------------------------------------------------------------
(* qtdemux_parse_sbgp: the groups of every fragment are appended.          *)
WithGroups(c, m) ==
    IF m.groups = <<>> \/ ~Common(c.track.scheme) THEN c
    ELSE [c EXCEPT !.groups = Append(@, [e \in DOMAIN m.groups |->
            [n |-> m.groups[e].n, idx |-> m.groups[e].idx, kid |-> "none"]])]

(* qtdemux_parse_sgpd: the descriptions go, in their order, to the entries *)
(* of the first groups that are a member of something; it looks at the     *)
(* samples of the fragment before, and may run off the end of the entries. *)
Described(entries, kids) ==
    LET members == SelectSeq([e \in DOMAIN entries |-> e], LAMBDA e : entries[e].idx # 0)
    IN [e \in DOMAIN entries |->
          IF \E k \in DOMAIN kids : k <= Len(members) /\ members[k] = e
          THEN [entries[e] EXCEPT !.kid = kids[CHOOSE k \in DOMAIN kids :
                                                 k <= Len(members) /\ members[k] = e]]
          ELSE entries[e]]
Members(entries) == Cardinality({e \in DOMAIN entries : entries[e].idx # 0})
WithKeys(c, m) ==
    IF m.kids = <<>> \/ c.inMoof = 0 \/ c.groups = <<>> THEN c
    ELSE [c EXCEPT !.groups[1] = Described(@, m.kids),
                   !.wild = @ \/ Len(m.kids) > Members(c.groups[1])]

(* qtdemux_prepare_cenc_sample_properties: the keys of the samples, from   *)
(* the first groups there are.  The array is first set to the size it will *)
(* have and then appended to, so that only the first entry is in place.    *)
Sized(s, n) == [i \in 1..n |-> IF i <= Len(s) THEN s[i] ELSE "none"]
KeyOf(e) == IF e.kid = "none" THEN "default" ELSE e.kid
Properties(c) ==
    LET add(d, e) ==
          LET total == d.total + e.n
              room == IF d.keys = <<>> THEN <<>> ELSE Sized(d.keys, total)
          IN [total |-> total, keys |-> room \o [i \in 1..e.n |-> KeyOf(e)]]
    IN IF c.groups = <<>> THEN <<>>
       ELSE FoldLeft(add, [total |-> 0, keys |-> <<>>], c.groups[1]).keys

(* qtdemux_get_cenc_sample_properties: the default where there is nothing. *)
PropertyOf(keys, i) == IF i <= Len(keys) /\ keys[i] # "none" THEN keys[i] ELSE "default"

Entries(c, m) == [i \in 1..m.good |-> [kid |-> PropertyOf(Properties(c), i), iv |-> <<c.next, i>>]]

(* What is left of the array: the entries at its end that were not taken.  *)
Untaken(crypto) ==
    LET taken == {i \in DOMAIN crypto : crypto[i] = NoKey}
    IN SubSeq(crypto, IF taken = {} THEN 1 ELSE CHOOSE i \in taken : \A j \in taken : j <= i,
              Len(crypto))
Kept(crypto) == SelectSeq(Untaken(crypto), LAMBDA e : e # NoKey)

(* qtdemux_parse_senc throws the array away, qtdemux_parse_cenc_aux_info   *)
(* keeps what is still needed.                                             *)
WithVectors(c, m) ==
    CASE m.info = "senc" -> [c EXCEPT !.crypto = Entries(c, m)]
      [] m.info = "aux"  -> [c EXCEPT !.crypto = Kept(@) \o Entries(c, m),
                                      !.failed = m.good < m.n]
      [] m.info = "none" -> c

(* The samples of the fragment.  When upstream works in time, those of the *)
(* fragments before are dropped with the groups.                           *)
WithSamples(c, m) ==
    LET new == [i \in 1..m.n |-> <<c.next, i>>]
        flushed == c.track.mode = "time"
    IN [c EXCEPT !.samples = IF flushed THEN new ELSE @ \o new,
                 !.pos = IF flushed THEN 1 ELSE @,
                 !.groups = IF flushed THEN <<>> ELSE @,
                 !.inMoof = m.n, !.next = @ + 1,
                 !.events = IF m.pssh THEN @ \cup {c.next} ELSE @]

(* A fragment is parsed when the sample that is about to go is the last    *)
(* one known (pull), or when everything before it went (push).             *)
MoofDue(c) ==
    /\ c.next <= Len(c.track.moofs) /\ ~c.failed /\ ~c.wild
    /\ c.pos = Len(c.samples) + (IF c.track.mode = "pull" /\ c.samples # <<>> THEN 0 ELSE 1)

ParseFragment ==
    /\ MoofDue(cenc)
    /\ LET m == cenc.track.moofs[cenc.next]
           vectors == WithVectors(WithKeys(WithGroups(cenc, m), m), m)
       IN cenc' = IF vectors.failed THEN [cenc EXCEPT !.failed = TRUE]
                  ELSE WithSamples(vectors, m)

(* gst_qtdemux_decorate_and_push_buffer: counted from the end of the array.*)
IndexOf(c) == c.pos - Len(c.samples) + Len(c.crypto)
PushSample ==
    /\ ~MoofDue(cenc) /\ cenc.pos <= Len(cenc.samples) /\ ~cenc.failed /\ ~cenc.wild
    /\ LET i == IndexOf(cenc)
           there == i \in DOMAIN cenc.crypto
           info == IF there THEN cenc.crypto[i] ELSE NoKey
       IN cenc' = [cenc EXCEPT !.pos = @ + 1, !.sent = @ \cup cenc.events, !.events = {},
                     !.crypto = IF there THEN [@ EXCEPT ![i] = NoKey] ELSE @,
                     !.got = IF cenc.crypto = <<>> THEN @
                             ELSE Append(@, [sample |-> cenc.samples[cenc.pos], info |-> info])]

CencNext == ParseFragment \/ PushSample
CencSpec == CencInit /\ [][CencNext]_cencVars

----------------------------------------------------------------------------
CencTypeOK ==
    /\ cenc.next \in 1..Len(cenc.track.moofs) + 1
    /\ cenc.pos \in 1..Len(cenc.samples) + 1 /\ cenc.failed \in BOOLEAN

(* The key the file gives a sample, where the demuxer reads it: the groups *)
(* of the first fragment come before there is a sample.                    *)
KeyWritten(m, i) ==
    LET f == cenc.track.moofs[m]
    IN IF f.kids = <<>> \/ m = 1 \/ f.groups = <<>> THEN "default"
       ELSE IF f.groups[1].idx = 0 \/ i > f.groups[1].n THEN "default" ELSE f.kids[1]

(* A sample of a fragment with information goes out with its own vector    *)
(* and key, and after the events that say how to get the key.              *)
KeysTrue ==
    \A g \in 1..Len(cenc.got) :
      LET s == cenc.got[g].sample
          m == cenc.track.moofs[s[1]]
      IN (m.info # "none" /\ m.good >= m.n) =>
            /\ cenc.got[g].info = [kid |-> KeyWritten(s[1], s[2]), iv |-> s]
            /\ m.pssh => s[1] \in cenc.sent

(* The array holds one entry for every sample that was not pushed.         *)
OnePerSample ==
    (~cenc.failed /\ \A m \in DOMAIN cenc.track.moofs :
                       cenc.track.moofs[m].info # "none" /\ cenc.track.moofs[m].good >= cenc.track.moofs[m].n)
      => \A p \in cenc.pos..Len(cenc.samples) :
           LET i == p - Len(cenc.samples) + Len(cenc.crypto)
           IN i \in DOMAIN cenc.crypto /\ cenc.crypto[i] # NoKey

CencTrue == KeysTrue /\ OnePerSample
=============================================================================
