------------------------------- MODULE MultiGate -------------------------------
(***************************************************************************)
(* The motion gate in multi-object mode: the motion mask of a frame is cut *)
(* into blobs, blobs are associated with the live tracks, and each track   *)
(* runs the debounce of MotionGate on its own.  Like MotionGate a record   *)
(* and operators on it.                                                    *)
(*                                                                         *)
(* Abstraction.  The scene is a line of cells, a mask a set of cells, a    *)
(* blob a maximal run of them (a connected component).  The overlap of two *)
(* blobs, their distance and their areas are computed as the code does,    *)
(* exactly instead of in floating point.  Scaling, padding and closing a   *)
(* mask before it is labelled are left out.                                *)
(***************************************************************************)
EXTENDS Integers, Sequences, FiniteSets, FiniteSetsExt, SequencesExt, Sorting

CONSTANTS
  OpenFrames, QuietFrames,   \* debounce, as in MotionGate
  Cells,                     \* the cells of the scene, an interval of integers
  MinBlob,                   \* track_min_blob_area_frac, in cells
  MaxObjects,                \* track_max_objects
  IouGate,                   \* track_iou_gate: <<numerator, denominator>>
  CentroidMax,               \* track_centroid_max_frac, in half cells
  MergeFrames                \* track_merge_hysteresis_frames

ASSUME MultiGateAssumption ==
  /\ OpenFrames \in Nat \ {0} /\ QuietFrames \in Nat \ {0}
  /\ Cells \subseteq Int /\ IsFiniteSet(Cells)
  /\ MinBlob \in Nat /\ MaxObjects \in Nat \ {0}
  /\ IouGate \in Nat \X (Nat \ {0}) /\ CentroidMax \in Nat
  /\ MergeFrames \in Nat \ {0}

NoId == 0                          \* open_id is None: a provisional track

-----------------------------------------------------------------------------
(* Blobs.                                                                  *)

Area(b) == b.hi - b.lo + 1

Overlap(a, b) == Max({0, Min({a.hi, b.hi}) - Max({a.lo, b.lo}) + 1})

Joint(a, b) == Area(a) + Area(b) - Overlap(a, b)

(* Of the centres, in half cells.                                          *)
Distance(a, b) ==
  LET d == (a.lo + a.hi) - (b.lo + b.hi) IN IF d < 0 THEN -d ELSE d

Components(mask) ==
  { [lo |-> p[1], hi |-> p[2]] : p \in
      { q \in mask \X mask : /\ q[1] .. q[2] \subseteq mask
                             /\ q[1] <= q[2]
                             /\ q[1] - 1 \notin mask /\ q[2] + 1 \notin mask } }

(* Above the area floor, largest first, as many as there may be tracks.    *)
SegmentBlobs(mask) ==
  LET sized == { b \in Components(mask) : Area(b) >= MinBlob }
      larger(a, b) == Area(a) > Area(b) \/ (Area(a) = Area(b) /\ a.lo < b.lo)
      order == Sorted(sized, larger)
  IN  SubSeq(order, 1, Min({MaxObjects, Len(order)}))

-----------------------------------------------------------------------------
(* Association of the live tracks, in the order they were spawned, with    *)
(* the blobs of a frame.  A candidate is a track, a blob and how well they *)
(* fit; a view is all that one frame's decisions are taken from.           *)

Eligible(c) == c.overlap * IouGate[2] >= IouGate[1] * c.joint \/ c.distance <= CentroidMax

Candidates(tracks, blobs) ==
  { c \in { [ track |-> i, blob |-> j, overlap |-> Overlap(tracks[i].roi, blobs[j]),
              joint |-> Joint(tracks[i].roi, blobs[j]),
              distance |-> Distance(tracks[i].roi, blobs[j]) ] :
            i \in DOMAIN tracks, j \in DOMAIN blobs } : Eligible(c) }

(* Best overlap first, then the smaller distance, then the later indices.  *)
Better(c, d) ==
  LET left  == c.overlap * d.joint
      right == d.overlap * c.joint
  IN  \/ left > right
      \/ left = right /\ c.distance < d.distance
      \/ /\ left = right /\ c.distance = d.distance
         /\ c.track > d.track \/ (c.track = d.track /\ c.blob > d.blob)

(* Greedy: the candidates are taken best first, each unless its track or   *)
(* its blob is taken.                                                      *)
Matching(ranked) ==
  FoldLeft(LAMBDA taken, c : IF \E d \in taken : d.track = c.track \/ d.blob = c.blob
                             THEN taken ELSE taken \cup {c},
           {}, ranked)

(* A track looks at the blob it got or, left without one, at its best one. *)
Focus(ranked, taken) ==
  LET all   == { ranked[n] : n \in DOMAIN ranked }
      own   == { c.track : c \in taken }
      best(c) == ~ \E d \in all : d.track = c.track /\ Better(d, c)
  IN  taken \cup { c \in all : c.track \notin own /\ best(c) }

View(tracks, blobs) ==
  LET ranked == Sorted(Candidates(tracks, blobs), Better)
      taken  == Matching(ranked)
  IN  [ tracks |-> tracks, blobs |-> blobs, all |-> Candidates(tracks, blobs),
        taken |-> taken, focus |-> Focus(ranked, taken) ]

(* Mutant: contention over every blob in reach, not the one in focus.      *)
Rivals_InReach(v, c) ==
  { d \in v.focus : d.track # c.track /\
      \E e, f \in v.all : e.track = c.track /\ f.track = d.track /\ e.blob = f.blob }

(* Tracks that look at one blob: their masks have fused.                   *)
Rivals(v, c) == { d \in v.focus : d.track # c.track /\ d.blob = c.blob }

(* Of two rivals the larger leads, of equals the one that fits better.     *)
Leads(v, c, d) ==
  LET a == Area(v.tracks[c.track].roi)
      b == Area(v.tracks[d.track].roi)
  IN  a > b \/ (a = b /\ Better(c, d))

Contending(v) == { c \in v.focus : \E d \in Rivals(v, c) : Leads(v, d, c) }

(* A contention that lasted is a merge: the contender is given up.         *)
Absorbed(v) == { c \in Contending(v) : v.tracks[c.track].merge + 1 >= MergeFrames }

Tracks(candidates) == { c.track : c \in candidates }

(* The blob of a contender that is given up goes to the leader.            *)
Assigned(v) ==
  LET absorbed == Absorbed(v)
      keeper(c) == CHOOSE d \in Rivals(v, c) : d \notin Contending(v)
      heir(c)   == IF c \in absorbed THEN keeper(c).track ELSE c.track
  IN  { <<heir(c), c.blob>> : c \in v.taken }

(* The order in which the merges of a frame are committed: by the blob's   *)
(* holder, and at one blob by size.                                        *)
MergeOrder(v) ==
  LET holder(c) == CHOOSE d \in v.taken : d.blob = c.blob
      before(c, d) == IF c.blob = d.blob THEN Leads(v, c, d) ELSE Better(holder(c), holder(d))
  IN  Sorted(Absorbed(v), before)

-----------------------------------------------------------------------------
(* The life of a track.                                                    *)

SpawnTrack(blob, ts) ==
  [ roi |-> blob, openId |-> NoId, active |-> 1, quiet |-> 0, merge |-> 0,
    seen |-> TRUE, backdate |-> ts, lastActive |-> ts ]

TrackActive(t, blob, ts) ==
  [ t EXCEPT !.roi = blob, !.seen = TRUE, !.quiet = 0, !.active = @ + 1,
             !.backdate = IF t.active = 0 THEN ts ELSE @, !.lastActive = ts ]

TrackInactive(t) ==
  [ t EXCEPT !.seen = FALSE, !.active = 0, !.quiet = @ + 1 ]

(* A track that has been quiet for the close window is removed, opened or  *)
(* not.                                                                    *)
IsGone(t) == ~ t.seen /\ t.quiet >= QuietFrames

Opens(t) == t.openId = NoId /\ t.active >= OpenFrames

(* _maybe_open, over the tracks in the order the frame visited them.       *)
Numbered(tracks, count) ==
  [ i \in DOMAIN tracks |->
      IF Opens(tracks[i])
      THEN [ tracks[i] EXCEPT !.openId =
               count + Cardinality({ k \in 1 .. i : Opens(tracks[k]) }) ]
      ELSE tracks[i] ]

IsLive(t) == t.openId # NoId /\ t.seen      \* a MotionTrack of the result

OpenTracks(g) == { g.tracks[i].openId : i \in DOMAIN g.tracks } \ {NoId}

CloseOf(t) == [id |-> t.openId, ts |-> t.lastActive]

Closes(tracks) ==
  LET open == InOrder(tracks, { i \in DOMAIN tracks : tracks[i].openId # NoId })
  IN  [ i \in DOMAIN open |-> CloseOf(open[i]) ]

NewMultiGate == [primed |-> FALSE, segmentCount |-> 0, tracks |-> <<>>]

(* _associate: the new tracks, and the CLOSE events in their order.        *)
Associate(tracks, blobs, count, ts) ==
  LET v          == View(tracks, blobs)
      assigned   == Assigned(v)
      contending == Tracks(Contending(v))
      absorbed   == Tracks(Absorbed(v))
      merged     == MergeOrder(v)
      grown(i) ==
        IF \E a \in assigned : a[1] = i
        THEN TrackActive(tracks[i], blobs[(CHOOSE a \in assigned : a[1] = i)[2]], ts)
        ELSE TrackInactive(tracks[i])
      aged == [ i \in DOMAIN tracks |->
                [grown(i) EXCEPT !.merge = IF i \in contending THEN @ + 1 ELSE 0] ]
      rest  == DOMAIN tracks \ absorbed
      quiet == { i \in rest : IsGone(aged[i]) }
      fresh == InOrder(blobs, { j \in DOMAIN blobs : ~ \E a \in assigned : a[2] = j })
      after == InOrder(aged, rest \ quiet) \o
               [ k \in DOMAIN fresh |-> SpawnTrack(fresh[k], ts) ]
  IN  [ tracks |-> Numbered(after, count),
        closes |-> Closes([ k \in DOMAIN merged |-> tracks[merged[k].track] ]) \o
                   Closes(InOrder(tracks, quiet)) ]

(* The gate after an association, and the events of the frame.             *)
Associated(g, result) ==
  LET after  == result.tracks
      opened == InOrder(after, { i \in DOMAIN after : after[i].openId > g.segmentCount })
  IN  [ gate   |-> [ g EXCEPT !.tracks = after,
                              !.segmentCount = @ + Len(opened) ],
        opens  |-> [ i \in DOMAIN opened |->
                      [id |-> opened[i].openId, ts |-> opened[i].backdate] ],
        closes |-> result.closes ]

(* update(frame) in multi mode; the first frame of a connection only       *)
(* primes the motion model.                                                *)
UpdateMulti(g, ts, mask) ==
  IF ~ g.primed
  THEN [ gate |-> [g EXCEPT !.primed = TRUE], opens |-> <<>>, closes |-> <<>> ]
  ELSE Associated(g, Associate(g.tracks, SegmentBlobs(mask), g.segmentCount, ts))

FlushMulti(g) == [ gate |-> [g EXCEPT !.tracks = <<>>], closes |-> Closes(g.tracks) ]

BreakMulti(g) ==
  [ FlushMulti(g) EXCEPT !.gate = [@ EXCEPT !.primed = FALSE] ]
=============================================================================
