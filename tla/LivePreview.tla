---------------------------- MODULE LivePreview ----------------------------
(***************************************************************************)
(* web/preview.py and the MJPEG stream of web/app.py: the pipeline thread  *)
(* swaps in its newest frame under a lock, any number of streams copy the  *)
(* references under the lock, draw and encode outside it, and share a      *)
(* cache of the last JPEG that was finished.                               *)
(*                                                                         *)
(* Abstraction.  A picture is the frame and the overlays it was drawn      *)
(* from; scaling, colors and the encoding itself are left out.  The frame  *)
(* of an update is its time, in units of the time an overlay lingers.      *)
(***************************************************************************)
EXTENDS Integers, Sequences, SequencesExt

CONSTANTS
  Viewers,       \* the streams being served
  MaxOverlays,   \* _MAX_OVERLAYS
  MaxUpdates     \* bound: frames shown

ASSUME PreviewAssumption == MaxOverlays \in Nat \ {0} /\ MaxUpdates \in Nat

VARIABLES
  preview,   \* the LivePreview object
  viewer,    \* what each stream is doing and the last picture it sent
  shown      \* ghost: the picture each update stood for

previewVars == <<preview, viewer, shown>>

NoPicture == [ frame |-> -1, decodes |-> <<>> ]
NotCached == [ stamp |-> -1, picture |-> NoPicture ]

PreviewInit ==
  /\ preview = [ picture |-> NoPicture, stamp |-> 0, cache |-> NotCached ]
  /\ viewer = [ v \in Viewers |-> [ pc |-> "poll", copy |-> NotCached, sent |-> NotCached ] ]
  /\ shown = <<>>

-----------------------------------------------------------------------------
(* A deque with a maxlen forgets on the left; so does the pruning by age.  *)
Newest(decodes) == SubSeq(decodes, Max({1, 1 + Len(decodes) - MaxOverlays}), Len(decodes))
Kept(decodes, cutoff) ==
  SubSeq(decodes, Min({ i \in DOMAIN decodes : decodes[i] >= cutoff } \cup {1 + Len(decodes)}),
         Len(decodes))

(* update(): decodes carry the time of their own frame, which is an        *)
(* earlier one when they are those of an idle scan.                        *)
Shows ==
  /\ preview.stamp < MaxUpdates
  /\ \E ts \in (preview.picture.frame + 1) .. (preview.picture.frame + 2) :
     \E found \in { <<>> } \cup { <<t>> : t \in { ts, ts - 2 } } :
       LET picture == [ frame |-> ts,
                        decodes |-> Kept(Newest(preview.picture.decodes \o found), ts - 1) ]
       IN  /\ preview' = [ preview EXCEPT !.picture = picture, !.stamp = @ + 1 ]
           /\ shown' = Append(shown, picture)
  /\ UNCHANGED viewer

(* render_jpeg() under its lock: what the stream is going to send, or has  *)
(* to draw; nothing before the first frame.                                *)
Copy == [ stamp |-> preview.stamp, picture |-> preview.picture ]

(* Mutant: any JPEG in the cache will do.                                  *)
Hit_AnyStamp == preview.cache # NotCached

Hit == preview.cache.stamp = preview.stamp

(* frames() of the stream: a new stamp is sent, an old one only to keep    *)
(* the connection alive.                                                   *)
Sent(v, jpeg, alive) ==
  viewer' = [ viewer EXCEPT ![v] =
    [ pc |-> "poll", copy |-> NotCached,
      sent |-> IF jpeg.stamp # @.sent.stamp \/ alive THEN jpeg ELSE @.sent ] ]

Poll(v) ==
  /\ viewer[v].pc = "poll" /\ preview.picture # NoPicture
  /\ IF Hit
       THEN \E alive \in BOOLEAN :
              Sent(v, [ stamp |-> preview.stamp, picture |-> preview.cache.picture ], alive)
       ELSE viewer' = [ viewer EXCEPT ![v] = [ pc |-> "encode", copy |-> Copy, sent |-> @.sent ] ]
  /\ UNCHANGED <<preview, shown>>

(* The JPEG is finished outside the lock and becomes the cache, although a *)
(* newer one may be there; or the encoder fails and nothing is sent.       *)
Encoded(v) ==
  /\ viewer[v].pc = "encode"
  /\ \/ /\ preview' = [ preview EXCEPT !.cache = viewer[v].copy ]
        /\ \E alive \in BOOLEAN : Sent(v, viewer[v].copy, alive)
     \/ /\ viewer' = [ viewer EXCEPT ![v] = [ pc |-> "poll", copy |-> NotCached, sent |-> @.sent ] ]
        /\ UNCHANGED preview
  /\ UNCHANGED shown

PreviewNext == Shows \/ \E v \in Viewers : Poll(v) \/ Encoded(v)

-----------------------------------------------------------------------------
(* render_jpeg and its cache, shared by streams that encode at their own   *)
(* pace: what a stream sends under a stamp is the picture of that very     *)
(* update, frame and overlays together, whoever encoded it.                *)
PicturesAreTheirStamps ==
  \A v \in Viewers :
    LET sent == viewer[v].sent
    IN  sent # NotCached => sent.stamp \in DOMAIN shown /\ sent.picture = shown[sent.stamp]
=============================================================================
