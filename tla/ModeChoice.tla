----------------------------- MODULE ModeChoice -----------------------------
(***************************************************************************)
(* From probing to streaming: calibrate probes candidate modes, chooses    *)
(* one, verifies it and locks it into the entry; the run path streams the  *)
(* locked mode and its shape gate accepts or refuses the first frame.      *)
(*                                                                         *)
(* Abstraction.  The backend is "reliable" (DSHOW), "unreliable" (MSMF and *)
(* AVFoundation, whose readback may be garbage) or "pygrabber", whose      *)
(* graph is built for the candidate.  A geometry is its area; rates are    *)
(* frames per second.  The device answers a candidate the same way each    *)
(* time: how it answers is decided when it is probed.                      *)
(***************************************************************************)
EXTENDS Integers, Sequences, FiniteSets

CONSTANTS
  Modes,            \* the modes calibrate may try: fmt, area, fps
  Capabilities,          \* lists of what a pygrabber device offers: fmt, area, rates
  Achieved,              \* frame rates a device may deliver
  Uncompressed, Packed,  \* formats without MJPG artifacts; packed YUV formats
  Y8Formats, MonoFormats,
  Garbage                \* a fourcc that cannot be read back

ASSUME ModeAssumption ==
  /\ \A c \in Modes : c.area \in Nat \ {0} /\ c.fps \in Nat \ {0} /\ c.fmt # Garbage
  /\ \A o \in Capabilities : Len(o) \in Nat /\ DOMAIN o = 1 .. Len(o)
  /\ Garbage \notin Uncompressed
  /\ Achieved \subseteq Nat /\ Packed \subseteq Uncompressed
  /\ Y8Formats \subseteq MonoFormats

VARIABLES
  device,        \* the backend, what it offers, convert_rgb
  todo,          \* the candidates still to probe
  results,       \* the probe results
  locked,        \* the result whose candidate is in the entry, or none
  stage          \* how far calibration and the run are

modeVars == <<device, todo, results, locked, stage>>

ModeInit ==
  /\ device \in [ backend : {"reliable", "unreliable", "pygrabber"},
                  offers : Capabilities, convert_rgb : BOOLEAN ]
  /\ todo \in { t \in SUBSET Modes : Cardinality(t) \in 1 .. 2 }
  /\ results = {} /\ locked = {}
  /\ stage = [ pc |-> "probe", by |-> "calibrate", luma |-> Garbage, mismatches |-> 0 ]

-----------------------------------------------------------------------------
(* choose_format: the tiers in order, and within the first that anything   *)
(* matches the first capability whose range holds the rate, else the first.*)
OffersIn(fmts, areas) ==
  { i \in DOMAIN device.offers :
      device.offers[i].fmt \in fmts /\ device.offers[i].area \in areas }

AllFormats == { device.offers[i].fmt : i \in DOMAIN device.offers }
AllAreas   == { device.offers[i].area : i \in DOMAIN device.offers }

Tiers(c) ==
  << OffersIn(Y8Formats, {c.area}), OffersIn(MonoFormats, {c.area}),
     OffersIn(AllFormats, {c.area}), OffersIn(Y8Formats, AllAreas) >>

FirstOf(s) == CHOOSE i \in s : \A j \in s : i <= j

ChooseFormat(c) ==
  LET matched == { n \in DOMAIN Tiers(c) : Tiers(c)[n] # {} }
      tier    == Tiers(c)[FirstOf(matched)]
      at_rate == { i \in tier : c.fps \in device.offers[i].rates }
  IN  IF matched = {} THEN {} ELSE {FirstOf(IF at_rate # {} THEN at_rate ELSE tier)}

-----------------------------------------------------------------------------
(* probe_modes: a fresh capture for each candidate.  What the device says  *)
(* it negotiated is what it streams, except where readback may be garbage. *)
Streams(c) ==
  IF device.backend = "pygrabber"
    THEN { [fmt |-> device.offers[i].fmt, area |-> device.offers[i].area] : i \in ChooseFormat(c) }
    ELSE [ fmt : {c.fmt} \cup Packed, area : { d.area : d \in Modes } ]

Said(c, s) ==
  IF device.backend # "unreliable" THEN {s}
  ELSE [ fmt : {s.fmt, Garbage}, area : {s.area, c.area} ]

Probe ==
  /\ stage.pc = "probe"
  /\ \E c \in todo :
       /\ todo' = todo \ {c}
       /\ \/ UNCHANGED results               \* did not open, or raised
          \/ \E s \in Streams(c), f \in Achieved : \E said \in Said(c, s) :
               results' = results \cup { [cand |-> c, streams |-> s, said |-> said, fps |-> f] }
  /\ UNCHANGED <<device, locked, stage>>

(* choose_mode.                                                            *)
Viable ==
  { r \in results : 10 * r.fps >= 9 * r.cand.fps /\ r.said.area > 0 }
Finalists == { r \in Viable : \A q \in Viable : q.said.area <= r.said.area }
Near == { r \in Finalists : \A q \in Finalists : 100 * r.fps >= 95 * q.fps }
Pool ==
  LET uncompressed == { r \in Near : r.said.fmt \in Uncompressed }
  IN  IF uncompressed # {} THEN uncompressed ELSE Near
Chosen == { r \in Pool : \A q \in Pool : q.fps <= r.fps }

(* pygrabber's geometry is refused when the graph fell back to another.    *)
GeometryFellBack(r) == device.backend = "pygrabber" /\ r.said.area # r.cand.area

(* The verdict on the verification capture.  rate tells whether the rate   *)
(* and convert_rgb read back as asked.                                     *)
ModeVerified(r, rate) == r.said.fmt = r.cand.fmt /\ r.said.area = r.cand.area /\ rate

(* Mutant: only the controls gate.                                         *)
Locks_ControlsOnly(r, rate, control, effect) ==
  /\ effect /\ control # "rejected"
  /\ device.backend = "reliable" => control = "confirmed"

Locks(r, rate, control, effect) ==
  /\ effect /\ control # "rejected"
  /\ device.backend = "reliable" => ModeVerified(r, rate) /\ control = "confirmed"

Control ==
  IF device.backend = "reliable" THEN {"confirmed", "mismatch", "rejected"}
  ELSE {"asserted", "rejected"}

Calibrate ==
  /\ stage.pc = "probe" /\ todo = {}
  /\ \/ /\ Chosen = {} \/ \E r \in Chosen : GeometryFellBack(r)
        /\ stage' = [ stage EXCEPT !.pc = "failed" ]
        /\ UNCHANGED locked
     \/ \E r \in Chosen, rate, effect \in BOOLEAN, control \in Control :
          /\ ~ GeometryFellBack(r)
          /\ locked' = { q \in {r} : Locks(q, rate, control, effect) }
          /\ stage' = [ stage EXCEPT !.pc = IF locked' = {} THEN "failed" ELSE "locked" ]
  /\ UNCHANGED <<device, todo, results>>

(* An operator may write any mode into the entry, whatever was found.      *)
WriteByHand ==
  /\ stage.pc \in {"probe", "failed"} /\ todo = {}
  /\ \E r \in results : locked' = {r}
  /\ stage' = [ stage EXCEPT !.pc = "locked", !.by = "hand" ]
  /\ UNCHANGED <<device, todo, results>>

-----------------------------------------------------------------------------
(* packed_luma_channel_for: the plane a packed format has its luma on.     *)
LumaPlane(fmt) == IF fmt \in Packed THEN fmt ELSE Garbage

NegotiatedPlane(r) ==
  IF LumaPlane(r.said.fmt) # Garbage THEN LumaPlane(r.said.fmt) ELSE LumaPlane(r.cand.fmt)

(* _connect: apply_mode only warns; _apply_negotiated_format.              *)
RunConnects ==
  /\ stage.pc = "locked"
  /\ \E r \in locked :
       stage' = [ stage EXCEPT !.pc = "connected", !.luma = NegotiatedPlane(r),
                  !.mismatches = IF r.said.fmt # r.cand.fmt THEN 1 ELSE 0 ]
  /\ UNCHANGED <<device, todo, results, locked>>

TwoChannel(r) ==
  r.streams.fmt \in Packed /\ ~ device.convert_rgb /\ device.backend # "pygrabber"

(* _verify_frame_shape on the first frame delivered.                       *)
ShapeAccepted(r) ==
  /\ ~ (TwoChannel(r) /\ stage.luma = Garbage)
  /\ r.streams.area = r.cand.area

FirstFrame ==
  /\ stage.pc = "connected"
  /\ \E r \in locked :
       stage' = [ stage EXCEPT !.pc = IF ShapeAccepted(r) THEN "running" ELSE "refused" ]
  /\ UNCHANGED <<device, todo, results, locked>>

ModeNext == Probe \/ Calibrate \/ WriteByHand \/ RunConnects \/ FirstFrame

-----------------------------------------------------------------------------
(* From choose_format to the shape gate.  Where readback can be trusted, a *)
(* mode calibrate has locked never puts the run path into the reconnect    *)
(* loop of a refused shape, on a device that answers as it did then.  What *)
(* runs has the locked geometry and is read on the luma plane of what the  *)
(* device streams, however the entry came about, unless its format cannot  *)
(* be read back, which is counted.  A pygrabber graph is built at another  *)
(* geometry only when the device does not offer the one asked for.         *)
LockedModeStreams ==
  /\ device.backend # "unreliable" /\ stage.by = "calibrate" => stage.pc # "refused"
  /\ stage.pc = "running" =>
       \A r \in locked :
         /\ r.streams.area = r.cand.area
         /\ TwoChannel(r) =>
              \/ stage.luma = r.streams.fmt
              \/ r.said.fmt = Garbage /\ stage.mismatches > 0
  /\ device.backend = "pygrabber" =>
       \A r \in results : r.cand.area \in AllAreas => r.streams.area = r.cand.area
=============================================================================
