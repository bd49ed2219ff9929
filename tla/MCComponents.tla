---------------------------- MODULE MCComponents ----------------------------
(***************************************************************************)
(* The components that share no state with each other, checked in one run: *)
(* subject says which of them this behavior is of, and the others stay in  *)
(* one initial state of theirs.                                            *)
(***************************************************************************)
EXTENDS GateSegments, DecodeEngine, Evidence, Bench, DeviceIdentity, ModeChoice,
        Sessions, GroundTruth, LivePreview, StationStart,
        ConfigSave, TLC

CONSTANTS d1, d2, p1

VARIABLE subject

vars == <<subject, gateVars, decodeVars, evidenceVars, benchVars, identityVars, modeVars,
          sessionVars, truthVars, previewVars, stationVars, saveVars>>

(* The cameras: cam, a twin of its product, another product of the same    *)
(* name, one of that name without a path, and a virtual camera.            *)
MCPathOf ==
  [ u \in Units |-> CASE u = "cam" -> "path 1" [] u = "twin" -> "path 2"
                      [] u = "other" -> "path 3" [] OTHER -> Absent ]
MCProductOf ==
  [ u \in Units |-> CASE u \in {"cam", "twin"} -> "vid:1" [] u = "other" -> "vid:2"
                      [] OTHER -> Absent ]
MCBuses ==
  { <<"cam", "obs">>, <<"obs", "cam">>, <<"obs", "twin">>, <<"twin", "cam">>,
    <<"other">>, <<"clone", "obs">> }

Mode(fmt, area, fps) == [fmt |-> fmt, area |-> area, fps |-> fps]
MCModes == { Mode("UYVY", 2, 60), Mode("MJPG", 2, 60), Mode("YUY2", 1, 60), Mode("UYVY", 2, 30) }

Offer(fmt, area, rates) == [fmt |-> fmt, area |-> area, rates |-> rates]
MCCapabilities ==
  { << Offer("UYVY", 1, {30, 60}), Offer("Y8", 2, {30}), Offer("Y12", 1, {60}) >>,
    << Offer("Y12", 2, {30}), Offer("Y8", 1, {60}), Offer("Y12", 2, {60}) >>,
    << Offer("UYVY", 1, {60}) >>,
    << Offer("Y8", 1, {60}) >> }

(* Cameras of a station, and sources a caller has given two of one id.     *)
MCLineups == { <<"camA", "camB">>, <<"camA", "camB", "camA">>, <<"camA", "camB", "camC">> }

(* Two dashboard processes on one database, one payload.                   *)
TwoDesks   == {d1, d2}
OnePayload == {p1}
DeskOrder  == Permutations(TwoDesks)

-----------------------------------------------------------------------------
(* The one initial state in which a component that is not looked at stays. *)
DecodeRests   == DecodeInit /\ priority = <<"zxing">>
IdentityRests ==
  /\ IdentityInit
  /\ bus = CHOOSE b \in Buses : TRUE
  /\ conf = CHOOSE e \in Entries : TRUE
ModeRests ==
  /\ ModeInit
  /\ device = [ backend |-> "reliable", offers |-> CHOOSE c \in Capabilities : TRUE,
                convert_rgb |-> TRUE ]
  /\ todo = { CHOOSE m \in Modes : TRUE }

TruthRests ==
  /\ TruthInit
  /\ feed = NewFeed("inject", 1, CHOOSE p \in Plans : TRUE)

SaveRests == SaveInit /\ yaml = Missing

Init ==
  /\ subject \in {"gate", "decode", "evidence", "bench", "identity", "mode",
                  "sessions", "truth", "preview", "station", "save"}
  /\ GateInit /\ EvidenceInit /\ BenchInit /\ SessionsInit /\ PreviewInit
  /\ StationInit
  /\ IF subject = "save"     THEN SaveInit     ELSE SaveRests
  /\ IF subject = "decode"   THEN DecodeInit   ELSE DecodeRests
  /\ IF subject = "identity" THEN IdentityInit ELSE IdentityRests
  /\ IF subject = "mode"     THEN ModeInit     ELSE ModeRests
  /\ IF subject = "truth"    THEN TruthInit    ELSE TruthRests

Next ==
  /\ UNCHANGED subject
  /\ \/ /\ subject = "gate" /\ GateNext
        /\ UNCHANGED <<decodeVars, evidenceVars, benchVars, identityVars, modeVars,
                       sessionVars, truthVars, previewVars, stationVars, saveVars>>
     \/ /\ subject = "decode" /\ DecodeNext
        /\ UNCHANGED <<gateVars, evidenceVars, benchVars, identityVars, modeVars,
                       sessionVars, truthVars, previewVars, stationVars, saveVars>>
     \/ /\ subject = "evidence" /\ EvidenceNext
        /\ UNCHANGED <<gateVars, decodeVars, benchVars, identityVars, modeVars,
                       sessionVars, truthVars, previewVars, stationVars, saveVars>>
     \/ /\ subject = "bench" /\ BenchNext
        /\ UNCHANGED <<gateVars, decodeVars, evidenceVars, identityVars, modeVars,
                       sessionVars, truthVars, previewVars, stationVars, saveVars>>
     \/ /\ subject = "identity" /\ IdentityNext
        /\ UNCHANGED <<gateVars, decodeVars, evidenceVars, benchVars, modeVars,
                       sessionVars, truthVars, previewVars, stationVars, saveVars>>
     \/ /\ subject = "mode" /\ ModeNext
        /\ UNCHANGED <<gateVars, decodeVars, evidenceVars, benchVars, identityVars,
                       sessionVars, truthVars, previewVars, stationVars, saveVars>>
     \/ /\ subject = "sessions" /\ SessionsNext
        /\ UNCHANGED <<gateVars, decodeVars, evidenceVars, benchVars, identityVars,
                       modeVars, truthVars, previewVars, stationVars, saveVars>>
     \/ /\ subject = "truth" /\ TruthNext
        /\ UNCHANGED <<gateVars, decodeVars, evidenceVars, benchVars, identityVars,
                       modeVars, sessionVars, previewVars, stationVars, saveVars>>
     \/ /\ subject = "preview" /\ PreviewNext
        /\ UNCHANGED <<gateVars, decodeVars, evidenceVars, benchVars, identityVars,
                       modeVars, sessionVars, truthVars, stationVars, saveVars>>
     \/ /\ subject = "station" /\ StationNext
        /\ UNCHANGED <<gateVars, decodeVars, evidenceVars, benchVars, identityVars,
                       modeVars, sessionVars, truthVars, previewVars, saveVars>>
     \/ /\ subject = "save" /\ SaveNext
        /\ UNCHANGED <<gateVars, decodeVars, evidenceVars, benchVars, identityVars,
                       modeVars, sessionVars, truthVars, previewVars, stationVars>>

Spec == Init /\ [][Next]_vars
=============================================================================
