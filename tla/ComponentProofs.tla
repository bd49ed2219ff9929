--------------------------- MODULE ComponentProofs ---------------------------
(***************************************************************************)
(* Theorems about the components that share no state with the pipeline,    *)
(* each for every value of its constants: the preview of the dashboard,    *)
(* the save of a calibration, the choice of a capture mode, the start of a *)
(* station, review sessions, the cascade of decoders, the camera a name    *)
(* opens, the bench, the live camera with its captures, the queue of       *)
(* frames, and the motion gate.  Each part stands alone: the specification *)
(* of the component, its inductive invariant, the lemmas and the theorem.  *)
(***************************************************************************)
EXTENDS LivePreview, ConfigSave, ModeChoice, StationStart, Sessions, DecodeEngine,
        DeviceIdentity, Bench, LiveCamera, FrameFlow, GateSegments, FiniteSetTheorems,
        FunctionTheorems, SequenceTheorems, WellFoundedInduction, TLAPS

(***************************************************************************)
(* The preview: the cache that streams share never mixes up two pictures.  *)
(***************************************************************************)

PreviewSpec == PreviewInit /\ [][PreviewNext]_previewVars

(* A sequence, whatever its elements.                                      *)
IsList(s) == s \in Seq({ s[i] : i \in DOMAIN s })

(* Something with a stamp and a picture that is a picture that was shown   *)
(* under that stamp, or the initial nothing.                               *)
Stamped(c, pictures) ==
  /\ c \in [ stamp : Int, picture : {c.picture} ]
  /\ c # NotCached => c.stamp \in DOMAIN pictures /\ c.picture = pictures[c.stamp]

(* The newest frame is the last one shown.                                 *)
NewestIsLast ==
  /\ preview \in [ picture : {preview.picture}, stamp : Nat, cache : {preview.cache} ]
  /\ preview.stamp = Len(shown)
  /\ preview.picture = IF shown = <<>> THEN NoPicture ELSE shown[Len(shown)]

StreamType ==
  viewer \in [ Viewers -> [ pc : {"poll", "encode"},
                            copy : { viewer[v].copy : v \in Viewers },
                            sent : { viewer[v].sent : v \in Viewers } ] ]

(* Cache, copies under way and pictures sent are all under their stamps,   *)
(* and a stream that encodes has something to encode.                      *)
AllStamped ==
  /\ Stamped(preview.cache, shown)
  /\ \A v \in Viewers :
       /\ Stamped(viewer[v].copy, shown) /\ Stamped(viewer[v].sent, shown)
       /\ viewer[v].pc = "encode" => viewer[v].copy # NotCached

PreviewInv == IsList(shown) /\ NewestIsLast /\ StreamType /\ AllStamped

-----------------------------------------------------------------------------
(* Appending leaves what was there where it was.                           *)
LEMMA AppendKeeps ==
  ASSUME NEW s, IsList(s), NEW e
  PROVE  LET t == Append(s, e)
         IN  /\ IsList(t) /\ t # <<>> /\ Len(t) = Len(s) + 1 /\ t[Len(t)] = e
             /\ \A i \in DOMAIN s : i \in DOMAIN t /\ t[i] = s[i]
<1> DEFINE S == { s[i] : i \in DOMAIN s } \cup {e}
           t == Append(s, e)
<1>1. s \in Seq(S) /\ e \in S
  BY DEF IsList
<1>2. /\ t \in Seq(S) /\ Len(t) = Len(s) + 1 /\ t[Len(t)] = e /\ Len(s) \in Nat
      /\ \A i \in 1 .. Len(s) : t[i] = s[i]
  BY <1>1
<1>3. DOMAIN s = 1 .. Len(s) /\ DOMAIN t = 1 .. Len(t)
  BY <1>1, <1>2
<1>4. IsList(t)
  BY <1>2, <1>3 DEF IsList
<1> QED
  BY <1>2, <1>3, <1>4

(* What is under its stamp stays so when another picture is shown.         *)
LEMMA StampedKept ==
  ASSUME NEW s, IsList(s), NEW e, NEW c, Stamped(c, s)
  PROVE  Stamped(c, Append(s, e))
BY AppendKeeps DEF Stamped

(* At first nothing was shown, cached or sent.                             *)
LEMMA InitIInv == PreviewInit => PreviewInv
<1> SUFFICES ASSUME PreviewInit PROVE PreviewInv
  OBVIOUS
<1>1. IsList(shown) /\ Len(shown) = 0
  BY DEF PreviewInit, IsList
<1>2. NotCached \in [ stamp : Int, picture : {NotCached.picture} ]
  BY DEF NotCached
<1>3. NewestIsLast
  BY <1>1 DEF PreviewInit, NewestIsLast
<1>4. StreamType
  BY DEF PreviewInit, StreamType
<1>5. AllStamped
  BY <1>2 DEF PreviewInit, AllStamped, Stamped
<1> QED
  BY <1>1, <1>3, <1>4, <1>5 DEF PreviewInv

(* update() swaps in a picture under the next stamp.                       *)
LEMMA ShowsKeeps ==
  ASSUME PreviewInv, Shows
  PROVE  PreviewInv'
<1>1. PICK p : /\ preview' = [ preview EXCEPT !.picture = p, !.stamp = @ + 1 ]
               /\ shown' = Append(shown, p)
               /\ viewer' = viewer
  BY DEF Shows
<1>2. /\ IsList(shown') /\ shown' # <<>> /\ Len(shown') = Len(shown) + 1
      /\ shown'[Len(shown')] = p
  BY <1>1, AppendKeeps DEF PreviewInv
<1>3. NewestIsLast'
  <2>1. preview' = [ picture |-> p, stamp |-> preview.stamp + 1, cache |-> preview.cache ]
    BY <1>1 DEF PreviewInv, NewestIsLast
  <2>2. preview'.picture = p /\ preview'.stamp = Len(shown) + 1 /\ preview'.stamp \in Nat
    BY <2>1 DEF PreviewInv, NewestIsLast
  <2> QED
    BY <1>2, <2>1, <2>2 DEF NewestIsLast
<1>4. StreamType'
  BY <1>1 DEF PreviewInv, StreamType
<1>5. AllStamped'
  <2>1. preview'.cache = preview.cache
    BY <1>1 DEF PreviewInv, NewestIsLast
  <2> QED
    BY <1>1, <2>1, StampedKept DEF PreviewInv, AllStamped
<1> QED
  BY <1>2, <1>3, <1>4, <1>5 DEF PreviewInv

(* A stream's step: only the stream changes, and a stamped picture is sent *)
(* or the stream goes on with what it had.                                 *)
LEMMA StreamKeeps ==
  ASSUME PreviewInv, NEW v \in Viewers, NEW pc \in {"poll", "encode"},
         NEW copy, Stamped(copy, shown), pc = "encode" => copy # NotCached,
         NEW sent, Stamped(sent, shown),
         viewer' = [ viewer EXCEPT ![v] = [ pc |-> pc, copy |-> copy, sent |-> sent ] ],
         shown' = shown
  PROVE  /\ StreamType'
         /\ \A w \in Viewers :
              /\ Stamped(viewer[w].copy, shown)' /\ Stamped(viewer[w].sent, shown)'
              /\ viewer'[w].pc = "encode" => viewer'[w].copy # NotCached
<1>1. viewer = [ w \in Viewers |-> viewer[w] ]
  BY DEF PreviewInv, StreamType
<1>2. viewer' = [ w \in Viewers |-> IF w = v THEN [ pc |-> pc, copy |-> copy, sent |-> sent ]
                                    ELSE viewer[w] ]
  BY <1>1
<1>3. StreamType'
  <2>1. \A w \in Viewers : viewer[w] \in
          [ pc : {"poll", "encode"}, copy : {viewer[w].copy}, sent : {viewer[w].sent} ]
    BY DEF PreviewInv, StreamType
  <2>2. \A w \in Viewers : viewer'[w] \in
          [ pc : {"poll", "encode"}, copy : {viewer'[w].copy}, sent : {viewer'[w].sent} ]
    BY <1>2, <2>1
  <2> QED
    BY <1>2, <2>2 DEF StreamType
<1>4. ASSUME NEW w \in Viewers
      PROVE  /\ Stamped(viewer'[w].copy, shown) /\ Stamped(viewer'[w].sent, shown)
             /\ viewer'[w].pc = "encode" => viewer'[w].copy # NotCached
  BY <1>2 DEF PreviewInv, AllStamped
<1> QED
  BY <1>3, <1>4

(* Sent with a stamped picture, and the record it leaves.                  *)
LEMMA SentRecord ==
  ASSUME PreviewInv, NEW v \in Viewers, NEW jpeg, Stamped(jpeg, shown), NEW alive \in BOOLEAN,
         Sent(v, jpeg, alive)
  PROVE  \E sent : /\ Stamped(sent, shown)
                   /\ viewer' = [ viewer EXCEPT ![v] =
                        [ pc |-> "poll", copy |-> NotCached, sent |-> sent ] ]
<1> DEFINE sent == IF jpeg.stamp # viewer[v].sent.stamp \/ alive THEN jpeg ELSE viewer[v].sent
<1>1. Stamped(sent, shown)
  BY DEF PreviewInv, AllStamped
<1> QED
  BY <1>1 DEF Sent

(* Nothing is under its stamp as well.                                     *)
LEMMA NotCachedStamped == Stamped(NotCached, shown)
BY DEF Stamped, NotCached

(* render_jpeg() under its lock: a hit is of the current stamp, a miss     *)
(* copies the current picture.                                             *)
LEMMA PollKeeps ==
  ASSUME PreviewInv, NEW v \in Viewers, Poll(v)
  PROVE  PreviewInv'
<1>1. preview' = preview /\ shown' = shown
  BY DEF Poll
<1>2. shown # <<>> /\ Len(shown) \in DOMAIN shown /\ Len(shown) \in Nat
  <2>1. shown # <<>>
    BY DEF Poll, PreviewInv, NewestIsLast
  <2> QED
    BY <2>1 DEF PreviewInv, IsList
<1>3. /\ StreamType'
      /\ \A w \in Viewers :
           /\ Stamped(viewer[w].copy, shown)' /\ Stamped(viewer[w].sent, shown)'
           /\ viewer'[w].pc = "encode" => viewer'[w].copy # NotCached
  <2>1. CASE Hit
    <3> DEFINE jpeg == [ stamp |-> preview.stamp, picture |-> preview.cache.picture ]
    <3>1. PICK alive \in BOOLEAN : Sent(v, jpeg, alive)
      BY <2>1 DEF Poll
    <3>2. Stamped(jpeg, shown)
      <4>1. preview.cache # NotCached
        BY <1>2, <2>1 DEF Hit, PreviewInv, NewestIsLast, NotCached
      <4>2. preview.cache.picture = shown[preview.stamp]
        BY <4>1, <2>1 DEF Hit, PreviewInv, AllStamped, Stamped
      <4>3. preview.stamp \in DOMAIN shown /\ preview.stamp \in Int
        BY <1>2 DEF PreviewInv, NewestIsLast
      <4> QED
        BY <4>2, <4>3 DEF Stamped
    <3> HIDE DEF jpeg
    <3>3. PICK sent : /\ Stamped(sent, shown)
                      /\ viewer' = [ viewer EXCEPT ![v] =
                           [ pc |-> "poll", copy |-> NotCached, sent |-> sent ] ]
      BY <3>1, <3>2, SentRecord
    <3> QED
      BY <1>1, <3>3, NotCachedStamped, StreamKeeps
  <2>2. CASE ~ Hit
    <3>1. viewer' = [ viewer EXCEPT ![v] = [ pc |-> "encode", copy |-> Copy, sent |-> viewer[v].sent ] ]
      BY <2>2 DEF Poll
    <3>2. Stamped(Copy, shown) /\ Copy # NotCached
      BY <1>2 DEF Copy, Stamped, PreviewInv, NewestIsLast, NotCached
    <3>3. Stamped(viewer[v].sent, shown)
      BY DEF PreviewInv, AllStamped
    <3> QED
      BY <1>1, <3>1, <3>2, <3>3, StreamKeeps
  <2> QED
    BY <2>1, <2>2
<1> QED
  BY <1>1, <1>3 DEF PreviewInv, NewestIsLast, AllStamped

(* The end of an encoding: the copy becomes the cache and is sent, however *)
(* old it is, or is thrown away.                                           *)
LEMMA EncodedKeeps ==
  ASSUME PreviewInv, NEW v \in Viewers, Encoded(v)
  PROVE  PreviewInv'
<1>1. shown' = shown /\ viewer[v].pc = "encode"
  BY DEF Encoded
<1>2. Stamped(viewer[v].copy, shown) /\ Stamped(viewer[v].sent, shown)
  BY DEF PreviewInv, AllStamped
<1>3. CASE /\ preview' = [ preview EXCEPT !.cache = viewer[v].copy ]
           /\ \E alive \in BOOLEAN : Sent(v, viewer[v].copy, alive)
  <2>1. PICK sent : /\ Stamped(sent, shown)
                    /\ viewer' = [ viewer EXCEPT ![v] =
                         [ pc |-> "poll", copy |-> NotCached, sent |-> sent ] ]
    BY <1>2, <1>3, SentRecord
  <2>2. /\ StreamType'
        /\ \A w \in Viewers :
             /\ Stamped(viewer[w].copy, shown)' /\ Stamped(viewer[w].sent, shown)'
             /\ viewer'[w].pc = "encode" => viewer'[w].copy # NotCached
    BY <1>1, <2>1, NotCachedStamped, StreamKeeps
  <2>3. NewestIsLast' /\ preview'.cache = viewer[v].copy
    BY <1>1, <1>3 DEF PreviewInv, NewestIsLast
  <2> QED
    BY <1>1, <1>2, <2>2, <2>3 DEF PreviewInv, AllStamped
<1>4. CASE /\ viewer' = [ viewer EXCEPT ![v] =
                             [ pc |-> "poll", copy |-> NotCached, sent |-> viewer[v].sent ] ]
           /\ UNCHANGED preview
  <2>1. /\ StreamType'
        /\ \A w \in Viewers :
             /\ Stamped(viewer[w].copy, shown)' /\ Stamped(viewer[w].sent, shown)'
             /\ viewer'[w].pc = "encode" => viewer'[w].copy # NotCached
    BY <1>1, <1>2, <1>4, NotCachedStamped, StreamKeeps
  <2> QED
    BY <1>1, <1>4, <2>1 DEF PreviewInv, NewestIsLast, AllStamped
<1> QED
  BY <1>3, <1>4 DEF Encoded

(* The invariant is inductive.                                             *)
LEMMA StepIInv == PreviewInv /\ [PreviewNext]_previewVars => PreviewInv'
<1> SUFFICES ASSUME PreviewInv, [PreviewNext]_previewVars PROVE PreviewInv'
  OBVIOUS
<1>1. CASE UNCHANGED previewVars
  BY <1>1 DEF PreviewInv, previewVars, NewestIsLast, StreamType, AllStamped
<1> QED
  BY <1>1, ShowsKeeps, PollKeeps, EncodedKeeps DEF PreviewNext

(* However many streams encode how slowly, and whoever fills the cache: a  *)
(* stream sends under a stamp the picture that was shown under it.         *)
THEOREM PicturesStayUnderTheirStamps == PreviewSpec => []PicturesAreTheirStamps
<1>1. PreviewInv => PicturesAreTheirStamps
  BY DEF PreviewInv, AllStamped, Stamped, PicturesAreTheirStamps
<1> QED
  BY <1>1, InitIInv, StepIInv, PTL DEF PreviewSpec

-----------------------------------------------------------------------------
(***************************************************************************)
(* The configuration file.                                                 *)
(***************************************************************************)

SaveSpec == SaveInit /\ [][SaveNext]_saveVars

(* What a file holds that is complete.                                     *)
Configs == [ Calibrated -> Nat ]

SaverRec ==
  [ at : {"away", "backup", "copy", "write", "replace"}, raw : Configs, existed : BOOLEAN,
    stamp : 0 .. MaxSecond, copy : Configs \cup { Missing, Torn } ]

SaveTyped ==
  /\ yaml \in Configs \cup { Missing }
  /\ backups \in [ 0 .. MaxSecond -> Configs \cup { Missing, Torn } ]
  /\ saver \in [ Calibrated -> SaverRec ]
  /\ second \in 0 .. MaxSecond /\ saves \in Nat /\ spoiled \in BOOLEAN
  /\ ever \subseteq Configs

(* Versions are numbers of saves begun.                                    *)
VersionsPassed ==
  /\ yaml # Missing => \A d \in Calibrated : yaml[d] <= saves
  /\ \A c, d \in Calibrated : saver[c].raw[d] <= saves

(* A save that is alone replaces the file it has read, and has it in its   *)
(* backup before it does.                                                  *)
NotOlder(old, new) == \A d \in Calibrated : old[d] <= new[d]

BackedUp(c) ==
  /\ yaml # Missing => NotOlder(yaml, saver[c].raw)
  /\ saver[c].at = "backup" =>
       backups[saver[c].stamp] = Missing /\ (saver[c].existed <=> yaml # Missing)
  /\ saver[c].at = "copy" => backups[saver[c].stamp] = Torn /\ saver[c].copy = yaml
  /\ saver[c].at \in {"write", "replace"} /\ yaml # Missing => backups[saver[c].stamp] = yaml

AloneAndBackedUp ==
  /\ \A c, d \in Calibrated : saver[c].at # "away" /\ saver[d].at # "away" => c = d
  /\ \A c \in Calibrated : saver[c].at # "away" => BackedUp(c)

NothingLost ==
  /\ \A old \in ever : old = yaml \/ \E t \in 0 .. MaxSecond : backups[t] = old
  /\ yaml = Missing => ever = {}
  /\ \A old \in ever : NotOlder(old, yaml)

SaveInv ==
  /\ SaveTyped /\ VersionsPassed
  /\ ~ spoiled => AloneAndBackedUp /\ NothingLost

LEMMA InitSaveInv == SaveInit => SaveInv
<1> SUFFICES ASSUME SaveInit PROVE SaveInv
  OBVIOUS
<1>1. Empty \in Configs /\ \A d \in Calibrated : Empty[d] = 0
  BY DEF Empty, Configs
<1>2. Away \in SaverRec
  <2>1. 0 \in 0 .. MaxSecond
    BY SaveAssumption
  <2> QED
    BY <1>1, <2>1 DEF Away, SaverRec
<1>3. SaveTyped
  <2>1. yaml \in Configs \cup { Missing } /\ ever \subseteq Configs
    BY <1>1 DEF SaveInit
  <2>2. saver \in [ Calibrated -> SaverRec ] /\ backups \in [ 0 .. MaxSecond -> Configs \cup { Missing, Torn } ]
    BY <1>2 DEF SaveInit
  <2>3. second = 0 /\ saves = 0 /\ spoiled = FALSE /\ MaxSecond \in Nat
    BY SaveAssumption DEF SaveInit
  <2>4. second \in 0 .. MaxSecond /\ saves \in Nat
    BY <2>3
  <2>5. spoiled \in BOOLEAN
    BY <2>3
  <2> QED
    BY <2>1, <2>2, <2>4, <2>5 DEF SaveTyped
<1>4. VersionsPassed
  BY <1>1, SaveAssumption DEF SaveInit, VersionsPassed, Away, Configs
<1>5. AloneAndBackedUp
  <2>1. \A c \in Calibrated : saver[c].at = "away"
    BY DEF SaveInit, Away
  <2> QED
    BY <2>1 DEF AloneAndBackedUp
<1>6. NothingLost
  BY <1>1 DEF SaveInit, NothingLost, NotOlder
<1> QED
  BY <1>3, <1>4, <1>5, <1>6 DEF SaveInv

(* Only the place of a saver changes, to away or to a later one.           *)
LEMMA StepSaveTyped ==
  ASSUME SaveTyped, VersionsPassed, SaveNext
  PROVE  SaveTyped' /\ VersionsPassed'
<1>0. Empty \in Configs /\ (\A d \in Calibrated : Empty[d] = 0) /\ Away \in SaverRec /\ Away.raw = Empty
  BY SaveAssumption DEF Empty, Configs, Away, SaverRec
<1>1. CASE SecondPasses
  BY <1>1, SaveAssumption DEF SecondPasses, SaveTyped, VersionsPassed
<1>2. ASSUME NEW c \in Calibrated, LoadsAndMerges(c)
      PROVE  SaveTyped' /\ VersionsPassed'
  <2> DEFINE base == IF yaml = Missing THEN Empty ELSE yaml
             raw  == [ base EXCEPT ![c] = saves + 1 ]
             new  == [ Away EXCEPT !.at = "backup", !.raw = raw,
                                   !.existed = yaml # Missing, !.stamp = Stamp ]
  <2>1. base \in Configs /\ \A d \in Calibrated : base[d] <= saves
    BY <1>0, <1>2 DEF LoadsAndMerges, SaveTyped, VersionsPassed
  <2>2. raw \in Configs /\ \A d \in Calibrated : raw[d] <= saves + 1
    BY <2>1 DEF Configs, SaveTyped
  <2>3. saver' = [ saver EXCEPT ![c] = new ] /\ saves' = saves + 1
        /\ UNCHANGED <<yaml, backups, second, ever>> /\ spoiled' \in BOOLEAN
    BY <1>2 DEF LoadsAndMerges
  <2> HIDE DEF base, raw
  <2>4. new \in SaverRec /\ new.raw = raw
    BY <1>0, <2>2 DEF SaverRec, SaveTyped, Stamp
  <2> HIDE DEF new
  <2>5. SaveTyped'
    BY <2>3, <2>4 DEF SaveTyped
  <2>6. \A d \in Calibrated : saver'[d].raw = (IF d = c THEN raw ELSE saver[d].raw)
    BY <2>3, <2>4 DEF SaveTyped
  <2>7. \A d \in Calibrated : saver[d].raw \in Configs /\ yaml \in Configs \cup {Missing} /\ saves \in Nat
    BY DEF SaveTyped, SaverRec
  <2>8. \A d, e \in Calibrated : saver'[d].raw[e] <= saves + 1
    BY <2>2, <2>6, <2>7 DEF Configs, VersionsPassed
  <2>9. yaml # Missing => \A e \in Calibrated : yaml[e] <= saves + 1
    BY <2>7 DEF Configs, VersionsPassed
  <2> QED
    BY <2>3, <2>5, <2>8, <2>9 DEF VersionsPassed
<1>3. ASSUME NEW c \in Calibrated,
             \/ BackupOpens(c) \/ BackupWritten(c) \/ NothingToBackUp(c) \/ TmpWritten(c)
             \/ Replaces(c) \/ SaveEndsEarly(c)
      PROVE  SaveTyped' /\ VersionsPassed'
  <2>1. saver[c] \in SaverRec
    BY DEF SaveTyped
  <2>2. /\ saver' \in [ Calibrated -> SaverRec ]
        /\ \A d \in Calibrated : saver'[d].raw \in { saver[d].raw, Empty }
    <3>1. CASE BackupOpens(c)
      BY <2>1, <3>1 DEF BackupOpens, SaveTyped, SaverRec
    <3>2. CASE BackupWritten(c) \/ NothingToBackUp(c) \/ TmpWritten(c)
      BY <2>1, <3>2 DEF BackupWritten, NothingToBackUp, TmpWritten, SaverGoes, SaveTyped, SaverRec
    <3>3. CASE Replaces(c) \/ SaveEndsEarly(c)
      BY <1>0, <3>3 DEF Replaces, SaveEndsEarly, SaveTyped
    <3> QED
      BY <1>3, <3>1, <3>2, <3>3
  <2>3. UNCHANGED <<second, saves, spoiled>>
    BY <1>3 DEF BackupOpens, BackupWritten, NothingToBackUp, TmpWritten, Replaces, SaveEndsEarly
  <2>4. backups' \in [ 0 .. MaxSecond -> Configs \cup { Missing, Torn } ]
    BY <1>3, <2>1 DEF BackupOpens, BackupWritten, NothingToBackUp, TmpWritten, Replaces,
       SaveEndsEarly, SaveTyped, SaverRec
  <2>5. /\ yaml' \in { yaml, saver[c].raw }
        /\ yaml' # yaml => yaml' = saver[c].raw
        /\ ever' \subseteq ever \cup { saver[c].raw }
    BY <1>3 DEF BackupOpens, BackupWritten, NothingToBackUp, TmpWritten, Replaces, SaveEndsEarly
  <2>6. SaveTyped'
    BY <2>1, <2>2, <2>3, <2>4, <2>5 DEF SaveTyped, SaverRec
  <2>7. VersionsPassed'
    <3>1. \A d \in Calibrated : /\ Empty[d] <= saves /\ saver[c].raw[d] <= saves
                                /\ \A b \in Calibrated : saver[b].raw[d] <= saves
      BY <1>0 DEF VersionsPassed, SaveTyped
    <3>2. \A b, d \in Calibrated : saver'[b].raw[d] <= saves
      BY <2>2, <3>1
    <3>3. yaml' # Missing => \A d \in Calibrated : yaml'[d] <= saves
      BY <2>5, <3>1 DEF VersionsPassed
    <3> QED
      BY <2>3, <3>2, <3>3 DEF VersionsPassed
  <2> QED
    BY <2>6, <2>7
<1> QED
  BY <1>1, <1>2, <1>3 DEF SaveNext

LEMMA StepSaveInv == SaveInv /\ [SaveNext]_saveVars => SaveInv'
<1> SUFFICES ASSUME SaveInv, SaveNext PROVE SaveInv'
  BY DEF saveVars, SaveInv, SaveTyped, VersionsPassed, AloneAndBackedUp, BackedUp, NotOlder, NothingLost
<1>0. SaveTyped /\ VersionsPassed /\ SaveTyped' /\ VersionsPassed'
  BY StepSaveTyped DEF SaveInv
<1> SUFFICES ASSUME ~ spoiled' PROVE AloneAndBackedUp' /\ NothingLost'
  BY <1>0 DEF SaveInv
<1>1. ~ spoiled /\ AloneAndBackedUp /\ NothingLost
  <2>1. ASSUME NEW c \in Calibrated, LoadsAndMerges(c)
        PROVE  ~ spoiled
    BY <2>1, Zenon DEF LoadsAndMerges
  <2>2. ASSUME NEW c \in Calibrated,
               \/ BackupOpens(c) \/ BackupWritten(c) \/ NothingToBackUp(c) \/ TmpWritten(c)
               \/ Replaces(c) \/ SaveEndsEarly(c)
        PROVE  ~ spoiled
    BY <2>2 DEF BackupOpens, BackupWritten, NothingToBackUp, TmpWritten, Replaces, SaveEndsEarly
  <2> QED
    BY <2>1, <2>2 DEF SaveInv, SaveNext, SecondPasses
<1>2. \A d \in Calibrated : saver[d] \in SaverRec /\ saver'[d] \in SaverRec
  BY <1>0 DEF SaveTyped
<1>3. CASE SecondPasses
  BY <1>1, <1>3 DEF SecondPasses, AloneAndBackedUp, BackedUp, NotOlder, NothingLost
<1>4. ASSUME NEW c \in Calibrated, LoadsAndMerges(c)
      PROVE  AloneAndBackedUp' /\ NothingLost'
  <2> DEFINE base == IF yaml = Missing THEN Empty ELSE yaml
             raw  == [ base EXCEPT ![c] = saves + 1 ]
             new  == [ Away EXCEPT !.at = "backup", !.raw = raw,
                                   !.existed = yaml # Missing, !.stamp = Stamp ]
  <2>1. /\ saver' = [ saver EXCEPT ![c] = new ]
        /\ \A d \in Calibrated \ {c} : saver[d].at = "away"
        /\ backups[second] = Missing
        /\ UNCHANGED <<yaml, backups, second, ever>>
    BY <1>4 DEF LoadsAndMerges
  <2>2. /\ new.at = "backup" /\ (new.existed <=> yaml # Missing)
        /\ new.stamp = second /\ new.raw = raw
    BY DEF Away, Stamp
  <2>3. yaml # Missing => \A d \in Calibrated : yaml[d] <= raw[d]
    BY <1>0 DEF SaveTyped, VersionsPassed, Configs
  <2> HIDE DEF base, raw, new
  <2>4. saver'[c] = new /\ \A d \in Calibrated : d # c => saver'[d] = saver[d]
    BY <1>0, <2>1 DEF SaveTyped
  <2>5. AloneAndBackedUp'
    BY <2>1, <2>2, <2>3, <2>4 DEF AloneAndBackedUp, BackedUp, NotOlder
  <2> QED
    BY <1>1, <2>1, <2>5 DEF NothingLost, NotOlder
<1>5. ASSUME NEW c \in Calibrated,
             \/ BackupOpens(c) \/ BackupWritten(c) \/ NothingToBackUp(c) \/ TmpWritten(c)
             \/ Replaces(c) \/ SaveEndsEarly(c)
      PROVE  AloneAndBackedUp' /\ NothingLost'
  <2>1. /\ saver[c].at # "away" /\ saver[c].stamp \in 0 .. MaxSecond /\ saver[c].raw \in Configs
        /\ \A d \in Calibrated : d # c => saver[d].at = "away" /\ saver'[d] = saver[d]
    BY <1>0, <1>1, <1>2, <1>5 DEF BackupOpens, BackupWritten, NothingToBackUp, TmpWritten, Replaces,
       SaveEndsEarly, SaverGoes, SaveTyped, AloneAndBackedUp, SaverRec
  <2>2. CASE BackupOpens(c)
    <3>1. /\ saver'[c] = [ saver[c] EXCEPT !.at = "copy", !.copy = yaml ]
          /\ backups'[saver[c].stamp] = Torn /\ UNCHANGED <<yaml, ever>>
          /\ \A t \in 0 .. MaxSecond : t # saver[c].stamp => backups'[t] = backups[t]
          /\ backups[saver[c].stamp] = Missing
      BY <1>0, <1>1, <2>1, <2>2 DEF BackupOpens, SaveTyped, AloneAndBackedUp, BackedUp
    <3>2. /\ saver'[c].at = "copy" /\ saver'[c].copy = yaml /\ saver'[c].stamp = saver[c].stamp
          /\ saver'[c].raw = saver[c].raw
      BY <1>2, <3>1 DEF SaverRec
    <3>3. BackedUp(c)'
      BY <1>1, <2>1, <3>1, <3>2 DEF AloneAndBackedUp, BackedUp, NotOlder
    <3>5. AloneAndBackedUp'
      BY <2>1, <3>3 DEF AloneAndBackedUp
    <3>4. Missing \notin ever
      BY <1>0, SaveAssumption DEF SaveTyped, Configs
    <3> QED
      BY <1>1, <3>1, <3>5, <3>4 DEF NothingLost, NotOlder
  <2>3. CASE BackupWritten(c)
    <3>1. /\ saver'[c] = [ saver[c] EXCEPT !.at = "write" ]
          /\ backups'[saver[c].stamp] = yaml /\ UNCHANGED <<yaml, ever>>
          /\ \A t \in 0 .. MaxSecond : t # saver[c].stamp => backups'[t] = backups[t]
          /\ backups[saver[c].stamp] = Torn
      BY <1>0, <1>1, <2>1, <2>3 DEF BackupWritten, SaverGoes, SaveTyped, AloneAndBackedUp, BackedUp
    <3>2. /\ saver'[c].at = "write" /\ saver'[c].stamp = saver[c].stamp
          /\ saver'[c].raw = saver[c].raw
      BY <1>2, <3>1 DEF SaverRec
    <3>3. BackedUp(c)'
      BY <1>1, <2>1, <3>1, <3>2 DEF AloneAndBackedUp, BackedUp, NotOlder
    <3>5. AloneAndBackedUp'
      BY <2>1, <3>3 DEF AloneAndBackedUp
    <3>4. Torn \notin ever
      BY <1>0, SaveAssumption DEF SaveTyped, Configs
    <3> QED
      BY <1>1, <3>1, <3>5, <3>4 DEF NothingLost, NotOlder
  <2>4. CASE NothingToBackUp(c) \/ TmpWritten(c)
    <3>1. /\ UNCHANGED <<yaml, ever, backups>>
          /\ saver'[c] = [ saver[c] EXCEPT !.at = IF saver[c].at = "backup" THEN "write" ELSE "replace" ]
          /\ (saver[c].at = "backup" /\ ~ saver[c].existed) \/ saver[c].at = "write"
      BY <1>0, <2>4 DEF NothingToBackUp, TmpWritten, SaverGoes, SaveTyped
    <3>2. /\ saver'[c].at \in {"write", "replace"} /\ saver'[c].stamp = saver[c].stamp
          /\ saver'[c].raw = saver[c].raw
      BY <1>2, <3>1 DEF SaverRec
    <3>3. BackedUp(c)'
      BY <1>1, <2>1, <3>1, <3>2 DEF AloneAndBackedUp, BackedUp, NotOlder
    <3>5. AloneAndBackedUp'
      BY <2>1, <3>3 DEF AloneAndBackedUp
    <3> QED
      BY <1>1, <3>1, <3>5 DEF NothingLost, NotOlder
  <2>5. CASE Replaces(c) \/ SaveEndsEarly(c)
    <3>1. saver'[c].at = "away" /\ UNCHANGED backups
      BY <1>0, <2>5 DEF Replaces, SaveEndsEarly, SaveTyped, Away
    <3>2. AloneAndBackedUp'
      BY <2>1, <3>1 DEF AloneAndBackedUp
    <3>3. CASE UNCHANGED <<yaml, ever>>
      BY <1>1, <3>1, <3>2, <3>3 DEF NothingLost, NotOlder
    <3>4. CASE Replaces(c)
      <4>1. yaml' = saver[c].raw /\ ever' = ever \cup { saver[c].raw } /\ yaml' # Missing
        BY <1>0, <2>1, <3>4, SaveAssumption DEF Replaces, Configs
      <4>2. yaml # Missing =>
              /\ backups[saver[c].stamp] = yaml
              /\ \A d \in Calibrated : yaml[d] <= saver[c].raw[d]
        BY <1>1, <2>1, <3>4 DEF Replaces, AloneAndBackedUp, BackedUp, NotOlder
      <4>3. \A old \in ever : \E t \in 0 .. MaxSecond : backups[t] = old
        BY <1>1, <2>1, <4>2 DEF NothingLost
      <4>4. ASSUME NEW old \in ever', NEW d \in Calibrated
            PROVE  old[d] <= yaml'[d]
        <5>1. saver[c].raw[d] \in Nat
          BY <2>1 DEF Configs
        <5>2. CASE old = saver[c].raw
          BY <4>1, <5>1, <5>2
        <5>3. CASE old \in ever
          <6>1. yaml \in Configs /\ old \in Configs
            BY <1>0, <1>1, <5>3 DEF SaveTyped, NothingLost
          <6>2. yaml # Missing
            BY <6>1, SaveAssumption DEF Configs
          <6>3. old[d] <= yaml[d] /\ yaml[d] <= saver[c].raw[d]
            BY <1>1, <4>2, <5>3, <6>2 DEF NothingLost, NotOlder
          <6> QED
            BY <4>1, <5>1, <6>1, <6>3 DEF Configs
        <5> QED
          BY <4>1, <5>2, <5>3
      <4> QED
        BY <3>1, <3>2, <4>1, <4>3, <4>4 DEF NothingLost, NotOlder
    <3> QED
      BY <2>5, <3>3, <3>4 DEF SaveEndsEarly
  <2> QED
    BY <1>5, <2>2, <2>3, <2>4, <2>5
<1> QED
  BY <1>3, <1>4, <1>5 DEF SaveNext

(* The file is never a part of one; and while saves do not overlap and no  *)
(* two fall into one second, every configuration is there or backed up and *)
(* no entry is lost, wherever a calibration is killed.                     *)
THEOREM SaveNeverBricks == SaveSpec => []SavedConfigSurvives
<1>1. SaveInv => SavedConfigSurvives
  <2> SUFFICES ASSUME SaveInv PROVE SavedConfigSurvives
    OBVIOUS
  <2>1. yaml # Torn /\ DOMAIN backups = 0 .. MaxSecond
    BY SaveAssumption DEF SaveInv, SaveTyped, Configs
  <2> QED
    BY <2>1 DEF SaveInv, SavedConfigSurvives, NothingLost, NotOlder
<1> QED
  BY <1>1, InitSaveInv, StepSaveInv, PTL DEF SaveSpec

-----------------------------------------------------------------------------
LEMMA LeastNatural ==
  ASSUME NEW T \in SUBSET Nat, T # {}
  PROVE  \E n \in T : \A m \in T : n <= m
<1>1. PICK n \in T : \A m \in T : ~ (<<m, n>> \in OpToRel(<, Nat))
  BY NatLessThanWellFounded, WFMin
<1>2. \A m \in T : ~ (m < n)
  BY <1>1 DEF OpToRel
<1> QED
  BY <1>2

(***************************************************************************)
(* From probing to streaming.                                              *)
(***************************************************************************)

ModeSpec == ModeInit /\ [][ModeNext]_modeVars

(* What a result of a probe says of the device that answered.              *)
Answer(r) ==
  /\ r.cand \in Modes
  /\ device.backend # "unreliable" => r.said = r.streams
  /\ r.said.fmt \in { r.streams.fmt, Garbage }
  /\ device.backend = "pygrabber" /\ r.cand.area \in AllAreas => r.streams.area = r.cand.area

ModeTyped ==
  /\ device.backend \in {"reliable", "unreliable", "pygrabber"}
  /\ device.offers \in Capabilities
  /\ todo \subseteq Modes
  /\ stage \in [ pc : {"probe", "failed", "locked", "connected", "running", "refused"},
                 by : {"calibrate", "hand"}, luma : { stage.luma }, mismatches : {0, 1} ]

(* One result at most is in the entry; calibrate's, where readback can be  *)
(* trusted, has the geometry that was asked for.                           *)
LockedSoundly ==
  /\ locked \subseteq results /\ \A q, r \in locked : q = r
  /\ device.backend # "unreliable" /\ stage.by = "calibrate" =>
       \A r \in locked : r.said.area = r.cand.area

(* The run reads the plane it has derived from that result.                *)
RunsOnIt ==
  /\ stage.pc \in {"connected", "running", "refused"} =>
       \A r \in locked : /\ stage.luma = NegotiatedPlane(r)
                         /\ r.said.fmt # r.cand.fmt => stage.mismatches = 1
  /\ stage.pc = "running" => \A r \in locked : ShapeAccepted(r)
  /\ device.backend # "unreliable" /\ stage.by = "calibrate" => stage.pc # "refused"

ModeInv == ModeTyped /\ (\A r \in results : Answer(r)) /\ LockedSoundly /\ RunsOnIt

(* While the device offers the geometry asked for, choose_format stays in  *)
(* the tiers of that geometry.                                             *)
LEMMA ChoosesTheGeometry ==
  ASSUME ModeTyped, NEW c, c.area \in AllAreas, NEW i \in ChooseFormat(c)
  PROVE  device.offers[i].area = c.area
<1> DEFINE matched == { n \in DOMAIN Tiers(c) : Tiers(c)[n] # {} }
           tier    == Tiers(c)[FirstOf(matched)]
           at_rate == { j \in tier : c.fps \in device.offers[j].rates }
           from    == IF at_rate # {} THEN at_rate ELSE tier
<1>1. DOMAIN Tiers(c) = 1 .. 4
  BY DEF Tiers
<1>2. PICK k \in DOMAIN device.offers : device.offers[k].area = c.area
  BY DEF AllAreas
<1>3. k \in Tiers(c)[3]
  BY <1>2 DEF Tiers, OffersIn, AllFormats
<1>4. 3 \in matched /\ matched \in SUBSET Nat
  BY <1>1, <1>3
<1>5. FirstOf(matched) \in matched /\ FirstOf(matched) <= 3
  <2> HIDE DEF matched
  <2>1. \E n \in matched : \A m \in matched : n <= m
    BY <1>4, LeastNatural
  <2> QED
    BY <1>4, <2>1 DEF FirstOf
<1>6. tier # {}
  BY <1>5
<1>7. \A j \in tier : j \in DOMAIN device.offers /\ device.offers[j].area = c.area
  <2> DEFINE first == FirstOf(matched)
  <2>1. first = 1 \/ first = 2 \/ first = 3
    BY <1>1, <1>5
  <2>2. /\ Tiers(c)[1] = OffersIn(Y8Formats, {c.area})
        /\ Tiers(c)[2] = OffersIn(MonoFormats, {c.area})
        /\ Tiers(c)[3] = OffersIn(AllFormats, {c.area})
    BY DEF Tiers
  <2>3. ASSUME NEW fmts
        PROVE  \A j \in OffersIn(fmts, {c.area}) :
                 j \in DOMAIN device.offers /\ device.offers[j].area = c.area
    BY DEF OffersIn
  <2>4. \E fmts : tier = OffersIn(fmts, {c.area})
    <3> HIDE DEF first
    <3>1. tier = Tiers(c)[first]
      BY DEF first
    <3> QED
      BY <2>1, <2>2, <3>1
  <2> QED
    BY <2>3, <2>4
<1>8. from # {} /\ from \subseteq tier
  BY <1>6
<1>9. from \in SUBSET Nat
  <2>1. DOMAIN device.offers \subseteq Nat
    BY ModeAssumption DEF ModeTyped
  <2> HIDE DEF tier, from
  <2> QED
    BY <1>7, <1>8, <2>1
<1>10. matched # {}
  BY <1>4
<1>11. i = FirstOf(from)
  BY <1>10 DEF ChooseFormat
<1>12. FirstOf(from) \in from
  <2> HIDE DEF from
  <2>1. \E n \in from : \A m \in from : n <= m
    BY <1>8, <1>9, LeastNatural
  <2> QED
    BY <2>1 DEF FirstOf
<1> HIDE DEF from, tier
<1> QED
  BY <1>7, <1>8, <1>11, <1>12

LEMMA InitModeInv == ModeInit => ModeInv
BY DEF ModeInit, ModeInv, ModeTyped, LockedSoundly, RunsOnIt

LEMMA StepModeInv == ModeInv /\ [ModeNext]_modeVars => ModeInv'
<1> SUFFICES ASSUME ModeInv, [ModeNext]_modeVars PROVE ModeInv'
  OBVIOUS
<1>0. ModeTyped /\ LockedSoundly /\ RunsOnIt /\ \A r \in results : Answer(r)
  BY DEF ModeInv
<1>1. CASE UNCHANGED modeVars
  BY <1>1 DEF modeVars, ModeInv, ModeTyped, Answer, LockedSoundly, RunsOnIt, AllAreas,
     NegotiatedPlane, LumaPlane, ShapeAccepted, TwoChannel
<1>2. CASE Probe
  <2>1. UNCHANGED <<device, locked, stage>> /\ todo' \subseteq todo /\ results \subseteq results'
    BY <1>2 DEF Probe
  <2>2. ASSUME NEW r \in results' \ results
        PROVE  Answer(r)
    <3> PICK c \in todo : \E s \in Streams(c), f \in Achieved : \E said \in Said(c, s) :
          r = [ cand |-> c, streams |-> s, said |-> said, fps |-> f ]
      BY <1>2, <2>2 DEF Probe
    <3> PICK s \in Streams(c), f \in Achieved : \E said \in Said(c, s) :
          r = [ cand |-> c, streams |-> s, said |-> said, fps |-> f ]
      OBVIOUS
    <3> PICK said \in Said(c, s) : r = [ cand |-> c, streams |-> s, said |-> said, fps |-> f ]
      OBVIOUS
    <3>1. r.cand = c /\ r.streams = s /\ r.said = said /\ c \in Modes
      BY <1>0 DEF ModeTyped
    <3>2. said.fmt \in { s.fmt, Garbage } /\ (device.backend # "unreliable" => said = s)
      BY DEF Said
    <3>3. ASSUME device.backend = "pygrabber", c.area \in AllAreas
          PROVE  s.area = c.area
      <4> PICK i \in ChooseFormat(c) :
            s = [ fmt |-> device.offers[i].fmt, area |-> device.offers[i].area ]
        BY <3>3 DEF Streams
      <4> QED
        BY <1>0, <3>3, ChoosesTheGeometry
    <3> QED
      BY <3>1, <3>2, <3>3 DEF Answer
  <2>3. \A r \in results' : Answer(r)'
    BY <1>0, <2>1, <2>2 DEF Answer, AllAreas
  <2>4. ModeTyped' /\ LockedSoundly' /\ RunsOnIt'
    BY <1>0, <2>1 DEF ModeTyped, LockedSoundly, RunsOnIt, NegotiatedPlane, LumaPlane,
       ShapeAccepted, TwoChannel
  <2> QED
    BY <2>3, <2>4 DEF ModeInv
<1>3. ASSUME UNCHANGED <<device, todo, results>>
      PROVE  \A r \in results' : Answer(r)'
  BY <1>0, <1>3 DEF Answer, AllAreas
<1>4. CASE Calibrate
  <2>1. UNCHANGED <<device, todo, results>> /\ stage.pc = "probe"
    BY <1>4 DEF Calibrate
  <2>2. CASE UNCHANGED locked /\ stage' = [ stage EXCEPT !.pc = "failed" ]
    <3>1. ModeTyped' /\ stage'.pc = "failed" /\ stage'.by = stage.by
      BY <1>0, <2>1, <2>2 DEF ModeTyped
    <3> QED
      BY <1>0, <1>3, <2>1, <2>2, <3>1 DEF ModeInv, LockedSoundly, RunsOnIt
  <2>3. CASE \E r \in Chosen, rate, effect \in BOOLEAN, control \in Control :
          /\ ~ GeometryFellBack(r)
          /\ locked' = { q \in {r} : Locks(q, rate, control, effect) }
          /\ stage' = [ stage EXCEPT !.pc = IF locked' = {} THEN "failed" ELSE "locked" ]
    <3> PICK r \in Chosen, rate \in BOOLEAN, effect \in BOOLEAN, control \in Control :
          /\ ~ GeometryFellBack(r)
          /\ locked' = { q \in {r} : Locks(q, rate, control, effect) }
          /\ stage' = [ stage EXCEPT !.pc = IF locked' = {} THEN "failed" ELSE "locked" ]
      BY <2>3
    <3>1. ModeTyped' /\ stage'.pc \in {"failed", "locked"} /\ stage'.by = stage.by
      BY <1>0, <2>1 DEF ModeTyped
    <3>2. r \in results
      BY DEF Chosen, Pool, Near, Finalists, Viable
    <3>3. ASSUME device.backend # "unreliable", r \in locked'
          PROVE  r.said.area = r.cand.area
      BY <1>0, <3>3 DEF ModeTyped, Locks, ModeVerified, GeometryFellBack
    <3>4. LockedSoundly'
      BY <2>1, <3>2, <3>3 DEF LockedSoundly
    <3>5. RunsOnIt'
      BY <3>1 DEF RunsOnIt
    <3> QED
      BY <1>3, <2>1, <3>1, <3>4, <3>5 DEF ModeInv
  <2> QED
    BY <1>4, <2>2, <2>3 DEF Calibrate
<1>5. CASE WriteByHand
  <2>1. UNCHANGED <<device, todo, results>>
    BY <1>5 DEF WriteByHand
  <2>2. ModeTyped' /\ stage'.pc = "locked" /\ stage'.by = "hand"
    BY <1>0, <1>5 DEF WriteByHand, ModeTyped
  <2>3. LockedSoundly' /\ RunsOnIt'
    BY <1>5, <2>2 DEF WriteByHand, LockedSoundly, RunsOnIt
  <2> QED
    BY <1>3, <2>1, <2>2, <2>3 DEF ModeInv
<1>6. CASE RunConnects
  <2>1. UNCHANGED <<device, todo, results, locked>>
    BY <1>6 DEF RunConnects
  <2> PICK r \in locked :
       stage' = [ stage EXCEPT !.pc = "connected", !.luma = NegotiatedPlane(r),
                  !.mismatches = IF r.said.fmt # r.cand.fmt THEN 1 ELSE 0 ]
    BY <1>6 DEF RunConnects
  <2>2. /\ ModeTyped' /\ stage'.pc = "connected" /\ stage'.by = stage.by
        /\ stage'.luma = NegotiatedPlane(r)
        /\ r.said.fmt # r.cand.fmt => stage'.mismatches = 1
    BY <1>0, <2>1 DEF ModeTyped
  <2>3. LockedSoundly' /\ RunsOnIt'
    BY <1>0, <2>1, <2>2 DEF LockedSoundly, RunsOnIt, NegotiatedPlane, LumaPlane
  <2> QED
    BY <1>3, <2>1, <2>2, <2>3 DEF ModeInv
<1>7. CASE FirstFrame
  <2>1. UNCHANGED <<device, todo, results, locked>> /\ stage.pc = "connected"
    BY <1>7 DEF FirstFrame
  <2> PICK r \in locked :
       stage' = [ stage EXCEPT !.pc = IF ShapeAccepted(r) THEN "running" ELSE "refused" ]
    BY <1>7 DEF FirstFrame
  <2>2. /\ ModeTyped' /\ stage'.by = stage.by
        /\ stage'.luma = stage.luma /\ stage'.mismatches = stage.mismatches
        /\ stage'.pc = IF ShapeAccepted(r) THEN "running" ELSE "refused"
    BY <1>0, <2>1 DEF ModeTyped
  <2>3. stage.luma = NegotiatedPlane(r) /\ Answer(r) /\ \A q \in locked : q = r
    BY <1>0, <2>1 DEF RunsOnIt, LockedSoundly
  <2>4. ASSUME device.backend # "unreliable", stage.by = "calibrate"
        PROVE  ShapeAccepted(r)
    <3>1. r.said = r.streams /\ r.said.area = r.cand.area
      BY <1>0, <2>3, <2>4 DEF Answer, LockedSoundly
    <3>2. TwoChannel(r) => NegotiatedPlane(r) # Garbage
      BY <3>1, ModeAssumption DEF TwoChannel, NegotiatedPlane, LumaPlane
    <3> QED
      BY <2>3, <3>1, <3>2 DEF ShapeAccepted
  <2>5. LockedSoundly' /\ RunsOnIt'
    BY <1>0, <2>1, <2>2, <2>3, <2>4 DEF LockedSoundly, RunsOnIt, NegotiatedPlane, LumaPlane,
       ShapeAccepted, TwoChannel
  <2> QED
    BY <1>3, <2>1, <2>2, <2>5 DEF ModeInv
<1> QED
  BY <1>1, <1>2, <1>4, <1>5, <1>6, <1>7 DEF ModeNext

(* Whatever a device offers and delivers and whichever modes are tried: a  *)
(* locked mode is not refused where readback can be trusted, and what runs *)
(* has its geometry and is read on the right plane, or says it may not be. *)
THEOREM LockedModesStream == ModeSpec => []LockedModeStreams
<1>1. ModeInv => LockedModeStreams
  <2> SUFFICES ASSUME ModeInv PROVE LockedModeStreams
    OBVIOUS
  <2>1. ASSUME stage.pc = "running", NEW r \in locked
        PROVE  /\ r.streams.area = r.cand.area
               /\ TwoChannel(r) => \/ stage.luma = r.streams.fmt
                                   \/ r.said.fmt = Garbage /\ stage.mismatches > 0
    <3>1. ShapeAccepted(r) /\ stage.luma = NegotiatedPlane(r) /\ Answer(r)
          /\ (r.said.fmt # r.cand.fmt => stage.mismatches = 1)
      BY <2>1 DEF ModeInv, RunsOnIt, LockedSoundly
    <3>2. r.cand.fmt # Garbage
      BY <3>1, ModeAssumption DEF Answer
    <3>3. CASE r.said.fmt = Garbage
      BY <3>1, <3>2, <3>3 DEF ShapeAccepted
    <3>4. CASE r.said.fmt = r.streams.fmt
      BY <3>1, <3>4, ModeAssumption DEF ShapeAccepted, TwoChannel, NegotiatedPlane, LumaPlane
    <3> QED
      BY <3>1, <3>3, <3>4 DEF Answer
  <2> QED
    BY <2>1 DEF ModeInv, RunsOnIt, Answer, LockedModeStreams
<1> QED
  BY <1>1, InitModeInv, StepModeInv, PTL DEF ModeSpec

-----------------------------------------------------------------------------
(***************************************************************************)
(* How a station comes up and goes away.                                   *)
(***************************************************************************)

StationSpec == StationInit /\ [][StationNext]_stationVars

SourceRec == [ id : STRING, epoch : Int ]

StationTyped ==
  /\ station \in [ at : {"none", "open", "opened", "undo", "built"}, given : BOOLEAN,
                   lineup : Seq(STRING), epoch : Int, opened : Seq(SourceRec),
                   runners : { station.runners }, todo : Nat ]
  /\ held \in [ Captures -> BOOLEAN ]
  /\ monotonic \in Int

(* The sources opened from a configuration tell the time of its anchor.    *)
OneAnchor ==
  ~ station.given =>
    \A k \in DOMAIN station.opened : station.opened[k].epoch = station.epoch

AllOwned == \A k \in Captures : held[k] => Owned(k)

StationInv == StationTyped /\ OneAnchor /\ AllOwned

LEMMA NoStationType ==
  /\ NoStation.at = "none" /\ NoStation.opened = <<>> /\ NoStation.lineup = <<>>
  /\ NoStation.epoch = 0 /\ NoStation.todo = 0 /\ NoStation.given = FALSE
  /\ <<>> \in Seq(SourceRec) /\ <<>> \in Seq(STRING)
BY DEF NoStation

(* A station of sources that a caller has given.                           *)
GivenStation(l, given) ==
  [ at |-> "opened", given |-> TRUE, lineup |-> l, epoch |-> 0, opened |-> given,
    runners |-> <<>>, todo |-> 0 ]

LEMMA GivenStationType ==
  ASSUME NEW l \in Seq(STRING), NEW given \in Seq(SourceRec), NEW s, s = GivenStation(l, given)
  PROVE  /\ s \in [ at : {"none", "open", "opened", "undo", "built"}, given : BOOLEAN,
                     lineup : Seq(STRING), epoch : Int, opened : Seq(SourceRec),
                     runners : { s.runners }, todo : Nat ]
         /\ s.opened = given /\ s.given /\ s.at = "opened"
BY DEF GivenStation

LEMMA InitStationInv == StationInit => StationInv
<1> SUFFICES ASSUME StationInit PROVE StationInv
  OBVIOUS
<1>1. StationTyped
  BY NoStationType DEF StationInit, StationTyped, NoStation
<1>2. OneAnchor /\ AllOwned
  BY NoStationType DEF StationInit, OneAnchor, AllOwned
<1> QED
  BY <1>1, <1>2 DEF StationInv

(* With distinct ids every source has a runner.                            *)
LEMMA EachHasARunner ==
  ASSUME NEW ids, DOMAIN ids \subseteq Int, Distinct(ids), NEW k \in DOMAIN ids
  PROVE  k \in Range(RunnersOf(ids))
<1> DEFINE run == CHOOSE j \in DOMAIN ids :
             ids[j] = ids[k] /\ \A i \in DOMAIN ids : ids[i] = ids[k] => i <= j
<1>1. \A j \in DOMAIN ids : ids[j] = ids[k] => j = k
  BY DEF Distinct, IsInjective
<1>2. \E j \in DOMAIN ids : ids[j] = ids[k] /\ \A i \in DOMAIN ids : ids[i] = ids[k] => i <= j
  <2>1. k \in Int /\ k <= k
    OBVIOUS
  <2>2. \A i \in DOMAIN ids : ids[i] = ids[k] => i <= k
    BY <1>1, <2>1
  <2> QED
    BY <2>2
<1>3. run = k
  BY <1>1, <1>2
<1>4. ids[k] \in Range(ids) /\ DOMAIN RunnersOf(ids) = Range(ids) /\ RunnersOf(ids)[ids[k]] = run
  BY DEF Range, RunnersOf
<1> QED
  BY <1>3, <1>4 DEF Range

(* A close leaves only its own device, and that one only with a reason.    *)
LEMMA LetsGo ==
  ASSUME StationTyped, NEW i, NEW freed \in BOOLEAN, Lets(i, freed)
  PROVE  /\ held' \in [ Captures -> BOOLEAN ]
         /\ stuck \subseteq stuck'
         /\ \A k \in Captures : held'[k] => (k = i /\ k \in stuck') \/ (k # i /\ held[k])
BY DEF StationTyped, Lets

LEMMA StepStationInv == StationInv /\ [StationNext]_stationVars => StationInv'
<1> SUFFICES ASSUME StationInv, [StationNext]_stationVars PROVE StationInv'
  OBVIOUS
<1>0. StationTyped /\ OneAnchor /\ AllOwned
  BY DEF StationInv
<1>1. CASE UNCHANGED stationVars
  BY <1>1 DEF stationVars, StationInv, StationTyped, OneAnchor, AllOwned, Owned
<1> DEFINE O == station.opened
<1>2. O \in Seq(SourceRec) /\ DOMAIN O = 1 .. Len(O) /\ Len(O) \in Nat
  BY <1>0 DEF StationTyped
<1>3. CASE FromConfig
  <2> PICK l \in Lineups :
        station' = [ NoStation EXCEPT !.at = "open", !.lineup = l, !.epoch = monotonic ]
    BY <1>3 DEF FromConfig
  <2>1. station.at = "none" /\ UNCHANGED <<held, stuck, monotonic>>
    BY <1>3 DEF FromConfig
  <2>2. l \in Seq(STRING)
    BY StartAssumption
  <2>3. StationTyped' /\ station'.opened = <<>>
    BY <1>0, <2>1, <2>2, NoStationType DEF StationTyped, NoStation
  <2>4. OneAnchor'
    BY <2>3 DEF OneAnchor
  <2>5. AllOwned'
    BY <1>0, <2>1 DEF AllOwned, Owned
  <2> QED
    BY <2>3, <2>4, <2>5 DEF StationInv
<1>4. CASE FromSources
  <2>0. PICK l \in Lineups :
        /\ station' = [ NoStation EXCEPT !.at = "opened", !.given = TRUE, !.lineup = l,
             !.opened = [ k \in DOMAIN l |-> Source(l[k], monotonic + k) ] ]
        /\ held' = [ k \in Captures |-> held[k] \/ k \in DOMAIN l ]
    BY <1>4 DEF FromSources
  <2> DEFINE given == [ k \in DOMAIN l |-> Source(l[k], monotonic + k) ]
  <2>1. station.at = "none" /\ UNCHANGED <<stuck, monotonic>>
    BY <1>4 DEF FromSources
  <2>2. l \in Seq(STRING) /\ Len(l) \in Nat /\ DOMAIN l = 1 .. Len(l) /\ \A k \in DOMAIN l : l[k] \in STRING
    BY StartAssumption
  <2>3. given \in Seq(SourceRec)
    <3>1. \A k \in 1 .. Len(l) : Source(l[k], monotonic + k) \in SourceRec
      <4> TAKE k \in 1 .. Len(l)
      <4>1. monotonic + k \in Int
        BY <1>0, <2>2 DEF StationTyped
      <4> QED
        BY <2>2, <4>1 DEF Source, SourceRec
    <3>2. given \in [ 1 .. Len(l) -> SourceRec ]
      BY <2>2, <3>1
    <3> QED
      BY <2>2, <3>2
  <2>4. DOMAIN given = DOMAIN l
    OBVIOUS
  <2>5. station' = GivenStation(l, given)
    BY <2>0 DEF NoStation, GivenStation
  <2> HIDE DEF given
  <2>6. station'.opened = given /\ station'.given /\ station'.at = "opened"
    BY <2>2, <2>3, <2>5, GivenStationType
  <2>7. StationTyped'
    <3>1. held' \in [ Captures -> BOOLEAN ]
      BY <2>0
    <3> QED
      BY <1>0, <2>1, <2>2, <2>3, <2>5, <3>1, GivenStationType DEF StationTyped
  <2>8. OneAnchor'
    BY <2>6 DEF OneAnchor
  <2>9. AllOwned'
    BY <1>0, <2>0, <2>1, <2>4, <2>6 DEF AllOwned, Owned
  <2> QED
    BY <2>7, <2>8, <2>9 DEF StationInv
<1>5. CASE OpenCamera
  <2> DEFINE new == Source(station.lineup[Upcoming], station.epoch)
  <2>1. /\ station.at = "open" /\ Upcoming \in DOMAIN station.lineup
        /\ held' = [ held EXCEPT ![Upcoming] = TRUE ]
        /\ station' = [ station EXCEPT !.opened = Append(@, new),
             !.at = IF Upcoming = Len(station.lineup) THEN "opened" ELSE "open" ]
        /\ monotonic' = monotonic + 1 /\ UNCHANGED stuck
    BY <1>5 DEF OpenCamera
  <2>2. new \in SourceRec /\ new.epoch = station.epoch
    BY <1>0, <2>1 DEF StationTyped, Source, SourceRec
  <2> HIDE DEF new
  <2>3. /\ Append(O, new) \in Seq(SourceRec)
        /\ DOMAIN Append(O, new) = DOMAIN O \cup {Upcoming}
        /\ \A k \in DOMAIN O : Append(O, new)[k] = O[k]
        /\ Append(O, new)[Upcoming] = new
    BY <1>2, <2>2 DEF Upcoming
  <2>4. /\ station'.opened = Append(O, new) /\ station'.at \in {"open", "opened"}
        /\ station'.given = station.given /\ station'.epoch = station.epoch
    BY <1>0, <2>1 DEF StationTyped
  <2>5. StationTyped'
    <3>0. monotonic' \in Int
      BY <1>0, <2>1 DEF StationTyped
    <3>1. held' \in [ Captures -> BOOLEAN ]
      BY <1>0, <2>1 DEF StationTyped
    <3> DEFINE longer == Append(O, new)
               at     == IF Upcoming = Len(station.lineup) THEN "opened" ELSE "open"
    <3>2. longer \in Seq(SourceRec) /\ at \in {"open", "opened"}
      BY <2>3
    <3>3. station' = [ station EXCEPT !.opened = longer, !.at = at ]
      BY <2>1
    <3> HIDE DEF longer, at
    <3> QED
      BY <1>0, <3>0, <3>1, <3>2, <3>3 DEF StationTyped
  <2>6. OneAnchor'
    BY <1>0, <2>2, <2>3, <2>4 DEF OneAnchor
  <2>7. AllOwned'
    <3> SUFFICES ASSUME NEW k \in Captures, held'[k] PROVE Owned(k)'
      BY DEF AllOwned
    <3>1. held[k] \/ k = Upcoming
      BY <1>0, <2>1 DEF StationTyped
    <3>2. k \in stuck \/ k \in DOMAIN O \/ k = Upcoming
      BY <1>0, <2>1, <3>1 DEF AllOwned, Owned
    <3> QED
      BY <2>1, <2>3, <2>4, <3>2 DEF Owned
  <2> QED
    BY <2>5, <2>6, <2>7 DEF StationInv
<1>6. CASE CameraFails \/ AssemblyFails
  <2>1. /\ station.at \in {"open", "opened"} /\ UNCHANGED <<held, stuck, monotonic>>
        /\ station' = [ station EXCEPT !.at = "undo", !.todo = 1 ]
    BY <1>6 DEF CameraFails, AssemblyFails, Undo
  <2>2. /\ StationTyped' /\ station'.opened = O /\ station'.at = "undo" /\ station'.todo = 1
        /\ station'.given = station.given /\ station'.epoch = station.epoch
    BY <1>0, <2>1 DEF StationTyped
  <2>3. OneAnchor' /\ AllOwned'
    BY <1>0, <1>2, <2>1, <2>2 DEF OneAnchor, AllOwned, Owned
  <2> QED
    BY <2>2, <2>3 DEF StationInv
<1>7. CASE Assembled
  <2>1. /\ station.at = "opened" /\ Distinct(Ids) /\ UNCHANGED <<held, stuck, monotonic>>
        /\ station' = [ station EXCEPT !.at = "built", !.runners = RunnersOf(Ids) ]
    BY <1>7 DEF Assembled
  <2>2. /\ StationTyped' /\ station'.opened = O /\ station'.at = "built"
        /\ station'.runners = RunnersOf(Ids)
        /\ station'.given = station.given /\ station'.epoch = station.epoch
    BY <1>0, <2>1 DEF StationTyped
  <2>3. DOMAIN Ids = DOMAIN O /\ DOMAIN O \subseteq Int
    BY <1>2 DEF Ids
  <2>4. \A k \in DOMAIN O : k \in Range(RunnersOf(Ids))
    BY <2>1, <2>3, EachHasARunner
  <2>5. OneAnchor' /\ AllOwned'
    BY <1>0, <2>1, <2>2, <2>4 DEF OneAnchor, AllOwned, Owned
  <2> QED
    BY <2>2, <2>5 DEF StationInv
<1>8. CASE CloseOpened
  <2> PICK freed \in BOOLEAN : Lets(station.todo, freed)
    BY <1>8 DEF CloseOpened
  <2>1. /\ station.at = "undo" /\ UNCHANGED monotonic
        /\ station' = [ station EXCEPT !.todo = @ + 1 ]
    BY <1>8 DEF CloseOpened
  <2>2. /\ StationTyped' /\ station'.opened = O /\ station'.at = "undo"
        /\ station'.todo = station.todo + 1 /\ station.todo \in Nat
        /\ station'.given = station.given /\ station'.epoch = station.epoch
    BY <1>0, <2>1, LetsGo DEF StationTyped
  <2>3. AllOwned'
    <3> SUFFICES ASSUME NEW k \in Captures, held'[k] PROVE Owned(k)'
      BY DEF AllOwned
    <3>1. k \in stuck' \/ (k # station.todo /\ held[k])
      BY <1>0, LetsGo
    <3>2. k \in stuck' \/ (k # station.todo /\ k \in station.todo .. Len(O))
      BY <1>0, <2>1, <3>1, LetsGo DEF AllOwned, Owned
    <3>3. ASSUME NEW t \in Nat, k # t, k \in t .. Len(O)
          PROVE  k \in (t + 1) .. Len(O)
      BY <1>2, <3>3
    <3> QED
      BY <2>2, <3>2, <3>3 DEF Owned
  <2> QED
    BY <1>0, <2>2, <2>3 DEF StationInv, OneAnchor
<1>9. CASE Raised
  <2>1. station.at = "undo" /\ station.todo > Len(O) /\ station' = NoStation /\ UNCHANGED <<held, stuck, monotonic>>
    BY <1>9 DEF Raised
  <2>2. \A k \in Captures : held[k] => k \in stuck
    <3> TAKE k \in Captures
    <3>1. PICK t \in Nat : t = station.todo
      BY <1>0 DEF StationTyped
    <3> QED
      BY <1>0, <1>2, <2>1, <3>1 DEF AllOwned, Owned
  <2>3. StationTyped'
    BY <1>0, <2>1, NoStationType DEF StationTyped, NoStation
  <2>4. OneAnchor' /\ AllOwned'
    BY <2>1, <2>2, NoStationType DEF OneAnchor, AllOwned, Owned
  <2> QED
    BY <2>3, <2>4 DEF StationInv
<1>10. CASE RunnerEnds
  <2> PICK id \in DOMAIN station.runners, freed \in BOOLEAN :
        /\ Lets(station.runners[id], freed)
        /\ station' = [ station EXCEPT !.runners = Restrict(@, DOMAIN @ \ {id}) ]
    BY <1>10 DEF RunnerEnds
  <2>1. station.at = "built" /\ UNCHANGED monotonic
    BY <1>10 DEF RunnerEnds
  <2>2. /\ StationTyped' /\ station'.opened = O /\ station'.at = "built"
        /\ station'.runners = Restrict(station.runners, DOMAIN station.runners \ {id})
        /\ station'.given = station.given /\ station'.epoch = station.epoch
    BY <1>0, <2>1, LetsGo DEF StationTyped
  <2>3. AllOwned'
    <3> SUFFICES ASSUME NEW k \in Captures, held'[k] PROVE Owned(k)'
      BY DEF AllOwned
    <3>1. k \in stuck' \/ (k # station.runners[id] /\ held[k])
      BY <1>0, LetsGo
    <3>2. k \in stuck' \/ (k # station.runners[id] /\ k \in Range(station.runners))
      BY <1>0, <2>1, <3>1, LetsGo DEF AllOwned, Owned
    <3>3. k # station.runners[id] /\ k \in Range(station.runners) => k \in Range(station'.runners)
      BY <2>2 DEF Range, Restrict
    <3> QED
      BY <2>2, <3>2, <3>3 DEF Owned
  <2> QED
    BY <1>0, <2>2, <2>3 DEF StationInv, OneAnchor
<1>11. CASE RunReturns
  <2>1. /\ station.at = "built" /\ DOMAIN station.runners = {}
        /\ station' = NoStation /\ UNCHANGED <<held, stuck, monotonic>>
    BY <1>11 DEF RunReturns
  <2>2. StationTyped'
    BY <1>0, <2>1, NoStationType DEF StationTyped, NoStation
  <2>3. OneAnchor' /\ AllOwned'
    BY <1>0, <2>1, NoStationType DEF OneAnchor, AllOwned, Owned, Range
  <2> QED
    BY <2>2, <2>3 DEF StationInv
<1>12. CASE ProcessExits
  <2>1. station' = NoStation /\ held' = [ k \in Captures |-> FALSE ] /\ UNCHANGED monotonic
    BY <1>12 DEF ProcessExits
  <2>2. StationTyped'
    BY <1>0, <2>1, NoStationType DEF StationTyped, NoStation
  <2>3. OneAnchor' /\ AllOwned'
    BY <2>1, NoStationType DEF OneAnchor, AllOwned
  <2> QED
    BY <2>2, <2>3 DEF StationInv
<1> QED
  BY <1>1, <1>3, <1>4, <1>5, <1>6, <1>7, <1>8, <1>9, <1>10, <1>11, <1>12 DEF StationNext

(* Whatever cameras are named or given and wherever construction fails, no *)
(* open device is without somebody who will close it; and the cameras of a *)
(* configured station share one anchor.                                    *)
THEOREM CapturesHaveOwners == StationSpec => []EveryCaptureHasAnOwner
<1>1. StationInv => EveryCaptureHasAnOwner
  BY DEF StationInv, OneAnchor, AllOwned, EveryCaptureHasAnOwner
<1> QED
  BY <1>1, InitStationInv, StepStationInv, PTL DEF StationSpec

-----------------------------------------------------------------------------
(***************************************************************************)
(* Operator sessions.                                                      *)
(***************************************************************************)

SessionsSpec == SessionsInit /\ [][SessionsNext]_sessionVars

EventRec == [ id : Nat, stamp : Nat, read : SUBSET Payloads ]

SessionRec ==
  [ status : {"open", "closed"}, expected : Nat, started : Nat, closed : Nat, note : BOOLEAN,
    decoded : Nat, missed : Nat, matched : SUBSET Payloads, known : SUBSET EventRec ]

(* Decoded and Missed of any set of rows.                                  *)
Passes(all, from, to) == { e \in all : e.read # {} /\ InWindow(e, from, to) }
Losses(all, from, to) == { e \in all : e.read = {} /\ InWindow(e, from, to) }

(* Counts that hold all that was known and nothing that is not there.      *)
Counts(all, known, from, to, passed, lost) ==
  /\ known \subseteq all
  /\ passed \in Cardinality(Passes(known, from, to)) .. Cardinality(Passes(all, from, to))
  /\ lost \in Cardinality(Losses(known, from, to)) .. Cardinality(Losses(all, from, to))

Scanned(payloads, all, from, to) ==
  \A p \in payloads : \E e \in Passes(all, from, to) : p \in e.read

SessionsTyped ==
  /\ clock \in Nat
  /\ underway \in SUBSET EventRec /\ IsFiniteSet(underway)
  /\ rows \in SUBSET EventRec /\ IsFiniteSet(rows)
  /\ manifest \subseteq Payloads
  /\ sessions \in Seq(SessionRec)
  /\ desk = [ d \in Desks |-> desk[d] ]

(* A request has the window of its session, which is no longer than time   *)
(* was when it began, and what it has counted so far is right for it.      *)
RequestFits(r, all, now, windows) ==
  LET s == windows[r.id]
  IN  /\ r.id \in DOMAIN windows /\ r.to \in Nat /\ r.to <= now /\ r.known \subseteq all
      /\ r.pc # "write" => r.from = s.started /\ r.expected = s.expected
      /\ r.pc # "count" => Counts(all, r.known, s.started, r.to, r.decoded, r.missed)
      /\ r.pc = "match" => r.manifest \subseteq Payloads
      /\ r.pc = "write" =>
           /\ r.note \in BOOLEAN /\ (r.decoded + r.missed # s.expected => r.note)
           /\ r.matched \subseteq Payloads /\ Scanned(r.matched, all, s.started, r.to)

Deskwork(r, all, now, windows) ==
  r = AtRest \/ (r.pc \in {"count", "manifest", "match", "write"} /\ RequestFits(r, all, now, windows))

SummaryHolds(s, all, now) ==
  /\ s.closed <= now
  /\ Counts(all, s.known, s.started, s.closed, s.decoded, s.missed)
  /\ s.decoded + s.missed # s.expected => s.note
  /\ Scanned(s.matched, all, s.started, s.closed)

AllSummed == \A s \in DOMAIN sessions : Closed(s) => SummaryHolds(sessions[s], rows, clock)

(* At most the last session is open.                                       *)
InTurn ==
  \A s, t \in DOMAIN sessions : s < t => Closed(s) /\ sessions[s].closed <= sessions[t].started

SessionsInv ==
  SessionsTyped /\ (\A d \in Desks : Deskwork(desk[d], rows, clock, sessions)) /\ AllSummed /\ InTurn

LEMMA InitSessionsInv == SessionsInit => SessionsInv
<1> SUFFICES ASSUME SessionsInit PROVE SessionsInv
  OBVIOUS
<1>1. SessionsTyped
  BY FS_EmptySet DEF SessionsInit, SessionsTyped
<1>2. \A d \in Desks : Deskwork(desk[d], rows, clock, sessions)
  BY DEF SessionsInit, Deskwork
<1>3. AllSummed /\ InTurn
  BY DEF SessionsInit, AllSummed, InTurn
<1> QED
  BY <1>1, <1>2, <1>3 DEF SessionsInv

(* Counts stay right when more is stored.                                  *)
LEMMA CountsKeep ==
  ASSUME NEW all, NEW more, all \subseteq more, IsFiniteSet(more), NEW known, NEW from, NEW to,
         NEW passed, NEW lost, Counts(all, known, from, to, passed, lost)
  PROVE  Counts(more, known, from, to, passed, lost)
<1>1. /\ Passes(all, from, to) \subseteq Passes(more, from, to) /\ IsFiniteSet(Passes(more, from, to))
      /\ Losses(all, from, to) \subseteq Losses(more, from, to) /\ IsFiniteSet(Losses(more, from, to))
  <2>1. Passes(more, from, to) \subseteq more /\ Losses(more, from, to) \subseteq more
    BY DEF Passes, Losses
  <2>2. IsFiniteSet(Passes(more, from, to)) /\ IsFiniteSet(Losses(more, from, to))
    BY <2>1, FS_Subset
  <2> QED
    BY <2>2 DEF Passes, Losses
<1> DEFINE p == Cardinality(Passes(all, from, to))   P == Cardinality(Passes(more, from, to))
           l == Cardinality(Losses(all, from, to))   L == Cardinality(Losses(more, from, to))
<1>2. p \in Nat /\ P \in Nat /\ p <= P /\ l \in Nat /\ L \in Nat /\ l <= L
  <2>1. IsFiniteSet(Passes(all, from, to)) /\ IsFiniteSet(Losses(all, from, to))
    BY <1>1, FS_Subset
  <2> QED
    BY <1>1, <2>1, FS_Subset, FS_CardinalityType
<1>3. /\ known \subseteq all
      /\ passed \in Cardinality(Passes(known, from, to)) .. p
      /\ lost \in Cardinality(Losses(known, from, to)) .. l
  BY DEF Counts
<1> HIDE DEF p, l, P, L
<1>4. /\ passed \in Cardinality(Passes(known, from, to)) .. P
      /\ lost \in Cardinality(Losses(known, from, to)) .. L
  BY <1>2, <1>3
<1> QED
  BY <1>3, <1>4 DEF Counts, P, L

LEMMA ScannedKeeps ==
  ASSUME NEW all, NEW more, all \subseteq more, NEW payloads, NEW from, NEW to,
         Scanned(payloads, all, from, to)
  PROVE  Scanned(payloads, more, from, to)
BY DEF Scanned, Passes

(* What is counted now is right.                                           *)
LEMMA CountsNow ==
  ASSUME SessionsTyped, NEW known, known \subseteq rows, NEW from, NEW to
  PROVE  /\ Counts(rows, known, from, to, Cardinality(Decoded(from, to)), Cardinality(Missed(from, to)))
         /\ Cardinality(Decoded(from, to)) \in Nat /\ Cardinality(Missed(from, to)) \in Nat
<1>1. Decoded(from, to) = Passes(rows, from, to) /\ Missed(from, to) = Losses(rows, from, to)
  BY DEF Decoded, Missed, Passes, Losses
<1>2. /\ Passes(rows, from, to) \subseteq rows /\ Losses(rows, from, to) \subseteq rows
      /\ Passes(known, from, to) \subseteq Passes(rows, from, to)
      /\ Losses(known, from, to) \subseteq Losses(rows, from, to)
  BY DEF Passes, Losses
<1> DEFINE k == Cardinality(Passes(known, from, to))  P == Cardinality(Passes(rows, from, to))
           l == Cardinality(Losses(known, from, to))  L == Cardinality(Losses(rows, from, to))
<1>3. IsFiniteSet(Passes(rows, from, to)) /\ IsFiniteSet(Losses(rows, from, to))
  BY <1>2, FS_Subset DEF SessionsTyped
<1>4. IsFiniteSet(Passes(known, from, to)) /\ IsFiniteSet(Losses(known, from, to))
  BY <1>2, <1>3, FS_Subset
<1>5. k \in Nat /\ P \in Nat /\ l \in Nat /\ L \in Nat /\ k <= P /\ l <= L
  BY <1>2, <1>3, <1>4, FS_Subset, FS_CardinalityType
<1> HIDE DEF k, l, P, L
<1>6. P \in k .. P /\ L \in l .. L
  BY <1>5
<1> QED
  BY <1>1, <1>5, <1>6 DEF Counts, k, l, P, L

(* A request and a summary stay right when time passes, when more is       *)
(* stored and when other sessions are opened and closed.                   *)
Later ==
  /\ rows \subseteq rows' /\ clock <= clock'
  /\ \A s \in DOMAIN sessions :
       /\ s \in DOMAIN sessions'
       /\ sessions'[s].started = sessions[s].started /\ sessions'[s].expected = sessions[s].expected

LEMMA DeskworkKeeps ==
  ASSUME SessionsTyped, SessionsTyped', Later, NEW r, Deskwork(r, rows, clock, sessions)
  PROVE  Deskwork(r, rows', clock', sessions')
<1>1. CASE r = AtRest
  BY <1>1 DEF Deskwork
<1>2. CASE r # AtRest
  <2>1. r.pc \in {"count", "manifest", "match", "write"} /\ RequestFits(r, rows, clock, sessions)
    BY <1>2 DEF Deskwork
  <2> DEFINE s == sessions[r.id]
  <2>2. /\ r.id \in DOMAIN sessions' /\ r.known \subseteq rows'
        /\ sessions'[r.id].started = s.started /\ sessions'[r.id].expected = s.expected
    BY <2>1 DEF RequestFits, Later
  <2>3. r.to \in Nat /\ r.to <= clock'
    <3>1. r.to \in Nat /\ r.to <= clock
      BY <2>1 DEF RequestFits
    <3>2. PICK t \in Nat : t = r.to
      BY <3>1
    <3> QED
      BY <3>1, <3>2 DEF Later, SessionsTyped
  <2>4. r.pc # "count" => Counts(rows', r.known, s.started, r.to, r.decoded, r.missed)
    <3> SUFFICES ASSUME r.pc # "count"
                 PROVE  Counts(rows', r.known, s.started, r.to, r.decoded, r.missed)
      OBVIOUS
    <3>1. Counts(rows, r.known, s.started, r.to, r.decoded, r.missed)
      BY <2>1 DEF RequestFits
    <3>2. rows \subseteq rows' /\ IsFiniteSet(rows')
      BY DEF Later, SessionsTyped
    <3> QED
      BY <3>1, <3>2, CountsKeep
  <2>5. r.pc = "write" => Scanned(r.matched, rows', s.started, r.to)
    BY <2>1, ScannedKeeps DEF RequestFits, Later
  <2>6. RequestFits(r, rows', clock', sessions')
    BY <2>1, <2>2, <2>3, <2>4, <2>5 DEF RequestFits
  <2> QED
    BY <2>1, <2>6 DEF Deskwork
<1> QED
  BY <1>1, <1>2

LEMMA SummaryKeeps ==
  ASSUME SessionsTyped, SessionsTyped', Later, NEW s \in SessionRec, SummaryHolds(s, rows, clock)
  PROVE  SummaryHolds(s, rows', clock')
<1>1. s.closed <= clock'
  <2>1. PICK c \in Nat : c = s.closed
    BY DEF SessionRec
  <2> QED
    BY <2>1 DEF SummaryHolds, Later, SessionsTyped
<1>2. Counts(rows', s.known, s.started, s.closed, s.decoded, s.missed)
  BY CountsKeep DEF SummaryHolds, Later, SessionsTyped
<1>3. Scanned(s.matched, rows', s.started, s.closed)
  BY ScannedKeeps DEF SummaryHolds, Later
<1> QED
  BY <1>1, <1>2, <1>3 DEF SummaryHolds

(* Nothing is closed: requests and summaries stay as they are.             *)
LEMMA OthersKeep ==
  ASSUME SessionsInv, SessionsTyped', Later,
         \A d \in Desks : desk'[d] = desk[d] \/ Deskwork(desk'[d], rows', clock', sessions'),
         \A s \in DOMAIN sessions' : Closed(s)' => s \in DOMAIN sessions /\ sessions'[s] = sessions[s],
         \A s, t \in DOMAIN sessions' : s < t =>
           /\ s \in DOMAIN sessions /\ sessions'[s] = sessions[s]
           /\ t \notin DOMAIN sessions => Closed(s) /\ sessions[s].closed <= sessions'[t].started
  PROVE  SessionsInv'
<1>0. SessionsTyped /\ AllSummed /\ InTurn /\ \A d \in Desks : Deskwork(desk[d], rows, clock, sessions)
  BY DEF SessionsInv
<1>1. \A d \in Desks : Deskwork(desk'[d], rows', clock', sessions')
  <2> TAKE d \in Desks
  <2>1. CASE desk'[d] = desk[d]
    BY <1>0, <2>1, DeskworkKeeps
  <2> QED
    BY <2>1
<1>2. AllSummed'
  <2> SUFFICES ASSUME NEW s \in DOMAIN sessions', Closed(s)' PROVE SummaryHolds(sessions'[s], rows', clock')
    BY DEF AllSummed
  <2>1. s \in DOMAIN sessions /\ sessions'[s] = sessions[s] /\ Closed(s)
    BY DEF Closed
  <2>2. sessions[s] \in SessionRec
    BY <1>0, <2>1 DEF SessionsTyped
  <2>3. SummaryHolds(sessions[s], rows, clock)
    BY <1>0, <2>1 DEF AllSummed
  <2>4. SummaryHolds(sessions[s], rows', clock')
    BY <1>0, <2>1, <2>2, <2>3, SummaryKeeps
  <2> QED
    BY <2>1, <2>4
<1>3. InTurn'
  <2> SUFFICES ASSUME NEW s \in DOMAIN sessions', NEW t \in DOMAIN sessions', s < t
               PROVE  Closed(s)' /\ sessions'[s].closed <= sessions'[t].started
    BY DEF InTurn
  <2>1. s \in DOMAIN sessions /\ sessions'[s] = sessions[s]
    OBVIOUS
  <2>2. Closed(s) /\ sessions[s].closed <= sessions'[t].started
    <3>1. CASE t \in DOMAIN sessions
      BY <1>0, <2>1, <3>1 DEF InTurn, Later
    <3>2. CASE t \notin DOMAIN sessions
      BY <3>2
    <3> QED
      BY <3>1, <3>2
  <2> QED
    BY <2>1, <2>2 DEF Closed
<1> QED
  BY <1>1, <1>2, <1>3 DEF SessionsInv

(* Steps that leave the sessions alone.                                    *)
LEMMA SessionsStand ==
  ASSUME SessionsInv, SessionsTyped', UNCHANGED sessions, rows \subseteq rows', clock <= clock',
         \A d \in Desks : desk'[d] = desk[d] \/ Deskwork(desk'[d], rows', clock', sessions')
  PROVE  SessionsInv'
<1>1. Later
  BY DEF Later
<1> QED
  BY <1>1, OthersKeep DEF Closed

LEMMA PipelineKeepsSessions ==
  ASSUME SessionsInv, Pipeline
  PROVE  SessionsInv'
<1>0. SessionsTyped
  BY DEF SessionsInv
<1>1. UNCHANGED <<sessions, desk, manifest>>
  BY DEF Pipeline, Tick, Happens, Stored
<1>2. CASE Tick
  <2>1. clock' = clock + 1 /\ UNCHANGED <<rows, underway>>
    BY <1>2 DEF Tick
  <2>2. clock' \in Nat /\ clock <= clock'
    BY <1>0, <2>1 DEF SessionsTyped
  <2>3. SessionsTyped'
    BY <1>0, <1>1, <2>1, <2>2 DEF SessionsTyped
  <2> QED
    BY <1>1, <2>1, <2>2, <2>3, SessionsStand
<1>3. ASSUME NEW read \in { {p} : p \in Payloads } \cup {{}}, Happens(read)
      PROVE  SessionsInv'
  <2> DEFINE id == Cardinality(underway \cup rows) + 1
             e  == [ id |-> id, stamp |-> clock, read |-> read ]
  <2>1. underway' = underway \cup {e} /\ UNCHANGED <<rows, clock>>
    BY <1>3 DEF Happens
  <2>2. id \in Nat
    <3>1. IsFiniteSet(underway \cup rows)
      BY <1>0, FS_Union DEF SessionsTyped
    <3>2. Cardinality(underway \cup rows) \in Nat
      BY <3>1, FS_CardinalityType
    <3> QED
      BY <3>2
  <2> HIDE DEF id
  <2>3. e \in EventRec
    BY <1>0, <2>2 DEF EventRec, SessionsTyped
  <2> HIDE DEF e
  <2>4. IsFiniteSet(underway')
    BY <1>0, <2>1, FS_AddElement DEF SessionsTyped
  <2>5. SessionsTyped' /\ clock <= clock'
    BY <1>0, <1>1, <2>1, <2>3, <2>4 DEF SessionsTyped
  <2> QED
    BY <1>1, <2>1, <2>5, SessionsStand
<1>4. ASSUME NEW e \in underway, Stored(e)
      PROVE  SessionsInv'
  <2>1. underway' = underway \ {e} /\ rows' = rows \cup {e} /\ UNCHANGED clock
    BY <1>4 DEF Stored
  <2>2. IsFiniteSet(rows') /\ IsFiniteSet(underway')
    BY <1>0, <2>1, FS_AddElement, FS_RemoveElement DEF SessionsTyped
  <2>3. SessionsTyped' /\ clock <= clock' /\ rows \subseteq rows'
    BY <1>0, <1>1, <2>1, <2>2 DEF SessionsTyped
  <2> QED
    BY <1>1, <2>3, SessionsStand
<1> QED
  BY <1>2, <1>3, <1>4 DEF Pipeline

(* One session at most is open.                                            *)
LEMMA OneOpen ==
  ASSUME SessionsInv, NEW s \in OpenIds
  PROVE  /\ s \in DOMAIN sessions /\ s \in Nat /\ OpenIds = {s}
         /\ \A t \in DOMAIN sessions : t <= s
<1>0. SessionsTyped /\ InTurn
  BY DEF SessionsInv
<1>1. s \in DOMAIN sessions /\ DOMAIN sessions \subseteq Nat
  BY <1>0 DEF OpenIds, SessionsTyped
<1>2. \A t \in DOMAIN sessions : ~ (s < t)
  BY <1>0, <1>1 DEF InTurn, OpenIds, Closed
<1>3. \A t \in OpenIds : t \in DOMAIN sessions /\ ~ (t < s)
  BY <1>0, <1>1 DEF InTurn, OpenIds, Closed
<1> QED
  BY <1>1, <1>2, <1>3

(* The requests but the last statement of a close.                         *)
LEMMA RequestKeepsSessions ==
  ASSUME SessionsInv, NEW d \in Desks,
         \/ CloseBegins(d) \/ CloseCounts(d) \/ ReadManifest(d)
         \/ \E note \in BOOLEAN : CloseMatches(d, note)
  PROVE  SessionsInv'
<1>0. SessionsTyped /\ Deskwork(desk[d], rows, clock, sessions)
  BY DEF SessionsInv
<1>1. /\ UNCHANGED <<clock, underway, rows, manifest, sessions>>
      /\ \A c \in Desks \ {d} : desk'[c] = desk[c]
      /\ desk' = [ c \in Desks |-> desk'[c] ]
  BY <1>0 DEF CloseBegins, CloseCounts, ReadManifest, CloseMatches, Unchanged, SessionsTyped
<1>2. SessionsTyped' /\ rows \subseteq rows' /\ clock <= clock'
  BY <1>0, <1>1 DEF SessionsTyped
<1> DEFINE r == desk[d]
<1>3. Deskwork(desk'[d], rows, clock, sessions)
  <2>1. CASE CloseBegins(d)
    <3> DEFINE id  == CHOOSE s \in OpenIds : \A t \in OpenIds : t <= s
               new == [ pc |-> "count", id |-> id, from |-> sessions[id].started, to |-> clock,
                        expected |-> sessions[id].expected, known |-> rows ]
    <3>1. OpenIds # {} /\ desk'[d] = new
      BY <1>0, <2>1 DEF CloseBegins, SessionsTyped
    <3>2. PICK s \in OpenIds : TRUE
      BY <3>1
    <3>3. id = s /\ s \in DOMAIN sessions
      <4>1. OpenIds = {s} /\ s \in Nat /\ s \in DOMAIN sessions
        BY <3>2, OneOpen
      <4> QED
        BY <4>1
    <3> HIDE DEF id
    <3>4. RequestFits(new, rows, clock, sessions)
      BY <1>0, <3>3 DEF RequestFits, SessionsTyped
    <3> QED
      BY <3>1, <3>4 DEF Deskwork
  <2>3. CASE CloseCounts(d)
    <3> DEFINE D == Cardinality(Decoded(r.from, r.to))
               M == Cardinality(Missed(r.from, r.to))
               new == [ pc |-> "manifest", id |-> r.id, from |-> r.from, to |-> r.to,
                        expected |-> r.expected, known |-> r.known, decoded |-> D, missed |-> M ]
    <3>1. r.pc = "count" /\ desk'[d] = new
      BY <1>0, <2>3 DEF CloseCounts, SessionsTyped
    <3>2. RequestFits(r, rows, clock, sessions)
      BY <1>0, <3>1 DEF Deskwork, AtRest
    <3>3. Counts(rows, r.known, r.from, r.to, D, M)
      BY <1>0, <3>2, CountsNow DEF RequestFits
    <3> HIDE DEF D, M
    <3>4. RequestFits(new, rows, clock, sessions)
      BY <3>1, <3>2, <3>3 DEF RequestFits
    <3> QED
      BY <3>1, <3>4 DEF Deskwork
  <2>4. CASE ReadManifest(d)
    <3> DEFINE new == [ pc |-> "match", id |-> r.id, from |-> r.from, to |-> r.to,
                        expected |-> r.expected, known |-> r.known,
                        decoded |-> r.decoded, missed |-> r.missed, manifest |-> manifest ]
    <3>1. r.pc = "manifest" /\ desk'[d] = new
      BY <1>0, <2>4 DEF ReadManifest, SessionsTyped
    <3>2. RequestFits(r, rows, clock, sessions)
      BY <1>0, <3>1 DEF Deskwork, AtRest
    <3>3. RequestFits(new, rows, clock, sessions)
      BY <1>0, <3>1, <3>2 DEF RequestFits, SessionsTyped
    <3> QED
      BY <3>1, <3>3 DEF Deskwork
  <2>5. ASSUME NEW note \in BOOLEAN, CloseMatches(d, note)
        PROVE  Deskwork(desk'[d], rows, clock, sessions)
    <3> DEFINE m == Matched(r.manifest, Decoded(r.from, r.to))
               new == [ pc |-> "write", id |-> r.id, to |-> r.to, note |-> note, known |-> r.known,
                        decoded |-> r.decoded, missed |-> r.missed, matched |-> m ]
    <3>1. r.pc = "match" /\ desk'[d] = IF MayClose(r, note) THEN new ELSE AtRest
      BY <1>0, <2>5 DEF CloseMatches, SessionsTyped
    <3>2. RequestFits(r, rows, clock, sessions)
      BY <1>0, <3>1 DEF Deskwork, AtRest
    <3>3. m \subseteq Payloads /\ Scanned(m, rows, r.from, r.to)
      BY <3>1, <3>2 DEF Matched, Scanned, Decoded, Passes, RequestFits
    <3> HIDE DEF m
    <3>4. MayClose(r, note) => (r.decoded + r.missed # r.expected => note)
      BY DEF MayClose
    <3>5. MayClose(r, note) => RequestFits(new, rows, clock, sessions)
      BY <3>1, <3>2, <3>3, <3>4 DEF RequestFits
    <3> QED
      BY <3>1, <3>5 DEF Deskwork
  <2> QED
    BY <2>1, <2>3, <2>4, <2>5
<1>4. Deskwork(desk'[d], rows', clock', sessions')
  BY <1>1, <1>3 DEF Deskwork, RequestFits
<1> QED
  BY <1>1, <1>2, <1>4, SessionsStand

(* open_session.                                                           *)
LEMMA StartKeepsSessions ==
  ASSUME SessionsInv, NEW expected \in Expected, Start(expected)
  PROVE  SessionsInv' /\ \A s \in DOMAIN sessions : sessions'[s] = sessions[s]
<1>0. SessionsTyped /\ AllSummed
  BY DEF SessionsInv
<1> DEFINE new == [ status |-> "open", expected |-> expected, started |-> clock, closed |-> None,
                    note |-> FALSE, decoded |-> None, missed |-> None, matched |-> {}, known |-> {} ]
           n   == Len(sessions)
<1>1. /\ OpenIds = {} /\ sessions' = Append(sessions, new)
      /\ UNCHANGED <<clock, underway, rows, manifest, desk>>
  BY DEF Start, MayStart
<1>2. new \in SessionRec /\ new.status = "open" /\ new.started = clock
  BY <1>0, SessionsAssumption DEF SessionRec, SessionsTyped, None
<1> HIDE DEF new
<1>3. /\ n \in Nat /\ DOMAIN sessions = 1 .. n /\ DOMAIN sessions' = 1 .. (n + 1)
      /\ sessions' \in Seq(SessionRec)
      /\ sessions'[n + 1] = new /\ \A s \in 1 .. n : sessions'[s] = sessions[s]
  BY <1>0, <1>1, <1>2 DEF SessionsTyped
<1> HIDE DEF n
<1>4. SessionsTyped'
  BY <1>0, <1>1, <1>3 DEF SessionsTyped
<1>5. Later
  BY <1>0, <1>1, <1>3 DEF Later, SessionsTyped
<1>6. \A s \in DOMAIN sessions : Closed(s) /\ sessions[s].closed <= clock
  <2> TAKE s \in DOMAIN sessions
  <2>1. sessions[s] \in SessionRec /\ sessions[s].status # "open"
    BY <1>0, <1>1 DEF OpenIds, SessionsTyped
  <2> QED
    BY <1>0, <2>1 DEF Closed, SessionRec, AllSummed, SummaryHolds
<1>7. \A s \in DOMAIN sessions' : Closed(s)' => s \in DOMAIN sessions /\ sessions'[s] = sessions[s]
  <2> SUFFICES ASSUME NEW s \in 1 .. (n + 1), Closed(s)'
               PROVE  s \in 1 .. n
    BY <1>3
  <2>1. s # n + 1
    BY <1>2, <1>3 DEF Closed
  <2> QED
    BY <1>3, <2>1
<1>8. ASSUME NEW s \in DOMAIN sessions', NEW t \in DOMAIN sessions', s < t
      PROVE  /\ s \in DOMAIN sessions /\ sessions'[s] = sessions[s]
             /\ t \notin DOMAIN sessions => Closed(s) /\ sessions[s].closed <= sessions'[t].started
  <2>1. s \in 1 .. n /\ (t \notin 1 .. n => t = n + 1)
    BY <1>3, <1>8
  <2> QED
    BY <1>2, <1>3, <1>6, <2>1
<1>9. SessionsInv'
  BY <1>1, <1>4, <1>5, <1>7, <1>8, OthersKeep
<1> QED
  BY <1>3, <1>9

(* close_session.                                                          *)
LEMMA CloseKeepsSessions ==
  ASSUME SessionsInv, NEW d \in Desks, CloseWrites(d)
  PROVE  SessionsInv' /\ \A s \in DOMAIN sessions : Closed(s) => sessions'[s] = sessions[s]
<1>0. SessionsTyped /\ AllSummed /\ InTurn /\ Deskwork(desk[d], rows, clock, sessions)
  BY DEF SessionsInv
<1> DEFINE r == desk[d]
<1>1. /\ r.pc = "write" /\ UNCHANGED <<clock, underway, rows, manifest>>
      /\ desk' = [ desk EXCEPT ![d] = AtRest ]
  BY DEF CloseWrites, Unchanged
<1>2. RequestFits(r, rows, clock, sessions)
  BY <1>0, <1>1 DEF Deskwork, AtRest
<1>3. /\ desk'[d] = AtRest /\ \A c \in Desks \ {d} : desk'[c] = desk[c]
      /\ desk' = [ c \in Desks |-> desk'[c] ]
  BY <1>0, <1>1 DEF SessionsTyped
<1>4. Deskwork(desk'[d], rows', clock', sessions')
  BY <1>3 DEF Deskwork
<1>5. CASE ~ StillOpen(r.id)
  <2>1. UNCHANGED sessions
    BY <1>5 DEF CloseWrites
  <2>2. SessionsTyped' /\ clock <= clock'
    BY <1>0, <1>1, <1>3, <2>1 DEF SessionsTyped
  <2> QED
    BY <1>1, <1>3, <1>4, <2>1, <2>2, SessionsStand
<1>6. CASE StillOpen(r.id)
  <2> DEFINE s   == sessions[r.id]
             new == [ s EXCEPT !.status = "closed", !.closed = r.to, !.note = r.note,
                               !.decoded = r.decoded, !.missed = r.missed,
                               !.matched = r.matched, !.known = r.known ]
  <2>1. sessions' = [ sessions EXCEPT ![r.id] = new ]
    BY <1>6 DEF CloseWrites
  <2>2. r.id \in DOMAIN sessions /\ s \in SessionRec /\ s.status = "open" /\ r.id \in OpenIds
    BY <1>0, <1>2, <1>6 DEF RequestFits, StillOpen, SessionsTyped, OpenIds
  <2>3. /\ r.to \in Nat /\ r.to <= clock /\ r.known \subseteq rows /\ r.note \in BOOLEAN
        /\ r.matched \subseteq Payloads
        /\ Counts(rows, r.known, s.started, r.to, r.decoded, r.missed)
        /\ (r.decoded + r.missed # s.expected => r.note)
        /\ Scanned(r.matched, rows, s.started, r.to)
    BY <1>1, <1>2 DEF RequestFits
  <2>4. r.decoded \in Nat /\ r.missed \in Nat
    <3>1. IsFiniteSet(Passes(r.known, s.started, r.to)) /\ IsFiniteSet(Losses(r.known, s.started, r.to))
      <4>1. /\ Passes(r.known, s.started, r.to) \subseteq rows
            /\ Losses(r.known, s.started, r.to) \subseteq rows
        BY <2>3 DEF Passes, Losses
      <4> QED
        BY <1>0, <4>1, FS_Subset DEF SessionsTyped
    <3>2. PICK p \in Nat : p = Cardinality(Passes(r.known, s.started, r.to))
      BY <3>1, FS_CardinalityType
    <3>3. PICK l \in Nat : l = Cardinality(Losses(r.known, s.started, r.to))
      BY <3>1, FS_CardinalityType
    <3> QED
      BY <2>3, <3>2, <3>3 DEF Counts
  <2>5. /\ new \in SessionRec /\ new.status = "closed" /\ new.closed = r.to
        /\ new.started = s.started /\ new.expected = s.expected /\ new.note = r.note
        /\ new.decoded = r.decoded /\ new.missed = r.missed
        /\ new.matched = r.matched /\ new.known = r.known
    BY <1>0, <2>2, <2>3, <2>4 DEF SessionRec, SessionsTyped
  <2> HIDE DEF new
  <2>6. /\ DOMAIN sessions' = DOMAIN sessions /\ sessions'[r.id] = new
        /\ \A t \in DOMAIN sessions : t # r.id => sessions'[t] = sessions[t]
        /\ sessions' \in Seq(SessionRec)
    BY <1>0, <2>1, <2>2, <2>5 DEF SessionsTyped
  <2>7. SessionsTyped'
    BY <1>0, <1>1, <1>3, <2>6 DEF SessionsTyped
  <2>8. Later
    BY <1>0, <1>1, <2>5, <2>6 DEF Later, SessionsTyped
  <2>9. SummaryHolds(new, rows, clock)
    BY <2>3, <2>5 DEF SummaryHolds
  <2>10. \A t \in DOMAIN sessions : t \in Nat /\ t <= r.id
    BY <1>0, <2>2, OneOpen DEF SessionsTyped
  <2>11. AllSummed'
    <3> SUFFICES ASSUME NEW t \in DOMAIN sessions, Closed(t)' PROVE SummaryHolds(sessions'[t], rows', clock')
      BY <2>6 DEF AllSummed
    <3>1. CASE t = r.id
      BY <2>5, <2>6, <2>7, <2>8, <2>9, <3>1, <1>0, SummaryKeeps
    <3>2. CASE t # r.id
      <4>1. sessions'[t] = sessions[t] /\ sessions[t] \in SessionRec
        BY <1>0, <2>6, <3>2 DEF SessionsTyped
      <4>2. SummaryHolds(sessions[t], rows, clock)
        BY <1>0, <4>1 DEF AllSummed, Closed
      <4> QED
        BY <1>0, <2>7, <2>8, <4>1, <4>2, SummaryKeeps
    <3> QED
      BY <3>1, <3>2
  <2>12. InTurn'
    <3> SUFFICES ASSUME NEW t \in DOMAIN sessions, NEW u \in DOMAIN sessions, t < u
                 PROVE  Closed(t)' /\ sessions'[t].closed <= sessions'[u].started
      BY <2>6 DEF InTurn
    <3>1. t # r.id /\ sessions'[t] = sessions[t] /\ sessions'[u].started = sessions[u].started
      BY <2>2, <2>5, <2>6, <2>10
    <3>2. Closed(t) /\ sessions[t].closed <= sessions[u].started
      BY <1>0 DEF InTurn
    <3> QED
      BY <3>1, <3>2 DEF Closed
  <2>13. \A c \in Desks : Deskwork(desk'[c], rows', clock', sessions')
    <3> TAKE c \in Desks
    <3>1. CASE c = d
      BY <1>4, <3>1
    <3>2. CASE c # d
      <4>1. Deskwork(desk[c], rows, clock, sessions) /\ desk'[c] = desk[c]
        BY <1>3, <3>2 DEF SessionsInv
      <4> QED
        BY <1>0, <2>7, <2>8, <4>1, DeskworkKeeps
    <3> QED
      BY <3>1, <3>2
  <2>14. SessionsInv'
    BY <2>7, <2>11, <2>12, <2>13 DEF SessionsInv
  <2> QED
    BY <2>2, <2>6, <2>14 DEF Closed
<1> QED
  BY <1>5, <1>6

LEMMA StepSessionsInv == SessionsInv /\ [SessionsNext]_sessionVars => SessionsInv'
<1> SUFFICES ASSUME SessionsInv, [SessionsNext]_sessionVars PROVE SessionsInv'
  OBVIOUS
<1>1. CASE UNCHANGED sessionVars
  <2>1. SessionsTyped' /\ clock <= clock'
    BY <1>1 DEF sessionVars, SessionsInv, SessionsTyped
  <2> QED
    BY <1>1, <2>1, SessionsStand DEF sessionVars
<1>2. ASSUME NEW payloads \in SUBSET Payloads \ {{}}, Upload(payloads)
      PROVE  SessionsInv'
  <2>1. SessionsTyped' /\ clock <= clock' /\ UNCHANGED <<rows, sessions, desk>>
    BY <1>2 DEF Upload, SessionsInv, SessionsTyped
  <2> QED
    BY <2>1, SessionsStand
<1> QED
  BY <1>1, <1>2, PipelineKeepsSessions, RequestKeepsSessions, StartKeepsSessions,
     CloseKeepsSessions DEF SessionsNext, Requests

LEMMA SessionsInvariance == SessionsSpec => []SessionsInv
BY InitSessionsInv, StepSessionsInv, PTL DEF SessionsSpec

(* However many dashboards close at once and whatever is stored meanwhile: *)
(* a stored summary is that of its window, and no pallet is in two.        *)
THEOREM SummariesAreSound == SessionsSpec => []SummaryIsSound
<1>1. SessionsInv => SummaryIsSound
  <2> SUFFICES ASSUME SessionsInv PROVE SummaryIsSound
    OBVIOUS
  <2>1. ASSUME NEW i \in DOMAIN sessions, Closed(i)
        PROVE  SummarizesItsWindow(sessions[i])
    <3> DEFINE s == sessions[i]
    <3>1. SummaryHolds(s, rows, clock)
      BY <2>1 DEF SessionsInv, AllSummed
    <3>2. /\ Decoded(s.started, s.closed) = Passes(rows, s.started, s.closed)
          /\ Missed(s.started, s.closed) = Losses(rows, s.started, s.closed)
          /\ Decoded(s.started, s.closed) \cap s.known = Passes(s.known, s.started, s.closed)
          /\ Missed(s.started, s.closed) \cap s.known = Losses(s.known, s.started, s.closed)
      BY <3>1 DEF Decoded, Missed, Passes, Losses, SummaryHolds, Counts
    <3>3. s.matched = Matched(s.matched, Decoded(s.started, s.closed))
      BY <3>1, <3>2 DEF SummaryHolds, Scanned, Matched
    <3> HIDE DEF s
    <3> QED
      BY <3>1, <3>2, <3>3 DEF SummaryHolds, Counts, SummarizesItsWindow, s
  <2> QED
    BY <2>1 DEF SessionsInv, InTurn, SummaryIsSound
<1> QED
  BY <1>1, SessionsInvariance, PTL

(* Whoever closes a session first has closed it.                           *)
THEOREM ClosedStaysClosed == SessionsSpec => ClosedIsFinal
<1>1. SessionsInv /\ [SessionsNext]_sessionVars =>
        \A s \in DOMAIN sessions : Closed(s) => sessions'[s] = sessions[s]
  <2> SUFFICES ASSUME SessionsInv, [SessionsNext]_sessionVars
               PROVE  \A s \in DOMAIN sessions : Closed(s) => sessions'[s] = sessions[s]
    OBVIOUS
  <2>1. CASE UNCHANGED sessions
    BY <2>1
  <2>2. ASSUME NEW expected \in Expected, Start(expected)
        PROVE  \A s \in DOMAIN sessions : Closed(s) => sessions'[s] = sessions[s]
    BY <2>2, StartKeepsSessions
  <2>3. ASSUME NEW d \in Desks, CloseWrites(d)
        PROVE  \A s \in DOMAIN sessions : Closed(s) => sessions'[s] = sessions[s]
    BY <2>3, CloseKeepsSessions
  <2>4. CASE UNCHANGED sessionVars \/ Pipeline \/ \E payloads \in SUBSET Payloads \ {{}} : Upload(payloads)
    BY <2>1, <2>4 DEF sessionVars, Pipeline, Tick, Happens, Stored, Upload
  <2>5. ASSUME NEW d \in Desks,
               \/ CloseBegins(d) \/ CloseCounts(d) \/ ReadManifest(d)
               \/ \E note \in BOOLEAN : CloseMatches(d, note)
        PROVE  \A s \in DOMAIN sessions : Closed(s) => sessions'[s] = sessions[s]
    BY <2>1, <2>5 DEF CloseBegins, CloseCounts, ReadManifest, CloseMatches
  <2> QED
    BY <2>2, <2>3, <2>4, <2>5 DEF SessionsNext, Requests
<1> QED
  BY <1>1, SessionsInvariance, PTL DEF SessionsSpec, ClosedIsFinal

-----------------------------------------------------------------------------
(***************************************************************************)
(* The cascade of decoders.                                                *)
(***************************************************************************)

DecodeSpec == DecodeInit /\ [][DecodeNext]_decodeVars

Elements(s) == { s[i] : i \in DOMAIN s }

Decoders == {"zxing", "qr", "dm"}

CascadeRec ==
  [ pc : {"idle", "inline", "fan", "done"}, left : Int, todo : Seq(Decoders),
    pending : [Variants -> Seq(Decoders)], asked : SUBSET (({"crop"} \cup Variants) \X Decoders),
    rejected : SUBSET (Variants \X Decoders), starved : BOOLEAN,
    result : {"none", "nothing", "accepted", "rejected", "raised"} ]

DecodeTyped ==
  /\ ctx \in [ confirmed : BOOLEAN, frames_attempted : Nat, fallback_runs : Nat ]
  /\ priority \in Seq(Decoders)
  /\ cascade \in CascadeRec
  /\ dm_gap \in Nat

(* A decoder of the inline cascade has been asked, is still to be asked,   *)
(* or is passed over by the stride; only want of time ends it early.       *)
NoneForgotten(c) ==
  \A who \in Elements(priority) :
    <<"crop", who>> \in c.asked \/ who \in Elements(c.todo) \/ Strides(who) \/ c.starved

(* Shadowed, in the words of any set of rejections.                        *)
Behind(rejected, v, who) ==
  \E i, j \in DOMAIN priority :
    i < j /\ priority[j] = who /\ <<v, priority[i]>> \in rejected

(* A variant task has the end of the list still to ask; a decoder has been *)
(* shown the variant, is still to be, or stands behind a phantom.          *)
EndOfList(list) ==
  \E k \in Nat : \A i \in DOMAIN list : i + k \in DOMAIN priority /\ list[i] = priority[i + k]

ListFits(list, v, asked, rejected) ==
  /\ EndOfList(list)
  /\ \A who \in Elements(priority) :
       <<v, who>> \in asked \/ who \in Elements(list) \/ Behind(rejected, v, who)

TaskFits(c, v) == ListFits(c.pending[v], v, c.asked, c.rejected)

Shown(c, v) ==
  \A who \in Elements(priority) : <<v, who>> \in c.asked \/ Behind(c.rejected, v, who)

CascadeFits ==
  /\ cascade.pc \in {"inline", "fan"} => NoneForgotten(cascade)
  /\ cascade.pc = "fan" =>
       /\ cascade.todo = <<>> /\ ~ ctx.confirmed /\ ctx.frames_attempted >= FallbackAfter
       /\ \A v \in Variants : TaskFits(cascade, v)
  /\ cascade.pc = "done" /\ cascade.result \in {"nothing", "rejected"} /\ ~ cascade.starved =>
       Owed \subseteq cascade.asked
  /\ cascade.pc = "done" => ctx.frames_attempted # 0

(* The gap is at most the number of frames since the last one the stride   *)
(* does not pass over.                                                     *)
GapFits(n, gap) == IF n = 0 THEN gap = 0 ELSE gap <= (n - 1) % DmStride

DecodeInv ==
  /\ DecodeTyped /\ CascadeFits
  /\ "dm" \in Elements(priority) => GapFits(ctx.frames_attempted, dm_gap)

(* One number further, not at a multiple: the remainder is one more.       *)
LEMMA NextRemainder ==
  ASSUME NEW D \in Nat, D > 0, NEW n \in Nat, n % D # 0, NEW m \in Nat, m + 1 = n
  PROVE  n % D = (m % D) + 1
OBVIOUS

LEMMA RemainderType ==
  ASSUME NEW D \in Nat, D > 0, NEW n \in Nat
  PROVE  n % D \in Nat /\ n % D < D
OBVIOUS

LEMMA ZeroRemainder ==
  ASSUME NEW D \in Nat, D > 0
  PROVE  0 % D = 0
OBVIOUS

LEMMA GapGrows ==
  ASSUME NEW n \in Nat, NEW gap \in Nat, GapFits(n, gap)
  PROVE  /\ GapFits(n + 1, 0)
         /\ n % DmStride # 0 => GapFits(n + 1, gap + 1)
<1>1. DmStride \in Nat /\ DmStride > 0
  BY DecodeAssumption
<1>2. n + 1 # 0 /\ (n + 1) - 1 = n
  OBVIOUS
<1>3. GapFits(n + 1, 0)
  <2>1. n % DmStride \in Nat
    BY <1>1, RemainderType
  <2>2. 0 <= n % DmStride
    BY <2>1
  <2> QED
    BY <1>2, <2>2 DEF GapFits
<1>4. ASSUME n % DmStride # 0
      PROVE  gap + 1 <= n % DmStride
  <2>1. n # 0
    BY <1>1, <1>4, ZeroRemainder
  <2>2. PICK m \in Nat : m + 1 = n /\ m = n - 1
    BY <2>1
  <2>3. n % DmStride = (m % DmStride) + 1 /\ m % DmStride \in Nat
    BY <1>1, <1>4, <2>2, NextRemainder, RemainderType
  <2>4. gap <= m % DmStride
    BY <2>1, <2>2 DEF GapFits
  <2> QED
    BY <2>3, <2>4
<1>5. n % DmStride # 0 => GapFits(n + 1, gap + 1)
  BY <1>2, <1>4 DEF GapFits
<1> QED
  BY <1>3, <1>5

LEMMA GapIsShort ==
  ASSUME NEW n \in Nat, n # 0, NEW gap \in Nat, GapFits(n, gap)
  PROVE  gap < DmStride
<1>1. PICK m \in Nat : m = n - 1
  OBVIOUS
<1>2. m % DmStride \in Nat /\ m % DmStride < DmStride /\ gap <= m % DmStride
  BY <1>1, RemainderType, DecodeAssumption DEF GapFits
<1>3. PICK k \in Nat : k = m % DmStride
  BY <1>2
<1> QED
  BY <1>2, <1>3, DecodeAssumption

LEMMA NoElements == Elements(<<>>) = {}
BY DEF Elements

LEMMA NoTaskType == NoTask \in [Variants -> Seq(Decoders)] /\ \A v \in Variants : NoTask[v] = <<>>
<1>1. <<>> \in Seq(Decoders)
  OBVIOUS
<1> QED
  BY <1>1 DEF NoTask

LEMMA InitDecodeInv == DecodeInit => DecodeInv
<1> SUFFICES ASSUME DecodeInit PROVE DecodeInv
  OBVIOUS
<1>1. priority \in Seq(Decoders) /\ <<>> \in Seq(Decoders)
  <2>1. "zxing" \in Decoders /\ "qr" \in Decoders /\ "dm" \in Decoders
    BY DEF Decoders
  <2>2. /\ <<"zxing">> \in Seq(Decoders) /\ <<"qr", "dm">> \in Seq(Decoders)
        /\ <<"dm", "qr">> \in Seq(Decoders) /\ <<>> \in Seq(Decoders)
    BY <2>1
  <2>3. priority = <<"zxing">> \/ priority = <<"qr", "dm">> \/ priority = <<"dm", "qr">>
    BY Zenon DEF DecodeInit, Priorities
  <2> QED
    BY <2>2, <2>3
<1>2. cascade \in CascadeRec /\ cascade.pc = "idle"
  BY <1>1, NoTaskType DEF DecodeInit, CascadeRec, Idle
<1>3. DecodeTyped /\ CascadeFits
  BY <1>1, <1>2 DEF DecodeInit, DecodeTyped, CascadeFits
<1> QED
  BY <1>3 DEF DecodeInit, DecodeInv, GapFits

(* The end of a frame, whatever it was.                                    *)
LEMMA EndKeepsDecodeInv ==
  ASSUME DecodeInv, NEW c \in CascadeRec, NoneForgotten(c), UNCHANGED priority,
         NEW result \in {"nothing", "accepted", "raised"}, Ends(c, result),
         result = "nothing" /\ ~ c.starved =>
           /\ c.todo = <<>>
           /\ ctx.confirmed \/ ctx.frames_attempted < FallbackAfter
              \/ \A v \in Variants : Shown(c, v)
  PROVE  DecodeInv'
<1> DEFINE n == ctx.frames_attempted
<1>0. DecodeTyped /\ n \in Nat /\ ("dm" \in Elements(priority) => GapFits(n, dm_gap))
  BY DEF DecodeInv, DecodeTyped
<1>1. /\ cascade' = [ c EXCEPT !.pc = "done", !.result = result, !.pending = NoTask ]
      /\ ctx' = [ ctx EXCEPT !.frames_attempted = @ + 1 ]
  BY DEF Ends
<1>2. /\ cascade' \in CascadeRec /\ cascade'.pc = "done" /\ cascade'.result = result
      /\ cascade'.asked = c.asked /\ cascade'.starved = c.starved
      /\ cascade'.rejected = c.rejected
  <2>1. NoTask \in [Variants -> Seq(Decoders)]
    BY NoTaskType
  <2> QED
    BY <1>1, <2>1 DEF CascadeRec
<1>3. ctx'.frames_attempted = n + 1 /\ ctx'.confirmed = ctx.confirmed
      /\ ctx' \in [ confirmed : BOOLEAN, frames_attempted : Nat, fallback_runs : Nat ]
  BY <1>0, <1>1 DEF DecodeTyped
<1>4. dm_gap' = IF ctx.confirmed /\ result = "nothing" /\ ~ c.starved /\ <<"crop", "dm">> \notin c.asked
                  THEN dm_gap + 1 ELSE 0
  BY DEF Ends
<1>5. DecodeTyped'
  <2>1. dm_gap' \in Nat
    BY <1>0, <1>4 DEF DecodeTyped
  <2> QED
    BY <1>0, <1>2, <1>3, <2>1 DEF DecodeTyped
<1>6. ASSUME result = "nothing", ~ c.starved
      PROVE  \A who \in Elements(priority) : <<"crop", who>> \in c.asked \/ Strides(who)
  <2>1. c.todo = <<>>
    BY <1>6
  <2> QED
    BY <1>6, <2>1, NoElements DEF NoneForgotten
<1>7. ASSUME result = "nothing", ~ c.starved
      PROVE  Owed' \subseteq c.asked
  <2> DEFINE probed == ~ ctx.confirmed \/ n % DmStride = 0
             inline == Elements(priority) \ (IF probed THEN {} ELSE {"dm"})
             fallback == IF ~ ctx.confirmed /\ n >= FallbackAfter THEN Variants ELSE {}
  <2>1. (n + 1) - 1 = n
    BY <1>0
  <2>2. Owed' = ({"crop"} \X inline)
                  \cup { pair \in fallback \X Elements(priority) :
                           ~ Behind(c.rejected, pair[1], pair[2]) }
    BY <1>2, <1>3, <2>1 DEF Owed, Shadowed, Behind, Elements
  <2>3. {"crop"} \X inline \subseteq c.asked
    BY <1>6, <1>7 DEF Strides
  <2>4. ASSUME NEW pair \in fallback \X Elements(priority),
               ~ Behind(c.rejected, pair[1], pair[2])
        PROVE  pair \in c.asked
    <3>1. PICK v \in fallback, who \in Elements(priority) : pair = <<v, who>>
      OBVIOUS
    <3>2. ~ ctx.confirmed /\ n >= FallbackAfter /\ v \in Variants
      BY <3>1
    <3>3. Shown(c, v)
      BY <1>0, <1>7, <3>2, DecodeAssumption
    <3> QED
      BY <2>4, <3>1, <3>3 DEF Shown
  <2> QED
    BY <2>2, <2>3, <2>4
<1>8. CascadeFits'
  <2>1. n + 1 # 0
    BY <1>0
  <2> QED
    BY <1>2, <1>3, <1>7, <2>1 DEF CascadeFits
<1>9. ASSUME "dm" \in Elements(priority)
      PROVE  GapFits(n + 1, dm_gap')
  <2>1. CASE ctx.confirmed /\ result = "nothing" /\ ~ c.starved /\ <<"crop", "dm">> \notin c.asked
    <3>1. n % DmStride # 0
      BY <1>6, <1>9, <2>1 DEF Strides
    <3> QED
      BY <1>0, <1>4, <1>9, <2>1, <3>1, GapGrows DEF DecodeTyped
  <2>2. CASE ~ (ctx.confirmed /\ result = "nothing" /\ ~ c.starved /\ <<"crop", "dm">> \notin c.asked)
    BY <1>0, <1>4, <1>9, <2>2, GapGrows DEF DecodeTyped
  <2> QED
    BY <2>1, <2>2
<1> QED
  BY <1>3, <1>5, <1>8, <1>9 DEF DecodeInv

(* A frame that goes on.                                                   *)
LEMMA GoingOnKeepsDecodeInv ==
  ASSUME DecodeInv, UNCHANGED <<priority, ctx, dm_gap>>, cascade' \in CascadeRec, CascadeFits'
  PROVE  DecodeInv'
BY DEF DecodeInv, DecodeTyped, GapFits

LEMMA TakesTheHead ==
  ASSUME NEW list \in Seq(Decoders), list # <<>>
  PROVE  /\ Head(list) \in Decoders /\ Tail(list) \in Seq(Decoders)
         /\ Elements(list) \subseteq {Head(list)} \cup Elements(Tail(list))
<1>1. Head(list) = list[1] /\ Head(list) \in Decoders /\ Tail(list) \in Seq(Decoders)
  OBVIOUS
<1>2. PICK n \in Nat : n = Len(list) /\ DOMAIN list = 1 .. n
  OBVIOUS
<1>3. DOMAIN Tail(list) = 1 .. (n - 1) /\ \A i \in 1 .. (n - 1) : Tail(list)[i] = list[i + 1]
  BY <1>2
<1>4. ASSUME NEW i \in 1 .. n
      PROVE  list[i] \in {Head(list)} \cup Elements(Tail(list))
  <2>1. CASE i = 1
    BY <1>1, <2>1
  <2>2. CASE i # 1
    <3>1. PICK j \in 1 .. (n - 1) : i = j + 1
      <4>1. i - 1 \in 1 .. (n - 1) /\ i = (i - 1) + 1
        BY <1>2, <2>2
      <4> QED
        BY <4>1
    <3> QED
      BY <1>3, <3>1 DEF Elements
  <2> QED
    BY <2>1, <2>2
<1> QED
  BY <1>1, <1>2, <1>4 DEF Elements

(* A task whose decoder at hand has answered: the end of its list is one   *)
(* shorter, or nothing is left of it and its rejection stands before the   *)
(* rest.                                                                   *)
LEMMA TaskGoesOn ==
  ASSUME NEW list \in Seq(Decoders), list # <<>>, priority \in Seq(Decoders),
         NEW v, NEW asked, NEW rejected, NEW left, NEW asked2, NEW rejected2,
         ListFits(list, v, asked, rejected), asked2 = asked \cup {<<v, Head(list)>>},
         \/ left = Tail(list) /\ rejected2 = rejected
         \/ left = <<>> /\ rejected2 = rejected \cup {<<v, Head(list)>>}
  PROVE  ListFits(left, v, asked2, rejected2)
<1>1. PICK k \in Nat : \A i \in DOMAIN list : i + k \in DOMAIN priority
                                            /\ list[i] = priority[i + k]
  BY DEF ListFits, EndOfList
<1>2. PICK n \in Nat : n = Len(list) /\ DOMAIN list = 1 .. n /\ n > 0
  OBVIOUS
<1>3. PICK m \in Nat : m = Len(priority) /\ DOMAIN priority = 1 .. m
  OBVIOUS
<1>4. /\ Head(list) = list[1] /\ DOMAIN Tail(list) = 1 .. (n - 1)
      /\ \A i \in 1 .. (n - 1) : Tail(list)[i] = list[i + 1]
  BY <1>2
<1>5. CASE left = Tail(list) /\ rejected2 = rejected
  <2>1. ASSUME NEW i \in 1 .. (n - 1)
        PROVE  i + (k + 1) \in DOMAIN priority /\ Tail(list)[i] = priority[i + (k + 1)]
    <3>1. i + 1 \in DOMAIN list /\ (i + 1) + k = i + (k + 1)
      BY <1>2
    <3> QED
      BY <1>1, <1>4, <3>1
  <2>2. EndOfList(left)
    <3>1. k + 1 \in Nat
      OBVIOUS
    <3> QED
      BY <1>4, <1>5, <2>1, <3>1 DEF EndOfList
  <2>3. Elements(list) \subseteq {Head(list)} \cup Elements(left)
    BY <1>5, TakesTheHead
  <2> QED
    BY <1>5, <2>2, <2>3 DEF ListFits
<1>6. CASE left = <<>> /\ rejected2 = rejected \cup {<<v, Head(list)>>}
  <2>1. EndOfList(left)
    BY <1>6 DEF EndOfList
  <2>2. ASSUME NEW who \in Elements(list), who # Head(list)
        PROVE  Behind(rejected2, v, who)
    <3>1. PICK i \in 1 .. n : list[i] = who
      BY <1>2 DEF Elements
    <3>2. i # 1 /\ 1 \in 1 .. n
      BY <1>2, <1>4, <2>2, <3>1
    <3>3. /\ 1 + k \in DOMAIN priority /\ Head(list) = priority[1 + k]
          /\ i + k \in DOMAIN priority /\ who = priority[i + k]
      BY <1>1, <1>2, <1>4, <3>1, <3>2
    <3>4. 1 + k < i + k
      BY <3>2
    <3>5. <<v, priority[1 + k]>> \in rejected2
      BY <1>6, <3>3
    <3> QED
      BY <3>3, <3>4, <3>5 DEF Behind
  <2>3. \A who : Behind(rejected, v, who) => Behind(rejected2, v, who)
    BY <1>6 DEF Behind
  <2> QED
    BY <2>1, <2>2, <2>3 DEF ListFits
<1> QED
  BY <1>5, <1>6

LEMMA StepDecodeInv == DecodeInv /\ [DecodeNext]_decodeVars => DecodeInv'
<1> SUFFICES ASSUME DecodeInv, [DecodeNext]_decodeVars PROVE DecodeInv'
  OBVIOUS
<1> DEFINE who == Head(cascade.todo)
<1>0. /\ DecodeTyped /\ CascadeFits
      /\ "dm" \in Elements(priority) => GapFits(ctx.frames_attempted, dm_gap)
  BY DEF DecodeInv
<1>t. /\ cascade \in CascadeRec /\ priority \in Seq(Decoders) /\ <<>> \in Seq(Decoders)
      /\ ctx \in [ confirmed : BOOLEAN, frames_attempted : Nat, fallback_runs : Nat ]
      /\ cascade.todo \in Seq(Decoders) /\ cascade.left \in Int
      /\ cascade.asked \subseteq ({"crop"} \cup Variants) \X Decoders
      /\ cascade.rejected \subseteq Variants \X Decoders
      /\ cascade.pending \in [Variants -> Seq(Decoders)]
  BY <1>0 DEF DecodeTyped, CascadeRec
<1>h. ASSUME cascade.todo # <<>>
      PROVE  /\ who \in Decoders /\ Tail(cascade.todo) \in Seq(Decoders)
             /\ Elements(cascade.todo) \subseteq {who} \cup Elements(Tail(cascade.todo))
  BY <1>t, <1>h, TakesTheHead
<1>1. CASE DecodeBegins
  <2>1. cascade' = [ pc |-> "inline", left |-> Budget, todo |-> priority,
                     pending |-> NoTask, asked |-> {}, rejected |-> {}, starved |-> FALSE, result |-> "none" ]
    BY <1>1 DEF DecodeBegins, Idle
  <2>2. cascade' \in CascadeRec /\ cascade'.pc = "inline" /\ cascade'.todo = priority
    BY <1>t, <2>1, NoTaskType, DecodeAssumption DEF CascadeRec
  <2>3. PICK confirmed \in {ctx.confirmed, TRUE} : ctx' = [ ctx EXCEPT !.confirmed = confirmed ]
    BY <1>1 DEF DecodeBegins
  <2>4. /\ ctx' \in [ confirmed : BOOLEAN, frames_attempted : Nat, fallback_runs : Nat ]
        /\ ctx'.frames_attempted = ctx.frames_attempted
        /\ UNCHANGED <<priority, dm_gap>>
    BY <1>1, <1>t, <2>3 DEF DecodeBegins
  <2>5. CascadeFits'
    BY <2>2, <2>4 DEF CascadeFits, NoneForgotten
  <2> QED
    BY <1>0, <2>2, <2>4, <2>5 DEF DecodeInv, DecodeTyped, GapFits
<1>2. CASE InlineSkips
  <2>1. cascade' = [ cascade EXCEPT !.todo = Tail(@) ] /\ UNCHANGED <<priority, ctx, dm_gap>>
    BY <1>2 DEF InlineSkips, Goes
  <2>2. /\ cascade.pc = "inline" /\ cascade.todo # <<>> /\ Strides(who)
        /\ NoneForgotten(cascade)
    BY <1>0, <1>2 DEF InlineSkips, CascadeFits
  <2>3. /\ cascade' \in CascadeRec /\ cascade'.pc = "inline"
        /\ cascade'.todo = Tail(cascade.todo) /\ cascade'.asked = cascade.asked
        /\ cascade'.starved = cascade.starved
    BY <1>h, <1>t, <2>1, <2>2 DEF CascadeRec
  <2>4. NoneForgotten(cascade)'
    <3> SUFFICES ASSUME NEW d \in Elements(priority)
                 PROVE  \/ <<"crop", d>> \in cascade'.asked \/ d \in Elements(cascade'.todo)
                        \/ (d = "dm" /\ ctx.confirmed /\ ctx.frames_attempted % DmStride # 0)
                        \/ cascade'.starved
      BY <2>1 DEF NoneForgotten, Strides, Elements
    <3>1. <<"crop", d>> \in cascade.asked \/ d \in Elements(cascade.todo) \/ Strides(d) \/ cascade.starved
      BY <2>2 DEF NoneForgotten
    <3>2. CASE d \in Elements(cascade.todo)
      <4>1. d = who \/ d \in Elements(Tail(cascade.todo))
        BY <1>h, <2>2, <3>2
      <4> QED
        BY <2>2, <2>3, <4>1 DEF Strides
    <3> QED
      BY <2>3, <3>1, <3>2 DEF Strides
  <2> QED
    BY <2>1, <2>3, <2>4, GoingOnKeepsDecodeInv DEF CascadeFits
<1>3. CASE InlineBreaks
  <2>1. /\ cascade' = [ cascade EXCEPT !.todo = <<>>, !.starved = TRUE ]
        /\ UNCHANGED <<priority, ctx, dm_gap>> /\ cascade.pc = "inline"
    BY <1>3 DEF InlineBreaks, Goes
  <2>2. cascade' \in CascadeRec /\ cascade'.pc = "inline" /\ cascade'.starved
    BY <1>t, <2>1 DEF CascadeRec
  <2> QED
    BY <2>1, <2>2, GoingOnKeepsDecodeInv DEF CascadeFits, NoneForgotten
<1>4. CASE InlineAsks
  <2>0. /\ cascade.pc = "inline" /\ cascade.todo # <<>> /\ NoneForgotten(cascade)
        /\ UNCHANGED priority
    BY <1>0, <1>4 DEF InlineAsks, CascadeFits
  <2>1. PICK answer \in Answers, ticks \in 0 .. (Budget + 1) :
          Answered([ cascade EXCEPT !.todo = Tail(@), !.left = @ - ticks,
                                    !.asked = @ \cup {<<"crop", who>>} ], answer)
    BY <1>4 DEF InlineAsks
  <2> DEFINE c == [ cascade EXCEPT !.todo = Tail(@), !.left = @ - ticks,
                                   !.asked = @ \cup {<<"crop", who>>} ]
  <2>2. /\ c \in CascadeRec /\ c.pc = "inline" /\ c.todo = Tail(cascade.todo)
        /\ c.asked = cascade.asked \cup {<<"crop", who>>} /\ c.starved = cascade.starved
    <3> DEFINE put == cascade.asked \cup {<<"crop", who>>}
               rest == Tail(cascade.todo)
               time == cascade.left - ticks
    <3>1. time \in Int
      BY <1>t, <2>1, DecodeAssumption
    <3>2. put \subseteq ({"crop"} \cup Variants) \X Decoders /\ rest \in Seq(Decoders)
      BY <1>h, <1>t, <2>0
    <3>3. c = [ cascade EXCEPT !.todo = rest, !.left = time, !.asked = put ]
      OBVIOUS
    <3> HIDE DEF c, put, rest, time
    <3>4. /\ c \in CascadeRec /\ c.pc = cascade.pc /\ c.todo = rest
          /\ c.asked = put /\ c.starved = cascade.starved
      BY <1>t, <3>1, <3>2, <3>3 DEF CascadeRec
    <3> QED
      BY <2>0, <3>4 DEF put, rest
  <2>3. NoneForgotten(c)
    <3> HIDE DEF c
    <3> QED
      BY <1>h, <2>0, <2>2 DEF NoneForgotten
  <2>4. Ends(c, "raised") \/ Ends(c, "accepted") \/ (Goes(c) /\ UNCHANGED priority)
    BY <2>0, <2>1 DEF Answered, Answers
  <2> HIDE DEF c
  <2>5. CASE Ends(c, "raised") \/ Ends(c, "accepted")
    BY <2>0, <2>2, <2>3, <2>5, EndKeepsDecodeInv
  <2>6. CASE Goes(c) /\ UNCHANGED priority
    <3>1. cascade' = c /\ UNCHANGED <<priority, ctx, dm_gap>>
      BY <2>6 DEF Goes
    <3>2. CascadeFits'
      BY <2>2, <2>3, <3>1 DEF CascadeFits, NoneForgotten, Strides
    <3> QED
      BY <2>2, <3>1, <3>2, GoingOnKeepsDecodeInv
  <2> QED
    BY <2>4, <2>5, <2>6
<1>5. CASE NoFallback
  <2> DEFINE c == [ cascade EXCEPT !.starved = @ \/ cascade.left <= 0 ]
  <2>0. /\ cascade.pc = "inline" /\ cascade.todo = <<>> /\ NoneForgotten(cascade)
        /\ UNCHANGED priority /\ Ends(c, "nothing")
        /\ ctx.confirmed \/ ctx.frames_attempted < FallbackAfter \/ cascade.left <= 0
    BY <1>0, <1>5 DEF NoFallback, CascadeFits
  <2>1. /\ c \in CascadeRec /\ c.todo = cascade.todo /\ c.asked = cascade.asked
        /\ cascade.starved => c.starved
        /\ cascade.left <= 0 => c.starved
    BY <1>t DEF CascadeRec
  <2> HIDE DEF c
  <2>2. NoneForgotten(c)
    BY <2>0, <2>1 DEF NoneForgotten
  <2> QED
    BY <2>0, <2>1, <2>2, EndKeepsDecodeInv
<1>6. CASE FansOut
  <2>1. /\ cascade.pc = "inline" /\ cascade.todo = <<>> /\ NoneForgotten(cascade)
        /\ ~ ctx.confirmed /\ ctx.frames_attempted >= FallbackAfter
        /\ ctx' = [ ctx EXCEPT !.fallback_runs = @ + 1 ]
        /\ cascade' = [ cascade EXCEPT !.pc = "fan",
                                      !.pending = [ v \in Variants |-> priority ] ]
        /\ UNCHANGED <<priority, dm_gap>>
    BY <1>0, <1>6 DEF FansOut, CascadeFits
  <2>2. /\ cascade' \in CascadeRec /\ cascade'.pc = "fan" /\ cascade'.todo = <<>>
        /\ cascade'.asked = cascade.asked /\ cascade'.rejected = cascade.rejected
        /\ cascade'.pending = [ v \in Variants |-> priority ]
        /\ cascade'.starved = cascade.starved
    BY <1>t, <2>1 DEF CascadeRec
  <2>3. /\ ctx' \in [ confirmed : BOOLEAN, frames_attempted : Nat, fallback_runs : Nat ]
        /\ ctx'.frames_attempted = ctx.frames_attempted /\ ctx'.confirmed = ctx.confirmed
    BY <1>t, <2>1
  <2>4. EndOfList(priority)
    <3>1. \A i \in DOMAIN priority : i + 0 \in DOMAIN priority /\ priority[i] = priority[i + 0]
      BY <1>t
    <3> QED
      BY <3>1 DEF EndOfList
  <2>5. ASSUME NEW v \in Variants
        PROVE  TaskFits(cascade, v)'
    BY <2>1, <2>2, <2>4 DEF TaskFits, ListFits, EndOfList, Elements, Behind
  <2>6. CascadeFits'
    BY <2>1, <2>2, <2>3, <2>5 DEF CascadeFits, NoneForgotten, Strides, Elements
  <2> QED
    BY <1>0, <2>1, <2>2, <2>3, <2>6 DEF DecodeInv, DecodeTyped, GapFits
<1>7. CASE VariantAsks
  <2>0. /\ cascade.pc = "fan" /\ cascade.todo = <<>> /\ NoneForgotten(cascade)
        /\ ~ ctx.confirmed /\ ctx.frames_attempted >= FallbackAfter
        /\ \A v \in Variants : TaskFits(cascade, v)
        /\ UNCHANGED priority
    BY <1>0, <1>7 DEF VariantAsks, CascadeFits
  <2>1. PICK v \in Variants, answer \in Answers, ticks \in 0 .. 1 :
          LET task == cascade.pending[v]
              pair == <<v, Head(task)>>
              left == IF answer = "nothing" THEN Tail(task) ELSE <<>>
          IN  /\ task # <<>>
              /\ Answered([ cascade EXCEPT !.pending[v] = left, !.left = @ - ticks,
                              !.asked = @ \cup {pair},
                              !.rejected = @ \cup (IF answer = "rejected" THEN {pair} ELSE {}) ],
                          answer)
    BY <1>7 DEF VariantAsks
  <2> DEFINE task == cascade.pending[v]
             pair == <<v, Head(task)>>
             left == IF answer = "nothing" THEN Tail(task) ELSE <<>>
             phantom == IF answer = "rejected" THEN {pair} ELSE {}
             c == [ cascade EXCEPT !.pending[v] = left, !.left = @ - ticks,
                                   !.asked = @ \cup {pair}, !.rejected = @ \cup phantom ]
  <2>2. /\ task \in Seq(Decoders) /\ task # <<>> /\ Head(task) \in Decoders
        /\ Tail(task) \in Seq(Decoders) /\ left \in Seq(Decoders)
    <3>1. task \in Seq(Decoders) /\ task # <<>>
      BY <1>t, <2>1
    <3> QED
      BY <1>t, <3>1, TakesTheHead
  <2>3. /\ c \in CascadeRec /\ c.pc = "fan" /\ c.todo = <<>>
        /\ c.asked = cascade.asked \cup {pair} /\ c.rejected = cascade.rejected \cup phantom
        /\ c.pending = [ cascade.pending EXCEPT ![v] = left ]
        /\ c.starved = cascade.starved
    <3>1. cascade.left - ticks \in Int
      BY <1>t, <2>1
    <3>2. pair \in Variants \X Decoders /\ phantom \subseteq Variants \X Decoders
      BY <2>2
    <3> HIDE DEF pair, phantom, left, task
    <3>3. [ cascade.pending EXCEPT ![v] = left ] \in [Variants -> Seq(Decoders)]
      BY <1>t, <2>2
    <3> QED
      BY <1>t, <2>0, <3>1, <3>2, <3>3 DEF CascadeRec
  <2>4. NoneForgotten(c)
    <3> HIDE DEF c, pair
    <3> QED
      BY <2>0, <2>3 DEF NoneForgotten
  <2>5. \/ Ends(c, "raised") \/ Ends(c, "accepted")
        \/ Goes(c) /\ UNCHANGED priority /\ answer \in {"nothing", "rejected"}
    BY <2>0, <2>1 DEF Answered, Answers
  <2> HIDE DEF c
  <2>6. CASE Ends(c, "raised") \/ Ends(c, "accepted")
    BY <2>0, <2>3, <2>4, <2>6, EndKeepsDecodeInv
  <2>7. CASE Goes(c) /\ UNCHANGED priority /\ answer \in {"nothing", "rejected"}
    <3>1. cascade' = c /\ UNCHANGED <<priority, ctx, dm_gap>>
      BY <2>7 DEF Goes
    <3>2. c.pending[v] = left /\ \A w \in Variants \ {v} : c.pending[w] = cascade.pending[w]
      BY <1>t, <2>3
    <3>3. TaskFits(c, v)
      <4>1. \/ left = Tail(task) /\ c.rejected = cascade.rejected
            \/ left = <<>> /\ c.rejected = cascade.rejected \cup {<<v, Head(task)>>}
        BY <2>3, <2>7
      <4>2. ListFits(task, v, cascade.asked, cascade.rejected)
        BY <2>0 DEF TaskFits
      <4>3. c.asked = cascade.asked \cup {<<v, Head(task)>>} /\ c.pending[v] = left
        BY <2>3, <3>2
      <4> HIDE DEF task, left
      <4>4. ListFits(left, v, c.asked, c.rejected)
        BY <1>t, <2>2, <4>1, <4>2, <4>3, TaskGoesOn
      <4> QED
        BY <4>3, <4>4 DEF TaskFits
    <3>4. \A w \in Variants \ {v} : TaskFits(c, w)
      BY <2>0, <2>3, <3>2 DEF TaskFits, ListFits, Behind
    <3>5. CascadeFits'
      <4>1. \A w \in Variants : TaskFits(c, w)
        BY <3>3, <3>4
      <4>2. \A w \in Variants : TaskFits(cascade, w)'
        BY <3>1, <4>1 DEF TaskFits, ListFits, EndOfList, Behind, Elements
      <4>3. NoneForgotten(cascade)'
        BY <2>4, <3>1 DEF NoneForgotten, Strides, Elements
      <4> QED
        BY <2>0, <2>3, <3>1, <4>2, <4>3 DEF CascadeFits
    <3> QED
      BY <2>3, <3>1, <3>5, GoingOnKeepsDecodeInv
  <2> QED
    BY <2>5, <2>6, <2>7
<1>8. CASE FanEnds
  <2>0. /\ cascade.pc = "fan" /\ cascade.todo = <<>> /\ NoneForgotten(cascade)
        /\ \A v \in Variants : TaskFits(cascade, v)
        /\ UNCHANGED priority
    BY <1>0, <1>8 DEF FanEnds, CascadeFits
  <2>1. CASE cascade.pending = NoTask /\ Ends(cascade, "nothing")
    <3>1. \A v \in Variants : Shown(cascade, v)
      BY <2>0, <2>1, NoTaskType, NoElements DEF TaskFits, ListFits, Shown
    <3> QED
      BY <1>t, <2>0, <2>1, <3>1, EndKeepsDecodeInv
  <2>2. CASE Ends([ cascade EXCEPT !.left = 0, !.starved = TRUE ], "nothing")
    <3> DEFINE c == [ cascade EXCEPT !.left = 0, !.starved = TRUE ]
    <3>1. c \in CascadeRec /\ c.starved
      <4>1. 0 \in Int /\ cascade \in CascadeRec
        BY <1>t
      <4> QED
        BY <4>1 DEF CascadeRec
    <3> HIDE DEF c
    <3>2. NoneForgotten(c)
      BY <3>1 DEF NoneForgotten
    <3>3. Ends(c, "nothing")
      BY <2>2 DEF c
    <3> QED
      BY <2>0, <3>1, <3>2, <3>3, EndKeepsDecodeInv
  <2> QED
    BY <1>8, <2>1, <2>2 DEF FanEnds
<1>9. CASE FrameDone
  <2>1. cascade' = Idle /\ UNCHANGED <<priority, ctx, dm_gap>>
    BY <1>9 DEF FrameDone
  <2>2. cascade' \in CascadeRec /\ cascade'.pc = "idle"
    BY <1>t, <2>1, NoTaskType DEF Idle, CascadeRec
  <2> QED
    BY <2>1, <2>2, GoingOnKeepsDecodeInv DEF CascadeFits
<1>10. CASE UNCHANGED decodeVars
  <2>1. UNCHANGED <<ctx, priority, cascade, dm_gap>>
    BY <1>10 DEF decodeVars
  <2>2. NoneForgotten(cascade) => NoneForgotten(cascade)'
    BY <2>1 DEF NoneForgotten, Strides, Elements
  <2>3. \A v \in Variants : TaskFits(cascade, v) => TaskFits(cascade, v)'
    BY <2>1 DEF TaskFits, ListFits, EndOfList, Behind, Elements
  <2>4. Owed' = Owed
    BY <2>1 DEF Owed, Shadowed
  <2>5. CascadeFits'
    BY <1>0, <2>1, <2>2, <2>3, <2>4 DEF CascadeFits
  <2> QED
    BY <1>t, <2>1, <2>5, GoingOnKeepsDecodeInv
<1> QED
  BY <1>1, <1>2, <1>3, <1>4, <1>5, <1>6, <1>7, <1>8, <1>9, <1>10 DEF DecodeNext

(* A frame reported unreadable in time was shown to every decoder it is    *)
(* owed, and a confirmed pass is probed for Data Matrix often enough, for  *)
(* every budget, stride and set of variants (decode_frame).                *)
THEOREM NoDecoderHides == DecodeSpec => []NoDecoderIsHidden
<1>1. DecodeInv => NoDecoderIsHidden
  <2> SUFFICES ASSUME DecodeInv, cascade.pc = "done"
               PROVE  /\ cascade.result \in {"nothing", "rejected"} /\ ~ cascade.starved =>
                           Owed \subseteq cascade.asked
                      /\ "dm" \in Elements(priority) => dm_gap < DmStride
    BY DEF NoDecoderIsHidden, Elements
  <2>1. CascadeFits /\ ctx.frames_attempted \in Nat /\ dm_gap \in Nat
    BY DEF DecodeInv, DecodeTyped
  <2>2. ctx.frames_attempted # 0
    BY <2>1 DEF CascadeFits
  <2>3. "dm" \in Elements(priority) => dm_gap < DmStride
    BY <2>1, <2>2, GapIsShort DEF DecodeInv
  <2> QED
    BY <2>1, <2>3 DEF CascadeFits
<1> QED
  BY InitDecodeInv, StepDecodeInv, <1>1, PTL DEF DecodeSpec

-----------------------------------------------------------------------------
(***************************************************************************)
(* The camera a configured name opens.                                     *)
(***************************************************************************)

IdentitySpec == IdentityInit /\ [][IdentityNext]_identityVars

Fingerprint(u) == [path |-> PathOf[u], product |-> ProductOf[u]]

EntryRec ==
  [ backend : {"auto", "dshow", "msmf"}, fallback : {0, 1},
    policy : {"off", "warn", "strict"},
    path : {Absent} \cup { PathOf[u] : u \in Units },
    product : {Absent} \cup { ProductOf[u] : u \in Units } ]

DeviceRec ==
  [ index : Int, named : BOOLEAN, identity : SUBSET { Fingerprint(u) : u \in Units } ]

ConnectionRec ==
  [ pc : {"off", "calibrate", "open", "guard", "running"}, devices : SUBSET DeviceRec,
    index : Int, by_name : BOOLEAN, moved : BOOLEAN, unit : Units \cup {Absent},
    mismatches : {0, 1} ]

(* A bus left alone since it was listed: the index is the place of a unit  *)
(* of the name, and the identity of the name, if any, is that unit's.      *)
ListedWell(c) ==
  /\ c.index \in DOMAIN bus /\ bus[c.index] \in Named
  /\ IdentityForName(c.devices) \subseteq { Fingerprint(bus[c.index]) }

Undisturbed(c) == c.pc # "off" /\ c.by_name /\ ~ c.moved

(* What the guard has let through.                                         *)
LetThrough(c) ==
  Told(c.unit) /\ IdentityForName(c.devices) # {} =>
    conf.policy = "off" \/ (conf.policy = "warn" /\ c.mismatches = 1)

IdentityInv ==
  /\ bus \in Buses /\ conf \in EntryRec /\ connection \in ConnectionRec
  /\ calibrated # Absent =>
       conf.path = PathOf[calibrated] /\ conf.product = ProductOf[calibrated]
  /\ Undisturbed(connection) =>
       /\ ListedWell(connection)
       /\ connection.pc \in {"guard", "running"} => connection.unit = bus[connection.index]
       /\ connection.pc = "running" => LetThrough(connection)

(* The one device of a list with the name: found, and only it, whatever    *)
(* units could not be read (find_device, identity_for_name).               *)
LEMMA TheOneNamed ==
  ASSUME bus \in Seq(Units), NEW unreadable, NEW fingerprints \in BOOLEAN,
         NEW devices, devices = Devices(unreadable, fingerprints), Found(devices)
  PROVE  \E i \in DOMAIN bus :
           /\ bus[i] \in Named
           /\ (CHOOSE d \in NameMatches(devices) : TRUE).index = i
           /\ IdentityForName(devices) \subseteq { Fingerprint(bus[i]) }
<1> DEFINE listed == { j \in DOMAIN bus : bus[j] \notin unreadable }
           entry(i) == [ index |-> i, named |-> bus[i] \in Named,
                          identity |-> Identity(bus[i], fingerprints) ]
<1>1. devices = { entry(i) : i \in listed }
  BY DEF Devices
<1>2. IsFiniteSet(listed)
  <2>1. Len(bus) \in Nat /\ DOMAIN bus = 1 .. Len(bus)
    OBVIOUS
  <2>2. IsFiniteSet(1 .. Len(bus))
    BY <2>1, FS_Interval
  <2> QED
    BY <2>1, <2>2, FS_Subset
<1>3. IsFiniteSet(devices)
  <2> HIDE DEF listed, entry
  <2> DEFINE f == [ i \in listed |-> entry(i) ]
  <2>1. f \in Surjection(listed, devices)
    BY <1>1 DEF Surjection
  <2> QED
    BY <1>2, <2>1, FS_Surjection
<1>4. IsFiniteSet(NameMatches(devices)) /\ Cardinality(NameMatches(devices)) = 1
  <2>1. NameMatches(devices) \subseteq devices
    BY DEF NameMatches
  <2> QED
    BY <1>3, <2>1, FS_Subset DEF Found
<1>5. PICK d : NameMatches(devices) = {d}
  BY <1>4, FS_Singleton
<1>6. (CHOOSE e \in NameMatches(devices) : TRUE) = d
  BY <1>5
<1>7. d \in devices /\ d.named
  BY <1>5 DEF NameMatches
<1>8. PICK i \in listed : d = entry(i)
  BY <1>1, <1>7
<1>9. d.index = i /\ (d.named = (bus[i] \in Named)) /\ d.identity = Identity(bus[i], fingerprints)
  BY <1>8
<1>10. IdentityForName(devices) = d.identity
  BY <1>5 DEF IdentityForName
<1> QED
  BY <1>6, <1>7, <1>8, <1>9, <1>10 DEF Identity, Fingerprint

LEMMA DevicesType ==
  ASSUME bus \in Seq(Units), NEW unreadable, NEW fingerprints \in BOOLEAN
  PROVE  Devices(unreadable, fingerprints) \subseteq DeviceRec
<1>1. ASSUME NEW i \in DOMAIN bus
      PROVE  [ index |-> i, named |-> bus[i] \in Named,
               identity |-> Identity(bus[i], fingerprints) ] \in DeviceRec
  <2>1. i \in Int /\ bus[i] \in Units
    OBVIOUS
  <2>2. Identity(bus[i], fingerprints) \subseteq { Fingerprint(u) : u \in Units }
    BY <2>1 DEF Identity, Fingerprint
  <2> QED
    BY <2>1, <2>2 DEF DeviceRec
<1> QED
  BY <1>1 DEF Devices

(* A name resolved: the connection lists the bus as it is.                 *)
LEMMA ResolvesWell ==
  ASSUME IdentityInv, NEW pc \in {"open", "calibrate"}, Resolved(pc),
         UNCHANGED <<bus, conf, calibrated>>
  PROVE  IdentityInv'
<1>0. bus \in Seq(Units) /\ conf \in EntryRec
  BY IdentityAssumption DEF IdentityInv
<1>1. PICK unreadable \in {{}} \cup { {u} : u \in Units }, fingerprints, fails \in BOOLEAN :
        LET devices == IF fails THEN {} ELSE Devices(unreadable, fingerprints)
        IN  connection' = [ NoConnection EXCEPT
              !.pc      = IF ByName(devices) \/ ByIndex(devices) THEN pc ELSE "off",
              !.devices = devices,
              !.by_name = ByName(devices),
              !.index   = IF ByName(devices) THEN (CHOOSE d \in NameMatches(devices) : TRUE).index
                          ELSE conf.fallback ]
  BY DEF Resolved
<1> DEFINE devices == IF fails THEN {} ELSE Devices(unreadable, fingerprints)
           index   == IF ByName(devices) THEN (CHOOSE d \in NameMatches(devices) : TRUE).index
                      ELSE conf.fallback
<1>2. connection' = [ pc |-> IF ByName(devices) \/ ByIndex(devices) THEN pc ELSE "off",
                      devices |-> devices, index |-> index, by_name |-> ByName(devices),
                      moved |-> FALSE, unit |-> Absent, mismatches |-> 0 ]
  BY <1>1 DEF NoConnection
<1>3. devices \subseteq DeviceRec /\ ByName(devices) \in BOOLEAN
  BY <1>0, DevicesType DEF ByName
<1>4. ASSUME ByName(devices)
      PROVE  /\ index \in DOMAIN bus /\ bus[index] \in Named
             /\ IdentityForName(devices) \subseteq { Fingerprint(bus[index]) }
  <2>1. ~ fails /\ Found(devices)
    BY <1>4 DEF ByName
  <2>2. devices = Devices(unreadable, fingerprints)
    BY <2>1
  <2>3. index = (CHOOSE d \in NameMatches(devices) : TRUE).index
    BY <1>4
  <2> HIDE DEF devices, index
  <2> QED
    BY <1>0, <2>1, <2>2, <2>3, TheOneNamed
<1>5. index \in Int
  <2>1. CASE ByName(devices)
    BY <1>0, <1>4, <2>1
  <2>2. CASE ~ ByName(devices)
    BY <1>0, <2>2 DEF EntryRec
  <2> QED
    BY <2>1, <2>2
<1> HIDE DEF devices, index
<1>6. /\ connection' \in ConnectionRec /\ connection'.pc \in {"off", "open", "calibrate"}
      /\ connection'.devices = devices /\ connection'.index = index
      /\ connection'.by_name = ByName(devices)
  BY <1>2, <1>3, <1>5 DEF ConnectionRec
<1>7. Undisturbed(connection)' => ListedWell(connection)'
  BY <1>4, <1>6 DEF Undisturbed, ListedWell, IdentityForName, Found, NameMatches
<1> QED
  BY <1>6, <1>7 DEF IdentityInv

(* What the name opens: the unit at the place listed.                      *)
LEMMA OpensTheListed ==
  ASSUME IdentityInv, Undisturbed(connection), NEW u, OpensUnit(u)
  PROVE  u = bus[connection.index] /\ u \in Named /\ u \in Units
BY IdentityAssumption DEF IdentityInv, Undisturbed, OpensUnit, ListedWell

LEMMA SavesWell ==
  ASSUME IdentityInv, CalibrateSaves
  PROVE  IdentityInv'
<1> DEFINE stamps == IdentityForName(connection.devices)
           entry  == [ conf EXCEPT !.backend = IF @ = "auto" THEN "dshow" ELSE @ ]
<1>0. /\ connection.pc = "calibrate" /\ connection' = NoConnection /\ UNCHANGED bus
      /\ bus \in Buses /\ conf \in EntryRec /\ connection \in ConnectionRec
  BY DEF CalibrateSaves, IdentityInv
<1>1. PICK u \in Units :
        /\ OpensUnit(u)
        /\ calibrated' = IF connection.by_name /\ ~ connection.moved /\ stamps # {}
                          THEN u ELSE Absent
        /\ conf' \in { [ entry EXCEPT !.path = f.path, !.product = f.product ] : f \in stamps }
                       \cup { e \in {entry} : stamps = {} }
  BY DEF CalibrateSaves
<1>2. stamps \subseteq { Fingerprint(v) : v \in Units }
  <2>1. ASSUME NEW d \in connection.devices
        PROVE  d.identity \subseteq { Fingerprint(v) : v \in Units }
    BY <1>0 DEF ConnectionRec, DeviceRec
  <2> QED
    BY <2>1 DEF IdentityForName, NameMatches
<1>3. entry \in EntryRec
  BY <1>0 DEF EntryRec
<1>4. ASSUME NEW f \in stamps
      PROVE  /\ [ entry EXCEPT !.path = f.path, !.product = f.product ] \in EntryRec
             /\ [ entry EXCEPT !.path = f.path, !.product = f.product ].path = f.path
             /\ [ entry EXCEPT !.path = f.path, !.product = f.product ].product = f.product
  <2>1. PICK v \in Units : f = Fingerprint(v)
    BY <1>2
  <2>2. /\ f.path \in {Absent} \cup { PathOf[w] : w \in Units }
        /\ f.product \in {Absent} \cup { ProductOf[w] : w \in Units }
    BY <2>1 DEF Fingerprint
  <2> HIDE DEF entry
  <2> QED
    BY <1>3, <2>2 DEF EntryRec
<1>5. conf' \in EntryRec
  <2> HIDE DEF entry, stamps
  <2> QED
    BY <1>1, <1>3, <1>4
<1>6. ASSUME calibrated' # Absent
      PROVE  conf'.path = PathOf[calibrated'] /\ conf'.product = ProductOf[calibrated']
  <2>1. /\ connection.by_name /\ ~ connection.moved /\ stamps # {} /\ calibrated' = u
    BY <1>1, <1>6
  <2>2. Undisturbed(connection)
    BY <1>0, <2>1 DEF Undisturbed
  <2>3. u = bus[connection.index] /\ stamps \subseteq { Fingerprint(u) }
    BY <1>1, <2>2, OpensTheListed DEF IdentityInv, ListedWell
  <2>4. PICK f \in stamps : conf' = [ entry EXCEPT !.path = f.path, !.product = f.product ]
    BY <1>1, <2>1
  <2>5. f = Fingerprint(u) /\ conf'.path = f.path /\ conf'.product = f.product
    BY <1>4, <2>3, <2>4
  <2> QED
    BY <2>1, <2>5 DEF Fingerprint
<1>7. connection' \in ConnectionRec /\ ~ Undisturbed(connection)'
  BY <1>0 DEF NoConnection, ConnectionRec, Undisturbed
<1> QED
  BY <1>0, <1>5, <1>6, <1>7 DEF IdentityInv

(* The guard: a unit that can be told from the calibrated one goes no      *)
(* further under strict and is counted under warn.                         *)
LEMMA GuardsWell ==
  ASSUME IdentityInv, GuardIdentity
  PROVE  IdentityInv'
<1> DEFINE actual == IdentityForName(connection.devices)
           count  == IF conf.policy = "warn" /\ \E f \in actual : Mismatch(f) THEN 1 ELSE 0
<1>0. /\ connection.pc = "guard" /\ UNCHANGED <<bus, conf, calibrated>>
      /\ bus \in Buses /\ conf \in EntryRec /\ connection \in ConnectionRec
  BY DEF GuardIdentity, IdentityInv
<1>1. connection' = IF Refused(actual) THEN NoConnection
                    ELSE [ connection EXCEPT !.pc = "running", !.mismatches = count ]
  BY DEF GuardIdentity
<1>2. CASE Refused(actual)
  <2>1. connection' \in ConnectionRec /\ connection'.pc = "off"
    BY <1>1, <1>2 DEF NoConnection, ConnectionRec
  <2> QED
    BY <1>0, <2>1 DEF IdentityInv, Undisturbed
<1>3. CASE ~ Refused(actual)
  <2>1. /\ connection' \in ConnectionRec /\ connection'.pc = "running"
        /\ connection'.mismatches = count
        /\ connection'.by_name = connection.by_name /\ connection'.moved = connection.moved
        /\ connection'.unit = connection.unit /\ connection'.index = connection.index
        /\ connection'.devices = connection.devices
    <3>1. count \in {0, 1}
      OBVIOUS
    <3> HIDE DEF count, actual
    <3> QED
      BY <1>0, <1>1, <1>3, <3>1 DEF ConnectionRec
  <2>2. ASSUME Undisturbed(connection)
        PROVE  /\ ListedWell(connection) /\ connection.unit = bus[connection.index]
               /\ LetThrough(connection)'
    <3>1. ListedWell(connection) /\ connection.unit = bus[connection.index]
      BY <1>0, <2>2 DEF IdentityInv
    <3>2. ASSUME Told(connection.unit), actual # {}
          PROVE  conf.policy = "off" \/ (conf.policy = "warn" /\ count = 1)
      <4>1. PICK f \in actual : TRUE
        BY <3>2
      <4>2. f = Fingerprint(connection.unit)
        BY <3>1, <4>1 DEF ListedWell
      <4>3. f.path = PathOf[connection.unit] /\ f.product = ProductOf[connection.unit]
        BY <4>2 DEF Fingerprint
      <4>4. Mismatch(f)
        BY <3>2, <4>3 DEF Told, Mismatch, IdentityInv
      <4>5. conf.policy # "strict"
        BY <1>3, <4>1, <4>4 DEF Refused
      <4>6. conf.policy \in {"off", "warn", "strict"}
        BY <1>0 DEF EntryRec
      <4> QED
        BY <4>1, <4>4, <4>5, <4>6
    <3>3. LetThrough(connection)'
      BY <1>0, <2>1, <3>2
      DEF LetThrough, Told, IdentityForName, Found, NameMatches
    <3> QED
      BY <3>1, <3>3
  <2>3. Undisturbed(connection)' => Undisturbed(connection)
    BY <1>0, <2>1 DEF Undisturbed
  <2> QED
    BY <1>0, <2>1, <2>2, <2>3
    DEF IdentityInv, ListedWell, IdentityForName, Found, NameMatches
<1> QED
  BY <1>2, <1>3

LEMMA StepIdentityInv == IdentityInv /\ [IdentityNext]_identityVars => IdentityInv'
<1> SUFFICES ASSUME IdentityInv, [IdentityNext]_identityVars PROVE IdentityInv'
  OBVIOUS
<1>0. bus \in Buses /\ conf \in EntryRec /\ connection \in ConnectionRec
  BY DEF IdentityInv
<1>1. CASE CalibrateResolves
  BY <1>1, ResolvesWell DEF CalibrateResolves
<1>2. CASE CalibrateSaves
  BY <1>2, SavesWell
<1>3. CASE Resolve
  BY <1>3, ResolvesWell DEF Resolve
<1>4. CASE OpenFails \/ StreamLost
  <2>1. connection' = NoConnection /\ UNCHANGED <<bus, conf, calibrated>>
    BY <1>4 DEF OpenFails, StreamLost
  <2>2. connection' \in ConnectionRec /\ connection'.pc = "off"
    BY <2>1 DEF NoConnection, ConnectionRec
  <2> QED
    BY <1>0, <2>1, <2>2 DEF IdentityInv, Undisturbed
<1>5. CASE OpenUnit
  <2>1. /\ connection.pc = "open" /\ UNCHANGED <<bus, conf, calibrated>>
    BY <1>5 DEF OpenUnit
  <2>2. PICK u \in Units :
          OpensUnit(u) /\ connection' = [ connection EXCEPT !.pc = "guard", !.unit = u ]
    BY <1>5 DEF OpenUnit
  <2>3. /\ connection' \in ConnectionRec /\ connection'.pc = "guard" /\ connection'.unit = u
        /\ connection'.by_name = connection.by_name /\ connection'.moved = connection.moved
        /\ connection'.index = connection.index /\ connection'.devices = connection.devices
    BY <1>0, <2>2 DEF ConnectionRec
  <2>4. Undisturbed(connection)' => Undisturbed(connection)
    BY <2>1, <2>3 DEF Undisturbed
  <2>5. Undisturbed(connection) => u = bus[connection.index] /\ ListedWell(connection)
    BY <2>2, OpensTheListed DEF IdentityInv
  <2> QED
    BY <1>0, <2>1, <2>3, <2>4, <2>5
    DEF IdentityInv, ListedWell, IdentityForName, Found, NameMatches
<1>6. CASE GuardIdentity
  BY <1>6, GuardsWell
<1>7. CASE Replug
  <2>1. bus' \in Buses /\ connection' = [ connection EXCEPT !.moved = TRUE ]
        /\ UNCHANGED <<conf, calibrated>>
    BY <1>7 DEF Replug
  <2>2. connection' \in ConnectionRec /\ connection'.moved
    BY <1>0, <2>1 DEF ConnectionRec
  <2> QED
    BY <1>0, <2>1, <2>2 DEF IdentityInv, Undisturbed
<1>8. CASE UNCHANGED identityVars
  BY <1>8, <1>0
  DEF identityVars, IdentityInv, Undisturbed, ListedWell, LetThrough, Told,
      IdentityForName, Found, NameMatches
<1> QED
  BY <1>1, <1>2, <1>3, <1>4, <1>5, <1>6, <1>7, <1>8 DEF IdentityNext

LEMMA InitIdentityInv == IdentityInit => IdentityInv
<1> SUFFICES ASSUME IdentityInit PROVE IdentityInv
  OBVIOUS
<1>1. conf \in EntryRec
  BY IdentityAssumption DEF IdentityInit, Entries, EntryRec
<1>2. connection \in ConnectionRec /\ connection.pc = "off"
  BY DEF IdentityInit, NoConnection, ConnectionRec
<1> QED
  BY <1>1, <1>2 DEF IdentityInit, IdentityInv, Undisturbed

(* A connection made by name on a bus left alone streams a unit of that    *)
(* name, and one that can be told from the calibrated unit is refused or   *)
(* counted, for every set of cameras and every order of the bus (_resolve, *)
(* devices_from_monikers, _guard_identity).                                *)
THEOREM NamesOpenTheirCameras == IdentitySpec => []OpensTheNamedCamera
<1>1. IdentityInv => OpensTheNamedCamera
  BY DEF IdentityInv, OpensTheNamedCamera, Undisturbed, ListedWell, LetThrough
<1> QED
  BY InitIdentityInv, StepIdentityInv, <1>1, PTL DEF IdentitySpec

-----------------------------------------------------------------------------
(***************************************************************************)
(* The bench that counts motion passes.                                    *)
(***************************************************************************)

BenchSpec == BenchInit /\ [][BenchNext]_benchVars

DeadlineRec == [ due : Nat, id : Nat ]

BenchRec ==
  [ frame_idx : Nat, track_misses : BOOLEAN, active_streak : Nat, quiet_streak : Nat,
    open_id : Nat, seg_count : Nat, open_frame : Int, live_segs : SUBSET Nat,
    long : SUBSET Nat, decoded : SUBSET Nat, pending : Seq(DeadlineRec),
    passes : Nat, reads : Nat, misses : Nat, rejected : Nat, frame_q : Seq(Nat) ]

VerdictRec == [ id : Nat, said : {"read", "miss", "rejected"}, early : BOOLEAN ]

(* The deadlines from first to last, in order, each of a pass of its own.  *)
QueuedUp(p, first, last) ==
  /\ \A i \in DOMAIN p : p[i].due >= first /\ p[i].due <= last
  /\ \A i, j \in DOMAIN p : i < j => p[i].due < p[j].due /\ p[i].id # p[j].id

PassesFit(b, first, last) ==
  /\ b \in BenchRec /\ QueuedUp(b.pending, first, last)
  /\ b.live_segs = IdsAt(b, DOMAIN b.pending) \cup ({b.open_id} \ {NoPass})
  /\ b.open_id \notin IdsAt(b, DOMAIN b.pending)
  /\ b.decoded \subseteq b.live_segs
  /\ \A id \in b.live_segs : id >= 1 /\ id <= b.seg_count

SaidOf(vs, words) == Cardinality({ v \in vs : v.said \in words })

VerdictsFit(b, vs) ==
  /\ vs \subseteq VerdictRec /\ IsFiniteSet(vs)
  /\ \A v \in vs : ~ v.early /\ v.id <= b.seg_count /\ v.id \notin b.live_segs
  /\ \A v, w \in vs : v.id = w.id => v = w
  /\ b.passes = SaidOf(vs, {"read", "miss"})
  /\ b.reads = SaidOf(vs, {"read"}) /\ b.misses = SaidOf(vs, {"miss"})
  /\ b.rejected = SaidOf(vs, {"rejected"})

BenchInv ==
  /\ PassesFit(bench, bench.frame_idx + 1, bench.frame_idx + Grace)
  /\ VerdictsFit(bench, verdicts)
  /\ ~ bench.track_misses => bench.live_segs = {}

LEMMA SequenceShape ==
  ASSUME NEW S, NEW s \in Seq(S)
  PROVE  /\ Len(s) \in Nat /\ DOMAIN s = 1 .. Len(s)
         /\ \A i \in DOMAIN s : s[i] \in S /\ i \in Nat /\ i >= 1
OBVIOUS

LEMMA PendingShape ==
  ASSUME NEW b \in BenchRec
  PROVE  /\ b.pending \in Seq(DeadlineRec) /\ Len(b.pending) \in Nat
         /\ DOMAIN b.pending = 1 .. Len(b.pending)
         /\ \A i \in DOMAIN b.pending : /\ b.pending[i].due \in Nat /\ b.pending[i].id \in Nat
                                        /\ i \in Nat /\ i >= 1
<1>1. b.pending \in Seq(DeadlineRec)
  BY DEF BenchRec
<1>2. /\ Len(b.pending) \in Nat /\ DOMAIN b.pending = 1 .. Len(b.pending)
      /\ \A i \in DOMAIN b.pending : b.pending[i] \in DeadlineRec /\ i \in Nat /\ i >= 1
  BY <1>1, SequenceShape
<1> QED
  BY <1>1, <1>2 DEF DeadlineRec

(* A pass that opens is live, and new.                                     *)
LEMMA StartKeepsPasses ==
  ASSUME NEW b, NEW first, NEW last, PassesFit(b, first, last)
  PROVE  /\ PassesFit(StartsPass(b), first, last)
         /\ StartsPass(b).frame_idx = b.frame_idx /\ StartsPass(b).pending = b.pending
         /\ \/ StartsPass(b) = b
            \/ /\ StartsPass(b).live_segs = b.live_segs \cup {b.seg_count + 1}
               /\ StartsPass(b).seg_count = b.seg_count + 1
         /\ StartsPass(b).passes = b.passes /\ StartsPass(b).reads = b.reads
         /\ StartsPass(b).misses = b.misses /\ StartsPass(b).rejected = b.rejected
         /\ StartsPass(b).track_misses = b.track_misses
<1>1. CASE ~ (b.open_id = NoPass /\ b.active_streak >= PassOpenFrames)
  BY <1>1 DEF StartsPass
<1>2. CASE b.open_id = NoPass /\ b.active_streak >= PassOpenFrames
  <2> DEFINE new == b.seg_count + 1
             c   == [ b EXCEPT !.seg_count = new, !.open_id = new,
                               !.open_frame = b.frame_idx - b.active_streak + 1,
                               !.live_segs = b.live_segs \cup {new} ]
  <2>1. StartsPass(b) = c
    BY <1>2 DEF StartsPass
  <2>2. /\ b \in BenchRec /\ QueuedUp(b.pending, first, last)
        /\ b.live_segs = IdsAt(b, DOMAIN b.pending)
        /\ b.decoded \subseteq b.live_segs
        /\ \A id \in b.live_segs : id >= 1 /\ id <= b.seg_count
    BY <1>2 DEF PassesFit
  <2>3. new \in Nat /\ new >= 1 /\ new > b.seg_count /\ new # NoPass /\ b.seg_count \in Nat
        /\ b.frame_idx - b.active_streak + 1 \in Int
    BY <2>2 DEF BenchRec, NoPass
  <2>4. c \in BenchRec
    <3> HIDE DEF new
    <3> QED
      BY <2>2, <2>3 DEF BenchRec
  <2>5. /\ c.pending = b.pending /\ c.open_id = new /\ c.live_segs = b.live_segs \cup {new}
        /\ c.decoded = b.decoded /\ c.seg_count = new /\ c.frame_idx = b.frame_idx
        /\ c.passes = b.passes /\ c.reads = b.reads /\ c.misses = b.misses
        /\ c.rejected = b.rejected /\ c.track_misses = b.track_misses
    BY <2>2 DEF BenchRec
  <2> HIDE DEF c
  <2>6. IdsAt(c, DOMAIN c.pending) = b.live_segs
    BY <2>2, <2>5 DEF IdsAt
  <2>7. \A id \in b.live_segs : id \in Nat
    BY <2>2 DEF BenchRec
  <2>8. new \notin b.live_segs
    BY <2>2, <2>3, <2>7
  <2>9. \A id \in c.live_segs : id >= 1 /\ id <= c.seg_count
    BY <2>2, <2>3, <2>5, <2>7
  <2>10. PassesFit(c, first, last)
    BY <2>2, <2>3, <2>4, <2>5, <2>6, <2>8, <2>9 DEF PassesFit
  <2> QED
    BY <2>1, <2>5, <2>10
<1> QED
  BY <1>1, <1>2

(* Verdicts already said survive a frame that opens or closes passes.      *)
LEMMA VerdictsStay ==
  ASSUME NEW b \in BenchRec, NEW c \in BenchRec, NEW vs, VerdictsFit(b, vs),
         \/ c.live_segs = b.live_segs /\ c.seg_count = b.seg_count
         \/ c.live_segs = b.live_segs \cup {b.seg_count + 1} /\ c.seg_count = b.seg_count + 1,
         c.passes = b.passes, c.reads = b.reads, c.misses = b.misses, c.rejected = b.rejected
  PROVE  VerdictsFit(c, vs)
<1>1. b.seg_count \in Nat /\ b.seg_count + 1 > b.seg_count
  BY DEF BenchRec
<1>2. \A v \in vs : v.id \in Nat /\ v.id <= b.seg_count /\ v.id \notin b.live_segs
  BY DEF VerdictsFit, VerdictRec
<1>3. ASSUME NEW v \in vs
      PROVE  v.id <= c.seg_count /\ v.id \notin c.live_segs
  BY <1>1, <1>2
<1> QED
  BY <1>3 DEF VerdictsFit

LEMMA MovesKeepsPasses ==
  ASSUME NEW b, NEW first, NEW last, PassesFit(b, first, last), NEW vs, VerdictsFit(b, vs)
  PROVE  /\ PassesFit(Moves(b), first, last) /\ VerdictsFit(Moves(b), vs)
         /\ Moves(b).frame_idx = b.frame_idx /\ Moves(b).track_misses = b.track_misses
<1> DEFINE a == [ b EXCEPT !.quiet_streak = 0, !.active_streak = @ + 1 ]
           c == StartsPass(a)
           d == [ c EXCEPT !.long = c.long \cup {c.open_id} ]
<1>1. b \in BenchRec
  BY DEF PassesFit
<1>2. /\ a \in BenchRec /\ a.pending = b.pending /\ a.live_segs = b.live_segs
      /\ a.open_id = b.open_id /\ a.decoded = b.decoded /\ a.seg_count = b.seg_count
      /\ a.frame_idx = b.frame_idx /\ a.track_misses = b.track_misses
      /\ a.passes = b.passes /\ a.reads = b.reads /\ a.misses = b.misses
      /\ a.rejected = b.rejected
  <2>1. PICK streak \in Nat : streak = b.active_streak + 1
    BY <1>1 DEF BenchRec
  <2>2. a = [ b EXCEPT !.quiet_streak = 0, !.active_streak = streak ]
    BY <2>1
  <2> HIDE DEF a
  <2> QED
    BY <1>1, <2>2 DEF BenchRec
<1> HIDE DEF a
<1>3. PassesFit(a, first, last)
  BY <1>2 DEF PassesFit, IdsAt
<1>4. /\ PassesFit(c, first, last) /\ c.frame_idx = b.frame_idx
      /\ c.track_misses = b.track_misses /\ c \in BenchRec
      /\ \/ c.live_segs = a.live_segs /\ c.seg_count = a.seg_count
         \/ c.live_segs = a.live_segs \cup {a.seg_count + 1} /\ c.seg_count = a.seg_count + 1
      /\ c.passes = b.passes /\ c.reads = b.reads /\ c.misses = b.misses
      /\ c.rejected = b.rejected
  BY <1>2, <1>3, StartKeepsPasses DEF PassesFit
<1>5. VerdictsFit(c, vs)
  BY <1>1, <1>2, <1>4, VerdictsStay
<1> HIDE DEF c
<1>6. /\ d \in BenchRec /\ d.pending = c.pending /\ d.live_segs = c.live_segs
      /\ d.open_id = c.open_id /\ d.decoded = c.decoded /\ d.seg_count = c.seg_count
      /\ d.frame_idx = c.frame_idx /\ d.track_misses = c.track_misses
      /\ d.passes = c.passes /\ d.reads = c.reads /\ d.misses = c.misses
      /\ d.rejected = c.rejected
  BY <1>4 DEF BenchRec
<1>7. PassesFit(d, first, last) /\ VerdictsFit(d, vs)
  <2> HIDE DEF d
  <2>1. PassesFit(d, first, last)
    BY <1>4, <1>6 DEF PassesFit, IdsAt
  <2> QED
    BY <1>4, <1>5, <1>6, <2>1, VerdictsStay
<1>8. Moves(b) = c \/ Moves(b) = d
  BY DEF Moves, a, c
<1> QED
  BY <1>4, <1>5, <1>6, <1>7, <1>8

LEMMA AppendShape ==
  ASSUME NEW S, NEW s \in Seq(S), NEW e \in S
  PROVE  /\ Append(s, e) \in Seq(S) /\ Len(Append(s, e)) = Len(s) + 1
         /\ \A i \in 1 .. Len(s) : Append(s, e)[i] = s[i]
         /\ Append(s, e)[Len(s) + 1] = e
OBVIOUS

(* A pass that falls quiet is queued behind all others.                    *)
LEMMA CloseKeepsPasses ==
  ASSUME NEW c, NEW n \in Nat, c.frame_idx = n, PassesFit(c, n, n - 1 + Grace),
         c.open_id # NoPass,
         NEW d, d = [ c EXCEPT !.pending = Append(@, [due |-> n + Grace, id |-> c.open_id]),
                               !.open_id = NoPass, !.quiet_streak = 0 ]
  PROVE  PassesFit(d, n, n + Grace)
<1> DEFINE p == c.pending
           e == [due |-> n + Grace, id |-> c.open_id]
           m == Len(p)
<1>0. Grace \in Nat
  BY BenchAssumption
<1>1. /\ c \in BenchRec /\ QueuedUp(p, n, n - 1 + Grace)
      /\ c.live_segs = IdsAt(c, DOMAIN p) \cup {c.open_id}
      /\ c.open_id \notin IdsAt(c, DOMAIN p) /\ c.decoded \subseteq c.live_segs
      /\ \A id \in c.live_segs : id >= 1 /\ id <= c.seg_count
  BY DEF PassesFit
<1>2. /\ p \in Seq(DeadlineRec) /\ m \in Nat /\ DOMAIN p = 1 .. m
      /\ \A i \in 1 .. m : p[i].due \in Nat /\ p[i].id \in Nat
  BY <1>1, PendingShape
<1>3. e \in DeadlineRec /\ e.due = n + Grace /\ e.id = c.open_id
  BY <1>0, <1>1 DEF BenchRec, DeadlineRec
<1> HIDE DEF p, e
<1> DEFINE q == Append(p, e)
<1>4. /\ q \in Seq(DeadlineRec) /\ Len(q) = m + 1 /\ DOMAIN q = 1 .. (m + 1)
      /\ \A i \in 1 .. m : q[i] = p[i]
      /\ q[m + 1] = e
  BY <1>2, <1>3, AppendShape, SequenceShape
<1> HIDE DEF q
<1>5. /\ d \in BenchRec /\ d.pending = q /\ d.open_id = NoPass /\ d.live_segs = c.live_segs
      /\ d.decoded = c.decoded /\ d.seg_count = c.seg_count
  BY <1>1, <1>4 DEF BenchRec, NoPass, p, q, e
<1> HIDE DEF m
<1>6. IdsAt(d, DOMAIN d.pending) = IdsAt(c, DOMAIN p) \cup {c.open_id}
  <2>1. ASSUME NEW i \in 1 .. (m + 1)
        PROVE  q[i].id \in IdsAt(c, DOMAIN p) \cup {c.open_id}
    <3>1. i = m + 1 \/ i \in 1 .. m
      BY <1>2
    <3>2. CASE i \in 1 .. m
      BY <1>2, <1>4, <3>2 DEF IdsAt, p
    <3> QED
      BY <1>3, <1>4, <3>1, <3>2
  <2>2. ASSUME NEW i \in 1 .. m
        PROVE  i \in 1 .. (m + 1) /\ q[i].id = c.pending[i].id
    BY <1>2, <1>4 DEF p
  <2>3. m + 1 \in 1 .. (m + 1) /\ q[m + 1].id = c.open_id
    BY <1>2, <1>3, <1>4
  <2> QED
    BY <1>2, <1>4, <1>5, <2>1, <2>2, <2>3 DEF IdsAt
<1>7. \A i \in 1 .. m : /\ p[i].due >= n /\ p[i].due <= n - 1 + Grace
                        /\ p[i].id # c.open_id
  BY <1>1, <1>2 DEF QueuedUp, IdsAt, p
<1>8. QueuedUp(q, n, n + Grace)
  <2>1. ASSUME NEW i \in 1 .. (m + 1)
        PROVE  q[i].due >= n /\ q[i].due <= n + Grace
    <3>1. CASE i \in 1 .. m
      <4>1. PICK due \in Nat : due = p[i].due
        BY <1>2, <3>1
      <4> QED
        BY <1>0, <1>4, <1>7, <3>1, <4>1
    <3>2. CASE i = m + 1
      BY <1>0, <1>3, <1>4, <3>2
    <3> QED
      BY <1>2, <3>1, <3>2
  <2>2. ASSUME NEW i \in 1 .. (m + 1), NEW j \in 1 .. (m + 1), i < j
        PROVE  q[i].due < q[j].due /\ q[i].id # q[j].id
    <3>1. i \in 1 .. m
      BY <1>2, <2>2
    <3>2. CASE j \in 1 .. m
      BY <1>1, <1>2, <1>4, <2>2, <3>1, <3>2 DEF QueuedUp
    <3>3. CASE j = m + 1
      <4>1. PICK due \in Nat : due = p[i].due
        BY <1>2, <3>1
      <4>2. due <= n - 1 + Grace
        BY <1>7, <3>1, <4>1
      <4>3. due < n + Grace
        BY <1>0, <4>2
      <4> QED
        BY <1>3, <1>4, <1>7, <3>1, <3>3, <4>1, <4>3
    <3> QED
      BY <1>2, <3>2, <3>3
  <2> QED
    BY <1>4, <2>1, <2>2 DEF QueuedUp
<1>9. NoPass \notin IdsAt(d, DOMAIN d.pending)
  <2>1. \A id \in c.live_segs : id # 0
    BY <1>1
  <2> QED
    BY <1>1, <1>6, <2>1 DEF NoPass
<1> QED
  BY <1>1, <1>5, <1>6, <1>8, <1>9 DEF PassesFit

LEMMA RestsKeepsPasses ==
  ASSUME NEW b, NEW n \in Nat, b.frame_idx = n, PassesFit(b, n, n - 1 + Grace),
         NEW vs, VerdictsFit(b, vs)
  PROVE  /\ PassesFit(Rests(b), n, n + Grace) /\ VerdictsFit(Rests(b), vs)
         /\ Rests(b).frame_idx = n /\ Rests(b).track_misses = b.track_misses
<1> DEFINE c == [ b EXCEPT !.active_streak = 0,
                           !.quiet_streak = IF b.open_id = NoPass THEN @ ELSE @ + 1 ]
           d == [ c EXCEPT !.pending = Append(@, [due |-> n + Grace, id |-> c.open_id]),
                           !.open_id = NoPass, !.quiet_streak = 0 ]
<1>1. b \in BenchRec
  BY DEF PassesFit
<1>2. /\ c \in BenchRec /\ c.pending = b.pending /\ c.live_segs = b.live_segs
      /\ c.open_id = b.open_id /\ c.decoded = b.decoded /\ c.seg_count = b.seg_count
      /\ c.frame_idx = b.frame_idx /\ c.track_misses = b.track_misses
      /\ c.passes = b.passes /\ c.reads = b.reads /\ c.misses = b.misses
      /\ c.rejected = b.rejected
  <2>1. PICK streak \in Nat :
          streak = IF b.open_id = NoPass THEN b.quiet_streak ELSE b.quiet_streak + 1
    BY <1>1 DEF BenchRec
  <2>2. c = [ b EXCEPT !.active_streak = 0, !.quiet_streak = streak ]
    BY <2>1
  <2> HIDE DEF c
  <2> QED
    BY <1>1, <2>2 DEF BenchRec
<1>3. Rests(b) = IF c.open_id # NoPass /\ c.quiet_streak >= PassQuietFrames THEN d ELSE c
  <2>1. Rests(b) =
          IF c.open_id # NoPass /\ c.quiet_streak >= PassQuietFrames
            THEN [ c EXCEPT !.pending = Append(@, [due |-> c.frame_idx + Grace, id |-> c.open_id]),
                            !.open_id = NoPass, !.quiet_streak = 0 ]
            ELSE c
    BY DEF Rests
  <2> HIDE DEF c
  <2> QED
    BY <1>2, <2>1
<1> HIDE DEF c
<1>4. PassesFit(c, n, n - 1 + Grace) /\ VerdictsFit(c, vs)
  BY <1>1, <1>2, VerdictsStay DEF PassesFit, IdsAt
<1>5. CASE Rests(b) = c
  <2>1. ASSUME NEW i \in DOMAIN c.pending
        PROVE  c.pending[i].due <= n + Grace
    <3>1. PICK due \in Nat : due = c.pending[i].due
      BY <1>2, PendingShape
    <3>2. due <= n - 1 + Grace
      BY <1>4, <3>1 DEF PassesFit, QueuedUp
    <3> QED
      BY <3>1, <3>2, BenchAssumption
  <2>2. PassesFit(c, n, n + Grace)
    BY <1>4, <2>1 DEF PassesFit, QueuedUp
  <2> QED
    BY <1>2, <1>4, <1>5, <2>2
<1>6. CASE c.open_id # NoPass /\ Rests(b) = d
  <2>1. PassesFit(d, n, n + Grace)
    BY <1>2, <1>4, <1>6, CloseKeepsPasses
  <2>2. /\ d.live_segs = c.live_segs /\ d.seg_count = c.seg_count
        /\ d.frame_idx = c.frame_idx /\ d.track_misses = c.track_misses
        /\ d.passes = c.passes /\ d.reads = c.reads /\ d.misses = c.misses
        /\ d.rejected = c.rejected
    BY <1>2 DEF BenchRec
  <2>3. d \in BenchRec
    BY <2>1 DEF PassesFit
  <2>4. VerdictsFit(d, vs)
    <3> HIDE DEF d
    <3> QED
      BY <1>2, <1>4, <2>2, <2>3, VerdictsStay
  <2> QED
    BY <1>2, <1>6, <2>1, <2>2, <2>4
<1> QED
  BY <1>3, <1>5, <1>6

(* One more verdict is one more of its word.                               *)
LEMMA OneMoreVerdict ==
  ASSUME NEW vs, IsFiniteSet(vs), NEW v, v \notin vs, NEW words
  PROVE  SaidOf(vs \cup {v}, words) = SaidOf(vs, words) + (IF v.said \in words THEN 1 ELSE 0)
<1> DEFINE old == { w \in vs : w.said \in words }
<1>1. IsFiniteSet(old) /\ v \notin old /\ Cardinality(old) \in Nat
  BY FS_Subset, FS_CardinalityType
<1>2. CASE v.said \in words
  <2>1. { w \in vs \cup {v} : w.said \in words } = old \cup {v}
    BY <1>2
  <2> QED
    BY <1>1, <1>2, <2>1, FS_AddElement DEF SaidOf
<1>3. CASE v.said \notin words
  <2>1. { w \in vs \cup {v} : w.said \in words } = old
    BY <1>3
  <2>2. SaidOf(vs \cup {v}, words) = Cardinality(old) /\ SaidOf(vs, words) = Cardinality(old)
    BY <2>1 DEF SaidOf
  <2>3. PICK k \in Nat : k = Cardinality(old)
    BY <1>1
  <2>4. (IF v.said \in words THEN 1 ELSE 0) = 0
    BY <1>3
  <2> HIDE DEF old
  <2>5. k = k + 0
    OBVIOUS
  <2> QED
    BY <2>2, <2>3, <2>4, <2>5
<1> QED
  BY <1>2, <1>3

LEMMA CountOfOne ==
  ASSUME NEW x, NEW P \in BOOLEAN
  PROVE  Cardinality({ y \in {x} : P }) = IF P THEN 1 ELSE 0
<1>1. CASE P
  BY <1>1, FS_Singleton
<1>2. CASE ~ P
  <2>1. { y \in {x} : P } = {}
    BY <1>2
  <2> QED
    BY <1>2, <2>1, FS_EmptySet
<1> QED
  BY <1>1, <1>2

LEMMA CountsTheWord ==
  ASSUME NEW r \in Nat, NEW word, NEW w, NEW k, k = IF word = w THEN 1 ELSE 0
  PROVE  \E d \in Nat : d = r + k /\ d = r + (IF word \in {w} THEN 1 ELSE 0)
<1>1. CASE word = w
  <2>1. k = 1 /\ (IF word \in {w} THEN 1 ELSE 0) = 1
    BY <1>1
  <2> QED
    BY <2>1
<1>2. CASE word # w
  <2>1. k = 0 /\ (IF word \in {w} THEN 1 ELSE 0) = 0
    BY <1>2
  <2> QED
    BY <2>1
<1> QED
  BY <1>1, <1>2

(* Deadlines are one to a frame, so at most the first of them is reached.  *)
LEMMA DueIsFirst ==
  ASSUME NEW b, NEW n \in Nat, b.frame_idx = n, PassesFit(b, n, n + Grace)
  PROVE  \/ /\ DueOf(b) = {}
            /\ \A i \in DOMAIN b.pending : b.pending[i].due >= n + 1
         \/ /\ DueOf(b) = {1} /\ 1 \in DOMAIN b.pending /\ b.pending[1].due = n
            /\ \A i \in DOMAIN b.pending : i # 1 => b.pending[i].due >= n + 1
<1> DEFINE p == b.pending
           m == Len(p)
<1>1. /\ m \in Nat /\ DOMAIN p = 1 .. m /\ QueuedUp(p, n, n + Grace)
      /\ \A i \in 1 .. m : p[i].due \in Nat
  BY PendingShape DEF PassesFit
<1> HIDE DEF p, m
<1>2. DueOf(b) = { i \in 1 .. m : \A j \in 1 .. i : p[j].due <= n }
  BY <1>1 DEF DueOf, p
<1>3. ASSUME NEW i \in 1 .. m, i # 1
      PROVE  p[i].due >= n + 1
  <2>1. 1 \in 1 .. m /\ 1 < i
    BY <1>1, <1>3
  <2>2. PICK a \in Nat : a = p[1].due
    BY <1>1, <2>1
  <2>3. PICK z \in Nat : z = p[i].due
    BY <1>1
  <2>4. a < z /\ a >= n
    BY <1>1, <2>1, <2>2, <2>3 DEF QueuedUp
  <2> QED
    BY <2>3, <2>4
<1>4. ASSUME NEW i \in DueOf(b)
      PROVE  i = 1 /\ 1 \in 1 .. m /\ p[1].due = n
  <2>1. i \in 1 .. m /\ \A j \in 1 .. i : p[j].due <= n
    BY <1>2
  <2>2. i \in 1 .. i /\ 1 \in 1 .. i /\ 1 \in 1 .. m
    BY <1>1, <2>1
  <2>3. PICK z \in Nat : z = p[i].due
    BY <1>1, <2>1
  <2>4. z <= n
    BY <2>1, <2>2, <2>3
  <2>5. i = 1
    BY <1>3, <2>1, <2>3, <2>4
  <2>6. z >= n
    BY <1>1, <2>1, <2>3 DEF QueuedUp
  <2> QED
    BY <2>2, <2>3, <2>4, <2>5, <2>6
<1>5. CASE DueOf(b) = {}
  <2>1. ASSUME 1 \in 1 .. m
        PROVE  p[1].due >= n + 1
    <3>1. ~ \A j \in 1 .. 1 : p[j].due <= n
      BY <1>2, <1>5, <2>1
    <3>2. PICK z \in Nat : z = p[1].due
      BY <1>1, <2>1
    <3>3. \A j \in 1 .. 1 : j = 1
      OBVIOUS
    <3> QED
      BY <3>1, <3>2, <3>3
  <2> QED
    BY <1>1, <1>3, <1>5, <2>1 DEF p
<1>6. CASE DueOf(b) # {}
  <2>1. DueOf(b) = {1} /\ 1 \in 1 .. m /\ p[1].due = n
    BY <1>4, <1>6
  <2> QED
    BY <1>1, <1>3, <2>1 DEF p
<1> QED
  BY <1>5, <1>6

LEMMA TailShape ==
  ASSUME NEW S, NEW s \in Seq(S), 1 \in DOMAIN s
  PROVE  /\ SubSeq(s, 2, Len(s)) \in Seq(S)
         /\ Len(SubSeq(s, 2, Len(s))) = Len(s) - 1
         /\ \A i \in 1 .. (Len(s) - 1) : SubSeq(s, 2, Len(s))[i] = s[i + 1]
<1>1. PICK n \in Nat : n = Len(s) /\ DOMAIN s = 1 .. n
  BY SequenceShape
<1>2. n >= 1 /\ n \in Int /\ 2 \in Int /\ \A i \in 2 .. n : s[i] \in S
  BY <1>1
<1>3. /\ SubSeq(s, 2, n) \in Seq(S)
      /\ Len(SubSeq(s, 2, n)) = IF 2 <= n THEN n - 2 + 1 ELSE 0
      /\ \A i \in 1 .. n - 2 + 1 : SubSeq(s, 2, n)[i] = s[2 + i - 1]
  BY <1>2, SubSeqProperties
<1>4. (IF 2 <= n THEN n - 2 + 1 ELSE 0) = n - 1
  BY <1>2
<1>5. ASSUME NEW i \in 1 .. (n - 1)
      PROVE  SubSeq(s, 2, n)[i] = s[i + 1]
  <2>1. i \in 1 .. n - 2 + 1 /\ 2 + i - 1 = i + 1
    BY <1>1
  <2> QED
    BY <1>3, <2>1
<1> QED
  BY <1>1, <1>3, <1>4, <1>5

(* Nothing is due: the frame says nothing.                                 *)
LEMMA NoneDue ==
  ASSUME NEW b \in BenchRec, DueOf(b) = {}
  PROVE  /\ Verdicts(b).pending = b.pending /\ Verdicts(b).live_segs = b.live_segs
         /\ Verdicts(b) \in BenchRec /\ Verdicts(b).decoded = b.decoded
         /\ Verdicts(b).open_id = b.open_id /\ Verdicts(b).seg_count = b.seg_count
         /\ Verdicts(b).frame_idx = b.frame_idx /\ Verdicts(b).track_misses = b.track_misses
         /\ Verdicts(b).passes = b.passes /\ Verdicts(b).reads = b.reads
         /\ Verdicts(b).misses = b.misses /\ Verdicts(b).rejected = b.rejected
<1>1. IdsAt(b, DueOf(b)) = {} /\ Cardinality(DueOf(b)) = 0
  BY FS_EmptySet DEF IdsAt
<1>2. SubSeq(b.pending, 1, Len(b.pending)) = b.pending
  BY SubSeqFull DEF BenchRec
<1>3. \A v : Cardinality({ id \in {} \cap b.live_segs : Verdict(b, id) = v }) = 0
  <2>1. \A v : { id \in {} \cap b.live_segs : Verdict(b, id) = v } = {}
    OBVIOUS
  <2> QED
    BY <2>1, FS_EmptySet
<1> DEFINE f == [ b EXCEPT !.live_segs = @ \ ({} \cap b.live_segs),
                           !.decoded = @ \ ({} \cap b.live_segs),
                           !.long = @ \ ({} \cap b.live_segs), !.rejected = @ + 0,
                           !.passes = @ + 0 + 0, !.reads = @ + 0, !.misses = @ + 0 ]
<1>4. Finalize(b, {}) = f
  BY <1>3 DEF Finalize
<1>5. f = b
  <2>1. /\ b.live_segs \ ({} \cap b.live_segs) = b.live_segs
        /\ b.decoded \ ({} \cap b.live_segs) = b.decoded
        /\ b.long \ ({} \cap b.live_segs) = b.long
    OBVIOUS
  <2>2. /\ b.rejected + 0 = b.rejected /\ b.passes + 0 + 0 = b.passes
        /\ b.reads + 0 = b.reads /\ b.misses + 0 = b.misses
    BY DEF BenchRec
  <2>3. f = [ b EXCEPT !.live_segs = b.live_segs, !.decoded = b.decoded, !.long = b.long,
                       !.rejected = b.rejected, !.passes = b.passes, !.reads = b.reads,
                       !.misses = b.misses ]
    BY <2>1, <2>2
  <2> HIDE DEF f
  <2> QED
    BY <2>3 DEF BenchRec
<1>6. Verdicts(b) = [ f EXCEPT !.pending = SubSeq(@, 0 + 1, Len(@)) ]
  BY <1>1, <1>4 DEF Verdicts
<1>7. Verdicts(b) = [ b EXCEPT !.pending = SubSeq(b.pending, 1, Len(b.pending)) ]
  <2> HIDE DEF f
  <2> QED
    BY <1>5, <1>6
<1>8. Verdicts(b) = b
  BY <1>2, <1>7 DEF BenchRec
<1> QED
  BY <1>8

(* The first is due: it is judged, and the rest moves up.                  *)
LEMMA FirstIsDue ==
  ASSUME NEW b \in BenchRec, DueOf(b) = {1}, 1 \in DOMAIN b.pending,
         NEW x, x = b.pending[1].id, x \in b.live_segs,
         NEW word, word = Verdict(b, x)
  PROVE  /\ Verdicts(b) \in BenchRec
         /\ Verdicts(b).pending = SubSeq(b.pending, 2, Len(b.pending))
         /\ Verdicts(b).live_segs = b.live_segs \ {x} /\ Verdicts(b).decoded = b.decoded \ {x}
         /\ Verdicts(b).open_id = b.open_id /\ Verdicts(b).seg_count = b.seg_count
         /\ Verdicts(b).frame_idx = b.frame_idx /\ Verdicts(b).track_misses = b.track_misses
         /\ Verdicts(b).passes = b.passes + (IF word \in {"read", "miss"} THEN 1 ELSE 0)
         /\ Verdicts(b).reads = b.reads + (IF word \in {"read"} THEN 1 ELSE 0)
         /\ Verdicts(b).misses = b.misses + (IF word \in {"miss"} THEN 1 ELSE 0)
         /\ Verdicts(b).rejected = b.rejected + (IF word \in {"rejected"} THEN 1 ELSE 0)
<1> DEFINE said(v) == Cardinality({ id \in {x} : Verdict(b, id) = v })
           s == SubSeq(b.pending, 2, Len(b.pending))
<1>1. IdsAt(b, DueOf(b)) = {x} /\ Cardinality(DueOf(b)) = 1 /\ {x} \cap b.live_segs = {x}
  <2>1. Cardinality({1}) = 1
    BY FS_Singleton
  <2>2. IdsAt(b, {1}) = {x}
    BY DEF IdsAt
  <2> QED
    BY <2>1, <2>2
<1>2. ASSUME NEW v
      PROVE  said(v) = IF word = v THEN 1 ELSE 0
  <2>1. { id \in {x} : Verdict(b, id) = v } = { id \in {x} : word = v }
    OBVIOUS
  <2> QED
    BY <2>1, CountOfOne
<1>3. PICK r \in Nat : r = b.rejected + said("rejected")
                      /\ r = b.rejected + (IF word \in {"rejected"} THEN 1 ELSE 0)
  <2>1. b.rejected \in Nat /\ said("rejected") = (IF word = "rejected" THEN 1 ELSE 0)
    BY <1>2 DEF BenchRec
  <2> HIDE DEF said
  <2> QED
    BY <2>1, CountsTheWord
<1>4. PICK a \in Nat : a = b.passes + said("read") + said("miss")
                      /\ a = b.passes + (IF word \in {"read", "miss"} THEN 1 ELSE 0)
  <2>1. b.passes \in Nat
    BY DEF BenchRec
  <2>2. said("read") = (IF word = "read" THEN 1 ELSE 0) /\ said("miss") = (IF word = "miss" THEN 1 ELSE 0)
    BY <1>2
  <2> HIDE DEF said
  <2>3. CASE word = "read"
    BY <2>1, <2>2, <2>3
  <2>4. CASE word = "miss"
    BY <2>1, <2>2, <2>4
  <2>5. CASE word # "read" /\ word # "miss"
    BY <2>1, <2>2, <2>5
  <2> QED
    BY <2>3, <2>4, <2>5
<1>5. PICK d \in Nat : d = b.reads + said("read")
                      /\ d = b.reads + (IF word \in {"read"} THEN 1 ELSE 0)
  <2>1. b.reads \in Nat /\ said("read") = (IF word = "read" THEN 1 ELSE 0)
    BY <1>2 DEF BenchRec
  <2> HIDE DEF said
  <2> QED
    BY <2>1, CountsTheWord
<1>6. PICK m \in Nat : m = b.misses + said("miss")
                      /\ m = b.misses + (IF word \in {"miss"} THEN 1 ELSE 0)
  <2>1. b.misses \in Nat /\ said("miss") = (IF word = "miss" THEN 1 ELSE 0)
    BY <1>2 DEF BenchRec
  <2> HIDE DEF said
  <2> QED
    BY <2>1, CountsTheWord
<1>7. Finalize(b, {x}) =
        [ b EXCEPT !.live_segs = @ \ {x}, !.decoded = @ \ {x}, !.long = @ \ {x},
                   !.rejected = r, !.passes = a, !.reads = d, !.misses = m ]
  BY <1>1, <1>3, <1>4, <1>5, <1>6 DEF Finalize
<1>8. Verdicts(b) = [ Finalize(b, {x}) EXCEPT !.pending = SubSeq(@, 1 + 1, Len(@)) ]
  BY <1>1 DEF Verdicts
<1>9. s \in Seq(DeadlineRec)
  BY TailShape DEF BenchRec
<1>10. PICK L \in SUBSET Nat, D \in SUBSET Nat, G \in SUBSET Nat :
         L = b.live_segs \ {x} /\ D = b.decoded \ {x} /\ G = b.long \ {x}
  BY DEF BenchRec
<1> DEFINE F == Finalize(b, {x})
<1>f. F = [ b EXCEPT !.live_segs = L, !.decoded = D, !.long = G, !.rejected = r,
                     !.passes = a, !.reads = d, !.misses = m ]
  BY <1>7, <1>10
<1> HIDE DEF s, said, F
<1>g. /\ F \in BenchRec /\ F.pending = b.pending /\ F.live_segs = L /\ F.decoded = D
      /\ F.open_id = b.open_id /\ F.seg_count = b.seg_count
      /\ F.frame_idx = b.frame_idx /\ F.track_misses = b.track_misses
      /\ F.passes = a /\ F.reads = d /\ F.misses = m /\ F.rejected = r
  BY <1>f DEF BenchRec
<1>h. Verdicts(b) = [ F EXCEPT !.pending = s ]
  <2>1. Verdicts(b) = [ F EXCEPT !.pending = SubSeq(F.pending, 1 + 1, Len(F.pending)) ]
    BY <1>8 DEF F
  <2>2. 1 + 1 = 2
    OBVIOUS
  <2>3. SubSeq(F.pending, 1 + 1, Len(F.pending)) = s
    BY <1>g, <2>2 DEF s
  <2> QED
    BY <2>1, <2>3
<1>11. /\ Verdicts(b) \in BenchRec /\ Verdicts(b).pending = s
       /\ Verdicts(b).live_segs = L /\ Verdicts(b).decoded = D
       /\ Verdicts(b).open_id = b.open_id /\ Verdicts(b).seg_count = b.seg_count
       /\ Verdicts(b).frame_idx = b.frame_idx /\ Verdicts(b).track_misses = b.track_misses
       /\ Verdicts(b).passes = a /\ Verdicts(b).reads = d /\ Verdicts(b).misses = m
       /\ Verdicts(b).rejected = r
  BY <1>9, <1>g, <1>h DEF BenchRec
<1> QED
  BY <1>3, <1>4, <1>5, <1>6, <1>10, <1>11 DEF s

(* The verdicts of one frame: at most one pass is judged, in time.         *)
LEMMA VerdictsKeepPasses ==
  ASSUME NEW b, NEW n \in Nat, b.frame_idx = n, PassesFit(b, n, n + Grace),
         NEW vs, VerdictsFit(b, vs)
  PROVE  /\ PassesFit(Verdicts(b), n + 1, n + Grace)
         /\ VerdictsFit(Verdicts(b), vs \cup Judged(b, b.live_segs \ Verdicts(b).live_segs))
         /\ Verdicts(b).frame_idx = n /\ Verdicts(b).track_misses = b.track_misses
<1> DEFINE c == Verdicts(b)
           p == b.pending
<1>0. /\ b \in BenchRec /\ QueuedUp(p, n, n + Grace)
      /\ b.live_segs = IdsAt(b, DOMAIN p) \cup ({b.open_id} \ {NoPass})
      /\ b.open_id \notin IdsAt(b, DOMAIN p) /\ b.decoded \subseteq b.live_segs
      /\ \A id \in b.live_segs : id >= 1 /\ id <= b.seg_count
  BY DEF PassesFit
<1>1. /\ p \in Seq(DeadlineRec) /\ Len(p) \in Nat /\ DOMAIN p = 1 .. Len(p)
      /\ \A i \in DOMAIN p : p[i].due \in Nat /\ p[i].id \in Nat /\ i \in Nat /\ i >= 1
  BY <1>0, PendingShape
<1>2. CASE DueOf(b) = {}
  <2>1. /\ c.pending = p /\ c.live_segs = b.live_segs /\ c \in BenchRec
        /\ c.decoded = b.decoded /\ c.open_id = b.open_id /\ c.seg_count = b.seg_count
        /\ c.frame_idx = n /\ c.track_misses = b.track_misses
        /\ c.passes = b.passes /\ c.reads = b.reads
        /\ c.misses = b.misses /\ c.rejected = b.rejected
    BY <1>0, <1>2, NoneDue
  <2> HIDE DEF c
  <2>2. \A i \in DOMAIN p : p[i].due >= n + 1
    <3>1. DueOf(b) # {1}
      BY <1>2
    <3> QED
      BY <3>1, DueIsFirst
  <2>3. QueuedUp(p, n + 1, n + Grace)
    BY <1>0, <2>2 DEF QueuedUp
  <2>4. IdsAt(c, DOMAIN p) = IdsAt(b, DOMAIN p)
    BY <2>1 DEF IdsAt
  <2>5. PassesFit(c, n + 1, n + Grace)
    BY <1>0, <2>1, <2>3, <2>4 DEF PassesFit
  <2>6. VerdictsFit(c, vs)
    BY <1>0, <2>1, VerdictsStay
  <2>7. Judged(b, b.live_segs \ c.live_segs) = {}
    BY <2>1 DEF Judged
  <2> QED
    BY <2>1, <2>5, <2>6, <2>7 DEF c
<1>3. CASE DueOf(b) = {1}
  <2>1. /\ 1 \in DOMAIN p /\ p[1].due = n
        /\ \A i \in DOMAIN p : i # 1 => p[i].due >= n + 1
    <3>1. DueOf(b) # {}
      BY <1>3
    <3> QED
      BY <3>1, DueIsFirst
  <2> DEFINE x == p[1].id
             word == Verdict(b, x)
             s == SubSeq(p, 2, Len(p))
             v == [id |-> x, said |-> word, early |-> Early(b, x)]
  <2>2. x \in IdsAt(b, DOMAIN p) /\ x \in b.live_segs
    BY <1>0, <2>1 DEF IdsAt
  <2>3. /\ c \in BenchRec /\ c.pending = s
        /\ c.live_segs = b.live_segs \ {x} /\ c.decoded = b.decoded \ {x}
        /\ c.open_id = b.open_id /\ c.seg_count = b.seg_count
        /\ c.frame_idx = n /\ c.track_misses = b.track_misses
        /\ c.passes = b.passes + (IF word \in {"read", "miss"} THEN 1 ELSE 0)
        /\ c.reads = b.reads + (IF word \in {"read"} THEN 1 ELSE 0)
        /\ c.misses = b.misses + (IF word \in {"miss"} THEN 1 ELSE 0)
        /\ c.rejected = b.rejected + (IF word \in {"rejected"} THEN 1 ELSE 0)
    <3> HIDE DEF x, word
    <3>1. x = b.pending[1].id /\ word = Verdict(b, x)
      BY DEF x, word
    <3> QED
      BY <1>0, <1>3, <2>1, <2>2, <3>1, FirstIsDue
  <2> HIDE DEF c
  <2>4. PICK m \in Nat : m = Len(p) /\ m >= 1 /\ DOMAIN p = 1 .. m
    BY <1>1, <2>1
  <2>5. /\ s \in Seq(DeadlineRec) /\ Len(s) = m - 1 /\ DOMAIN s = 1 .. (m - 1)
        /\ \A i \in 1 .. (m - 1) : s[i] = p[i + 1]
    <3>1. s \in Seq(DeadlineRec) /\ Len(s) = m - 1 /\ \A i \in 1 .. (m - 1) : s[i] = p[i + 1]
      BY <1>1, <2>1, <2>4, TailShape
    <3> HIDE DEF s
    <3> QED
      BY <3>1, SequenceShape
  <2> HIDE DEF s, p
  <2>6. \A i \in 1 .. (m - 1) : i + 1 \in 1 .. m /\ i + 1 # 1
    BY <2>4
  <2>7. QueuedUp(s, n + 1, n + Grace)
    <3>1. ASSUME NEW i \in 1 .. (m - 1)
          PROVE  s[i].due >= n + 1 /\ s[i].due <= n + Grace
      BY <1>0, <2>1, <2>4, <2>5, <2>6 DEF QueuedUp
    <3>2. ASSUME NEW i \in 1 .. (m - 1), NEW j \in 1 .. (m - 1), i < j
          PROVE  s[i].due < s[j].due /\ s[i].id # s[j].id
      <4>1. PICK k \in 1 .. m, l \in 1 .. m : k = i + 1 /\ l = j + 1
        BY <2>6
      <4>2. k < l
        BY <3>2, <4>1
      <4>3. s[i] = p[k] /\ s[j] = p[l]
        BY <2>5, <4>1
      <4> QED
        BY <1>0, <2>4, <4>2, <4>3 DEF QueuedUp
    <3> QED
      BY <2>5, <3>1, <3>2 DEF QueuedUp
  <2>8. \A i \in 1 .. m : i # 1 => p[i].id # x
    <3>1. ASSUME NEW i \in 1 .. m, i # 1
          PROVE  p[i].id # p[1].id
      <4>1. 1 \in 1 .. m /\ 1 < i
        BY <2>4, <3>1
      <4> QED
        BY <1>0, <2>4, <4>1 DEF QueuedUp
    <3> QED
      BY <3>1
  <2>9. IdsAt(c, DOMAIN c.pending) = IdsAt(b, DOMAIN p) \ {x}
    <3>1. ASSUME NEW i \in 1 .. (m - 1)
          PROVE  s[i].id \in IdsAt(b, DOMAIN p) \ {x}
      <4>1. PICK k \in 1 .. m : k = i + 1 /\ k # 1
        BY <2>6
      <4>2. s[i].id = p[k].id /\ p[k].id # x
        BY <2>5, <2>8, <4>1
      <4> QED
        BY <2>4, <4>2 DEF IdsAt, p
    <3>2. ASSUME NEW k \in 1 .. m, p[k].id # x
          PROVE  \E i \in 1 .. (m - 1) : s[i].id = p[k].id
      <4>1. k # 1
        BY <3>2
      <4>2. k - 1 \in 1 .. (m - 1) /\ (k - 1) + 1 = k
        BY <2>4, <4>1
      <4>3. s[k - 1] = p[(k - 1) + 1]
        BY <2>5, <4>2
      <4> QED
        BY <4>2, <4>3
    <3>3. IdsAt(c, DOMAIN c.pending) = { s[i].id : i \in 1 .. (m - 1) }
      BY <2>3, <2>5 DEF IdsAt
    <3>4. IdsAt(b, DOMAIN p) = { p[k].id : k \in 1 .. m }
      BY <2>4 DEF IdsAt, p
    <3> HIDE DEF x
    <3> QED
      BY <3>1, <3>2, <3>3, <3>4
  <2>10. PassesFit(c, n + 1, n + Grace)
    <3>1. x # b.open_id
      BY <1>0, <2>2
    <3> HIDE DEF x, word
    <3> QED
      BY <1>0, <2>3, <2>7, <2>9, <3>1 DEF PassesFit
  <2>11. v \in VerdictRec /\ ~ v.early /\ v.id = x /\ v.said = word
    <3>1. ASSUME NEW i \in DOMAIN p, p[i].id = x, p[i].due > n
          PROVE  FALSE
      <4>1. i = 1
        BY <2>4, <2>8, <3>1
      <4> QED
        BY <2>1, <3>1, <4>1
    <3>2. ~ Early(b, x) /\ Early(b, x) \in BOOLEAN
      BY <3>1 DEF Early, p
    <3>3. word \in {"read", "miss", "rejected"} /\ x \in Nat
      BY <1>1, <2>1 DEF Verdict
    <3> HIDE DEF x, word
    <3> QED
      BY <3>2, <3>3 DEF VerdictRec
  <2>12. Judged(b, b.live_segs \ c.live_segs) = {v}
    <3>1. b.live_segs \ c.live_segs = {x}
      BY <2>2, <2>3
    <3> QED
      BY <3>1 DEF Judged
  <2> HIDE DEF x, word, v
  <2>13. v \notin vs /\ \A w \in vs : w.id # x
    BY <2>2, <2>11 DEF VerdictsFit
  <2>14. VerdictsFit(c, vs \cup {v})
    <3>1. IsFiniteSet(vs \cup {v}) /\ vs \cup {v} \subseteq VerdictRec
      BY <2>11, FS_AddElement DEF VerdictsFit
    <3>2. \A w \in vs \cup {v} : ~ w.early /\ w.id <= c.seg_count /\ w.id \notin c.live_segs
      BY <1>0, <2>2, <2>3, <2>11 DEF VerdictsFit
    <3>3. \A w, u \in vs \cup {v} : w.id = u.id => w = u
      BY <2>11, <2>13 DEF VerdictsFit
    <3>4. ASSUME NEW words
          PROVE  SaidOf(vs \cup {v}, words) = SaidOf(vs, words) + (IF word \in words THEN 1 ELSE 0)
      <4>1. IsFiniteSet(vs) /\ v.said = word
        BY <2>11 DEF VerdictsFit
      <4>2. SaidOf(vs \cup {v}, words) = SaidOf(vs, words) + (IF v.said \in words THEN 1 ELSE 0)
        BY <2>13, <4>1, OneMoreVerdict
      <4> QED
        BY <4>1, <4>2, Zenon
    <3>5. /\ c.passes = SaidOf(vs \cup {v}, {"read", "miss"})
          /\ c.reads = SaidOf(vs \cup {v}, {"read"})
          /\ c.misses = SaidOf(vs \cup {v}, {"miss"})
          /\ c.rejected = SaidOf(vs \cup {v}, {"rejected"})
      <4>1. /\ b.passes = SaidOf(vs, {"read", "miss"}) /\ b.reads = SaidOf(vs, {"read"})
            /\ b.misses = SaidOf(vs, {"miss"}) /\ b.rejected = SaidOf(vs, {"rejected"})
        BY DEF VerdictsFit
      <4> QED
        BY <2>3, <3>4, <4>1, Zenon
    <3> QED
      BY <3>1, <3>2, <3>3, <3>4, <3>5 DEF VerdictsFit
  <2> QED
    BY <2>3, <2>10, <2>12, <2>14 DEF c
<1> QED
  BY <1>2, <1>3, DueIsFirst

(* The item that goes with a frame touches nothing else.                   *)
LEMMA EnqueueKeepsPasses ==
  ASSUME NEW b, NEW first, NEW last, PassesFit(b, first, last),
         NEW vs, VerdictsFit(b, vs), NEW moving \in BOOLEAN
  PROVE  /\ PassesFit(Enqueue(b, moving), first, last) /\ VerdictsFit(Enqueue(b, moving), vs)
         /\ Enqueue(b, moving).frame_idx = b.frame_idx
         /\ Enqueue(b, moving).track_misses = b.track_misses
         /\ Enqueue(b, moving).live_segs = b.live_segs
<1> DEFINE q == Append(IF Len(b.frame_q) < QueueSize THEN b.frame_q ELSE Tail(b.frame_q), b.open_id)
           c == [ b EXCEPT !.frame_q = q ]
<1>1. b \in BenchRec
  BY DEF PassesFit
<1>2. q \in Seq(Nat)
  <2>1. b.frame_q \in Seq(Nat) /\ b.open_id \in Nat /\ Len(b.frame_q) \in Nat
    BY <1>1 DEF BenchRec
  <2>2. ASSUME ~ (Len(b.frame_q) < QueueSize)
        PROVE  Tail(b.frame_q) \in Seq(Nat)
    <3>1. Len(b.frame_q) # 0
      BY <2>1, <2>2, BenchAssumption
    <3>2. b.frame_q # <<>>
      BY <3>1
    <3> QED
      BY <2>1, <3>2
  <2> QED
    BY <2>1, <2>2
<1>3. Enqueue(b, moving) = b \/ Enqueue(b, moving) = c
  BY DEF Enqueue
<1> HIDE DEF q
<1>4. /\ c \in BenchRec /\ c.pending = b.pending /\ c.live_segs = b.live_segs
      /\ c.open_id = b.open_id /\ c.decoded = b.decoded /\ c.seg_count = b.seg_count
      /\ c.frame_idx = b.frame_idx /\ c.track_misses = b.track_misses
      /\ c.passes = b.passes /\ c.reads = b.reads /\ c.misses = b.misses
      /\ c.rejected = b.rejected
  BY <1>1, <1>2 DEF BenchRec
<1> HIDE DEF c
<1>5. PassesFit(c, first, last)
  BY <1>4 DEF PassesFit, IdsAt
<1>6. VerdictsFit(c, vs)
  BY <1>1, <1>4, VerdictsStay
<1> QED
  BY <1>3, <1>4, <1>5, <1>6

LEMMA InitBenchInv == BenchInit => BenchInv
<1> SUFFICES ASSUME BenchInit PROVE BenchInv
  OBVIOUS
<1>1. <<>> \in Seq(DeadlineRec) /\ <<>> \in Seq(Nat) /\ DOMAIN <<>> = {}
  OBVIOUS
<1>2. bench \in BenchRec /\ bench.pending = <<>> /\ bench.live_segs = {}
      /\ bench.open_id = 0 /\ bench.decoded = {}
  BY <1>1 DEF BenchInit, BenchRec, NoPass
<1>3. IdsAt(bench, DOMAIN bench.pending) = {}
  BY <1>1, <1>2 DEF IdsAt
<1>4. PassesFit(bench, bench.frame_idx + 1, bench.frame_idx + Grace)
  BY <1>1, <1>2, <1>3 DEF PassesFit, QueuedUp, NoPass
<1>5. \A words : SaidOf({}, words) = 0
  <2>1. \A words : { v \in {} : v.said \in words } = {}
    OBVIOUS
  <2> QED
    BY <2>1, FS_EmptySet DEF SaidOf
<1>6. VerdictsFit(bench, verdicts)
  BY <1>5, FS_EmptySet DEF BenchInit, VerdictsFit
<1> QED
  BY <1>2, <1>4, <1>6 DEF BenchInv

LEMMA CaptureKeepsBench ==
  ASSUME BenchInv, CaptureFrame
  PROVE  BenchInv'
<1> DEFINE n == bench.frame_idx
           next == [ bench EXCEPT !.frame_idx = @ + 1 ]
<1>0. /\ bench \in BenchRec /\ n \in Nat /\ PassesFit(bench, n + 1, n + Grace)
      /\ VerdictsFit(bench, verdicts) /\ (~ bench.track_misses => bench.live_segs = {})
  BY DEF BenchInv, PassesFit, BenchRec
<1>1. PICK moving \in BOOLEAN :
        LET tracked == IF ~ next.track_misses THEN next
                       ELSE IF moving THEN Moves(next) ELSE Rests(next)
            judged  == IF next.track_misses THEN Verdicts(tracked) ELSE tracked
        IN  /\ bench' = Enqueue(judged, moving)
            /\ verdicts' = verdicts \cup Judged(tracked, tracked.live_segs \ judged.live_segs)
  BY DEF CaptureFrame
<1> DEFINE tracked == IF ~ next.track_misses THEN next
                      ELSE IF moving THEN Moves(next) ELSE Rests(next)
           judged  == IF next.track_misses THEN Verdicts(tracked) ELSE tracked
<1>2. PICK k \in Nat : k = n + 1 /\ k - 1 = n
  BY <1>0
<1>3. /\ next \in BenchRec /\ next.frame_idx = k /\ next.pending = bench.pending
      /\ next.live_segs = bench.live_segs /\ next.open_id = bench.open_id
      /\ next.decoded = bench.decoded /\ next.seg_count = bench.seg_count
      /\ next.track_misses = bench.track_misses
      /\ next.passes = bench.passes /\ next.reads = bench.reads
      /\ next.misses = bench.misses /\ next.rejected = bench.rejected
  <2>1. next = [ bench EXCEPT !.frame_idx = k ]
    BY <1>2
  <2> HIDE DEF next
  <2> QED
    BY <1>0, <2>1 DEF BenchRec
<1> HIDE DEF next
<1>4. PassesFit(next, k, k - 1 + Grace) /\ VerdictsFit(next, verdicts)
  <2>1. VerdictsFit(next, verdicts)
    BY <1>0, <1>3, VerdictsStay
  <2>2. k - 1 + Grace = n + Grace
    BY <1>2
  <2> QED
    BY <1>0, <1>2, <1>3, <2>1, <2>2 DEF PassesFit, IdsAt
<1>5. CASE ~ next.track_misses
  <2>1. bench' = Enqueue(next, moving) /\ verdicts' = verdicts \cup Judged(next, {})
    BY <1>1, <1>5
  <2>2. Judged(next, {}) = {}
    BY DEF Judged
  <2>3. next.live_segs = {}
    BY <1>0, <1>3, <1>5
  <2>4. DOMAIN next.pending = {}
    <3>1. \A i \in DOMAIN next.pending : next.pending[i].id \in next.live_segs
      BY <1>4 DEF PassesFit, IdsAt
    <3> QED
      BY <2>3, <3>1
  <2>5. PassesFit(next, k + 1, k + Grace)
    BY <1>4, <2>4 DEF PassesFit, QueuedUp
  <2>6. /\ PassesFit(bench', k + 1, k + Grace) /\ VerdictsFit(bench', verdicts')
        /\ bench'.frame_idx = k /\ bench'.live_segs = {}
    BY <1>3, <1>4, <2>1, <2>2, <2>3, <2>5, EnqueueKeepsPasses
  <2> QED
    BY <2>6 DEF BenchInv, PassesFit, VerdictsFit, QueuedUp, IdsAt, SaidOf
<1>6. CASE next.track_misses
  <2>1. /\ PassesFit(tracked, k, k + Grace) /\ VerdictsFit(tracked, verdicts)
        /\ tracked.frame_idx = k /\ tracked.track_misses
    <3>1. CASE moving
      <4>1. tracked = Moves(next)
        BY <1>6, <3>1
      <4>2. /\ PassesFit(Moves(next), k, k - 1 + Grace) /\ VerdictsFit(Moves(next), verdicts)
            /\ Moves(next).frame_idx = k /\ Moves(next).track_misses
        BY <1>3, <1>4, <1>6, MovesKeepsPasses
      <4>3. ASSUME NEW i \in DOMAIN Moves(next).pending
            PROVE  Moves(next).pending[i].due <= k + Grace
        <5>1. PICK due \in Nat : due = Moves(next).pending[i].due
          BY <4>2, PendingShape DEF PassesFit
        <5>2. due <= k - 1 + Grace
          BY <4>2, <5>1 DEF PassesFit, QueuedUp
        <5> QED
          BY <5>1, <5>2, BenchAssumption
      <4>4. PassesFit(Moves(next), k, k + Grace)
        BY <4>2, <4>3 DEF PassesFit, QueuedUp
      <4> QED
        BY <4>1, <4>2, <4>4
    <3>2. CASE ~ moving
      <4>1. tracked = Rests(next)
        BY <1>6, <3>2
      <4> QED
        BY <1>3, <1>4, <1>6, <4>1, RestsKeepsPasses
    <3> QED
      BY <3>1, <3>2
  <2> HIDE DEF tracked
  <2> DEFINE c == Verdicts(tracked)
             vs == verdicts \cup Judged(tracked, tracked.live_segs \ c.live_segs)
  <2>2. bench' = Enqueue(c, moving) /\ verdicts' = vs
    BY <1>1, <1>6 DEF tracked
  <2>3. /\ PassesFit(c, k + 1, k + Grace) /\ VerdictsFit(c, vs)
        /\ c.frame_idx = k /\ c.track_misses
    BY <2>1, VerdictsKeepPasses
  <2> HIDE DEF c, vs
  <2>4. /\ PassesFit(bench', k + 1, k + Grace) /\ VerdictsFit(bench', verdicts')
        /\ bench'.frame_idx = k /\ bench'.track_misses
    BY <2>2, <2>3, EnqueueKeepsPasses
  <2> QED
    BY <2>4 DEF BenchInv, PassesFit, VerdictsFit, QueuedUp, IdsAt, SaidOf
<1> QED
  BY <1>5, <1>6

(* Steps that change neither the queue of passes nor the verdicts.         *)
LEMMA QuietStepKeepsBench ==
  ASSUME BenchInv, bench' \in BenchRec, verdicts' = verdicts,
         bench'.pending = bench.pending, bench'.live_segs = bench.live_segs,
         bench'.open_id = bench.open_id, bench'.seg_count = bench.seg_count,
         bench'.frame_idx = bench.frame_idx, bench'.track_misses = bench.track_misses,
         bench'.decoded \subseteq bench.live_segs,
         bench'.passes = bench.passes, bench'.reads = bench.reads,
         bench'.misses = bench.misses, bench'.rejected = bench.rejected
  PROVE  BenchInv'
<1>1. IdsAt(bench', DOMAIN bench'.pending) = IdsAt(bench, DOMAIN bench.pending)
  BY DEF IdsAt
<1>2. PassesFit(bench', bench.frame_idx + 1, bench.frame_idx + Grace)
  BY <1>1 DEF BenchInv, PassesFit
<1>3. VerdictsFit(bench', verdicts')
  BY DEF BenchInv, VerdictsFit
<1> QED
  BY <1>2, <1>3 DEF BenchInv, PassesFit, VerdictsFit, QueuedUp, IdsAt, SaidOf

LEMMA CommandKeepsBench ==
  ASSUME BenchInv, RunCommand
  PROVE  BenchInv'
<1>0. bench \in BenchRec /\ VerdictsFit(bench, verdicts)
  BY DEF BenchInv, PassesFit
<1>1. CASE bench' = ToggleMisses(bench) /\ UNCHANGED verdicts
  <2>1. <<>> \in Seq(DeadlineRec) /\ DOMAIN <<>> = {}
    OBVIOUS
  <2>2. /\ bench' \in BenchRec /\ bench'.pending = <<>> /\ bench'.live_segs = {}
        /\ bench'.open_id = NoPass /\ bench'.decoded = {}
        /\ bench'.seg_count = bench.seg_count
        /\ bench'.passes = bench.passes /\ bench'.reads = bench.reads
        /\ bench'.misses = bench.misses /\ bench'.rejected = bench.rejected
    BY <1>0, <1>1, <2>1 DEF ToggleMisses, BenchRec, NoPass
  <2>3. IdsAt(bench', DOMAIN bench'.pending) = {}
    BY <2>1, <2>2 DEF IdsAt
  <2>4. ASSUME NEW first, NEW last
        PROVE  PassesFit(bench', first, last)
    BY <2>1, <2>2, <2>3 DEF PassesFit, QueuedUp
  <2>5. VerdictsFit(bench', verdicts')
    BY <1>0, <1>1, <2>2 DEF VerdictsFit
  <2>6. PassesFit(bench', bench'.frame_idx + 1, bench'.frame_idx + Grace)
    BY <2>4
  <2> QED
    BY <2>2, <2>5, <2>6 DEF BenchInv, PassesFit, VerdictsFit, QueuedUp, IdsAt, SaidOf
<1>2. CASE bench' = ResetRate(bench) /\ verdicts' = {}
  <2>1. /\ bench' \in BenchRec /\ bench'.pending = bench.pending
        /\ bench'.live_segs = bench.live_segs /\ bench'.open_id = bench.open_id
        /\ bench'.decoded = bench.decoded /\ bench'.seg_count = bench.seg_count
        /\ bench'.frame_idx = bench.frame_idx /\ bench'.track_misses = bench.track_misses
        /\ bench'.passes = 0 /\ bench'.reads = 0 /\ bench'.misses = 0 /\ bench'.rejected = 0
    BY <1>0, <1>2 DEF ResetRate, BenchRec
  <2>2. IdsAt(bench', DOMAIN bench'.pending) = IdsAt(bench, DOMAIN bench.pending)
    BY <2>1 DEF IdsAt
  <2>3. PassesFit(bench', bench.frame_idx + 1, bench.frame_idx + Grace)
    BY <2>1, <2>2 DEF BenchInv, PassesFit
  <2>4. \A words : SaidOf({}, words) = 0
    <3>1. \A words : { v \in {} : v.said \in words } = {}
      OBVIOUS
    <3> QED
      BY <3>1, FS_EmptySet DEF SaidOf
  <2>5. VerdictsFit(bench', verdicts')
    BY <1>2, <2>1, <2>4, FS_EmptySet DEF VerdictsFit
  <2> QED
    BY <2>1, <2>3, <2>5 DEF BenchInv, PassesFit, VerdictsFit, QueuedUp, IdsAt, SaidOf
<1> QED
  BY <1>1, <1>2 DEF RunCommand

LEMMA StepBenchInv == BenchInv /\ [BenchNext]_benchVars => BenchInv'
<1> SUFFICES ASSUME BenchInv, [BenchNext]_benchVars PROVE BenchInv'
  OBVIOUS
<1>0. bench \in BenchRec /\ bench.decoded \subseteq bench.live_segs
  BY DEF BenchInv, PassesFit
<1>1. ASSUME NEW w \in Workers, WorkerTakes(w)
      PROVE  BenchInv'
  <2>1. Tail(bench.frame_q) \in Seq(Nat)
    BY <1>0, <1>1 DEF WorkerTakes, BenchRec
  <2>2. bench' = [ bench EXCEPT !.frame_q = Tail(bench.frame_q) ] /\ verdicts' = verdicts
    BY <1>1 DEF WorkerTakes
  <2>3. /\ bench' \in BenchRec /\ bench'.pending = bench.pending
        /\ bench'.live_segs = bench.live_segs /\ bench'.open_id = bench.open_id
        /\ bench'.decoded = bench.decoded /\ bench'.seg_count = bench.seg_count
        /\ bench'.frame_idx = bench.frame_idx /\ bench'.track_misses = bench.track_misses
        /\ bench'.passes = bench.passes /\ bench'.reads = bench.reads
        /\ bench'.misses = bench.misses /\ bench'.rejected = bench.rejected
    <3> DEFINE q == Tail(bench.frame_q)
    <3> HIDE DEF q
    <3>1. q \in Seq(Nat) /\ bench' = [ bench EXCEPT !.frame_q = q ]
      BY <2>1, <2>2 DEF q
    <3> QED
      BY <1>0, <3>1 DEF BenchRec
  <2> QED
    BY <1>0, <2>2, <2>3, QuietStepKeepsBench
<1>2. ASSUME NEW w \in Workers, WorkerAdds(w)
      PROVE  BenchInv'
  <2> DEFINE seg == workers[w].seg
  <2>1. verdicts' = verdicts
    BY <1>2 DEF WorkerAdds
  <2>2. CASE seg \in bench.live_segs
    <3> DEFINE D == bench.decoded \cup {seg}
    <3>1. bench' = [ bench EXCEPT !.decoded = D ]
      BY <1>2, <2>2 DEF WorkerAdds
    <3>2. D \in SUBSET Nat /\ D \subseteq bench.live_segs
      BY <1>0, <2>2 DEF BenchRec
    <3> HIDE DEF D
    <3>3. /\ bench' \in BenchRec /\ bench'.pending = bench.pending
          /\ bench'.live_segs = bench.live_segs /\ bench'.open_id = bench.open_id
          /\ bench'.decoded = D /\ bench'.seg_count = bench.seg_count
          /\ bench'.frame_idx = bench.frame_idx /\ bench'.track_misses = bench.track_misses
          /\ bench'.passes = bench.passes /\ bench'.reads = bench.reads
          /\ bench'.misses = bench.misses /\ bench'.rejected = bench.rejected
      BY <1>0, <3>1, <3>2 DEF BenchRec
    <3> QED
      BY <2>1, <3>2, <3>3, QuietStepKeepsBench
  <2>3. CASE seg \notin bench.live_segs
    <3>1. bench' = bench
      BY <1>2, <2>3 DEF WorkerAdds
    <3> QED
      BY <1>0, <2>1, <3>1, QuietStepKeepsBench
  <2> QED
    BY <2>2, <2>3
<1>3. ASSUME UNCHANGED <<bench, verdicts>>
      PROVE  BenchInv'
  BY <1>0, <1>3, QuietStepKeepsBench
<1>4. ASSUME NEW w \in Workers, WorkerFinds(w)
      PROVE  BenchInv'
  BY <1>3, <1>4 DEF WorkerFinds
<1>5. CASE UNCHANGED benchVars
  BY <1>3, <1>5 DEF benchVars
<1> QED
  BY <1>1, <1>2, <1>4, <1>5, CaptureKeepsBench, CommandKeepsBench DEF BenchNext

(* As many things as there are names for them, all different.              *)
LEMMA CountByName ==
  ASSUME NEW S, IsFiniteSet(S), NEW f, DOMAIN f = S,
         \A x, y \in S : f[x] = f[y] => x = y
  PROVE  Cardinality({ f[x] : x \in S }) = Cardinality(S)
<1> DEFINE T == { f[x] : x \in S }
           g == [ x \in S |-> f[x] ]
<1>1. g \in Bijection(S, T)
  <2>1. g \in [S -> T] /\ \A x \in S : g[x] = f[x]
    OBVIOUS
  <2>2. \A y \in T : \E x \in S : g[x] = y
    OBVIOUS
  <2> HIDE DEF g, T
  <2> QED
    BY <2>1, <2>2, Fun_IsBij
<1>2. ExistsBijection(S, T)
  BY <1>1 DEF ExistsBijection
<1> QED
  BY <1>2, FS_Bijection

(* The passes of the bench are each judged once, in time and by what was   *)
(* read in them, for every length of streak, grace and queue, and however  *)
(* the workers and commands interleave (_capture_loop, _decode_loop,       *)
(* _run_cmd, _finalize).                                                   *)
THEOREM BenchJudges == BenchSpec => []PassesAreJudged
<1>1. BenchInv => PassesAreJudged
  <2> SUFFICES ASSUME BenchInv PROVE PassesAreJudged
    OBVIOUS
  <2> DEFINE p == bench.pending
  <2>0. /\ bench \in BenchRec /\ bench.frame_idx \in Nat
        /\ QueuedUp(p, bench.frame_idx + 1, bench.frame_idx + Grace)
        /\ VerdictsFit(bench, verdicts)
    BY DEF BenchInv, PassesFit, BenchRec
  <2>1. /\ Len(p) \in Nat /\ DOMAIN p = 1 .. Len(p)
        /\ \A i \in DOMAIN p : p[i].due \in Nat /\ i \in Nat
    BY <2>0, PendingShape
  <2>2. Cardinality(Pending) = Len(p)
    <3> DEFINE f == [ i \in DOMAIN p |-> p[i].id ]
    <3>1. \A i, j \in DOMAIN p : f[i] = f[j] => i = j
      <4>1. \A i, j \in DOMAIN p : i < j \/ j < i \/ i = j
        BY <2>1
      <4> QED
        BY <2>0, <4>1 DEF QueuedUp
    <3>2. Pending = { f[i] : i \in DOMAIN p }
      BY DEF Pending, IdsAt
    <3>3. IsFiniteSet(DOMAIN p) /\ Cardinality(DOMAIN p) = Len(p)
      BY <2>1, FS_Interval
    <3> HIDE DEF f, p
    <3>4. DOMAIN f = DOMAIN p
      BY DEF f
    <3> QED
      BY <3>1, <3>2, <3>3, <3>4, CountByName
  <2>3. Cardinality(verdicts) = Cardinality({ v.id : v \in verdicts })
    <3> DEFINE f == [ v \in verdicts |-> v.id ]
    <3>1. DOMAIN f = verdicts /\ \A v, w \in verdicts : f[v] = f[w] => v = w
      BY <2>0 DEF VerdictsFit
    <3>2. { v.id : v \in verdicts } = { f[v] : v \in verdicts }
      OBVIOUS
    <3>3. IsFiniteSet(verdicts)
      BY <2>0 DEF VerdictsFit
    <3> HIDE DEF f
    <3>4. Cardinality({ f[v] : v \in verdicts }) = Cardinality(verdicts)
      BY <3>1, <3>3, CountByName
    <3> QED
      BY <3>2, <3>4
  <2>4. \A i \in DOMAIN p : p[i].due \in (bench.frame_idx + 1) .. (bench.frame_idx + Grace)
    <3> SUFFICES ASSUME NEW i \in DOMAIN p
                 PROVE  p[i].due \in (bench.frame_idx + 1) .. (bench.frame_idx + Grace)
      OBVIOUS
    <3>1. PICK due \in Nat : due = p[i].due
      BY <2>1
    <3>2. due >= bench.frame_idx + 1 /\ due <= bench.frame_idx + Grace
      BY <2>0, <3>1 DEF QueuedUp
    <3> QED
      BY <2>0, <3>1, <3>2, BenchAssumption
  <2>5. \A words : JudgedAs(words) = SaidOf(verdicts, words)
    BY DEF JudgedAs, SaidOf
  <2>6. /\ bench.live_segs = Pending \cup ({bench.open_id} \ {NoPass})
        /\ bench.open_id \notin Pending /\ bench.decoded \subseteq bench.live_segs
    BY DEF BenchInv, PassesFit, Pending
  <2>7. /\ \A v \in verdicts : ~ v.early
        /\ bench.passes = JudgedAs({"read", "miss"}) /\ bench.reads = JudgedAs({"read"})
        /\ bench.misses = JudgedAs({"miss"}) /\ bench.rejected = JudgedAs({"rejected"})
    BY <2>0, <2>5 DEF VerdictsFit
  <2> QED
    BY <2>2, <2>3, <2>4, <2>6, <2>7 DEF PassesAreJudged
<1> QED
  BY InitBenchInv, StepBenchInv, <1>1, PTL DEF BenchSpec

-----------------------------------------------------------------------------
(***************************************************************************)
(* The camera: the stages of the captures, and what the threads that use   *)
(* them hold.                                                              *)
(***************************************************************************)

CameraSafety == Init /\ [][Next]_vars

(* The values of controls; nothing is computed from them.                  *)
ControlValues == BOOLEAN \cup Int

CallRec ==
  [ prop : {"none", "auto_exposure", "exposure"}, value : ControlValues,
    state : {"none", "asked", "unheard", "ok", "rejected"} ]

CaptureRec ==
  [ pc : {"build", "run", "live", "serve", "control", "teardown", "gone"},
    stop : BOOLEAN, opened : BOOLEAN, running : BOOLEAN, frame : {"none", "fresh", "read"},
    ae_auto : ControlValues, cmd_q : Seq(CallRec), hand : CallRec ]

ControlsRec == [ auto : ControlValues, exposure : ControlValues ]

CapturesTyped == captures \in Seq(CaptureRec) /\ controls \in ControlsRec

ThreadsTyped ==
  /\ camera \in [ cap : {NoCapture, Len(captures)}, closed : BOOLEAN ]
  /\ consumer \in
       [ pc : { "construct", "open", "check", "set", "asked", "stream", "reading", "lost",
                "close", "backoff", "reopen", "release", "join", "done" },
         cap : {Len(captures)}, todo : 1 .. 3, failed : BOOLEAN,
         doomed : 0 .. Len(captures), next : {"construct", "backoff", "done"} ]
  /\ stopper \in [ pc : {"idle", "closing", "taking", "release", "join", "done"},
                   doomed : 0 .. Len(captures) ]

WantedTyped == wanted \in [ auto : BOOLEAN, exposure : {1} ]

Starting(c)   == captures[c].pc \in {"build", "run", "live"}
Serving(c) == captures[c].pc \in {"serve", "control"}

(* A graph runs alone; a capture is open while it serves and nobody has    *)
(* stopped it; and until it serves, its opener waits or has stopped it.    *)
OwnersFit ==
  /\ \A c \in CaptureIds :
       /\ captures[c].opened => ~ captures[c].stop /\ Serving(c)
       /\ captures[c].pc = "live" \/ Serving(c) => captures[c].running
       /\ Starting(c) /\ ~ captures[c].stop => c = consumer.cap /\ consumer.pc = "open"
  /\ \A c, o \in CaptureIds : captures[c].running /\ captures[o].running => c = o

(* What the two threads hold between taking a capture and releasing it.    *)
(* close() leaves one in the camera only if the consumer has published it  *)
(* later, and then the consumer has still to look at the stop.             *)
Past == stopper.pc \in {"release", "join", "done"}

FirstConnect ==
  \/ captures = <<>>
  \/ Len(captures) = 1 /\ consumer.pc \in {"open", "check", "set", "asked"}

HandsFit ==
  /\ consumer.pc # "construct" => captures # <<>>
  /\ consumer.pc \in {"construct", "open", "check", "release", "join"} => camera.cap = NoCapture
  /\ consumer.doomed # NoCapture <=> consumer.pc \in {"release", "join"}
  /\ stopper.doomed # NoCapture <=> stopper.pc \in {"release", "join"}
  /\ FirstConnect => stopper.pc = "idle" /\ ~ camera.closed
  /\ camera.cap # NoCapture =>
       /\ Past => consumer.pc \in {"set", "asked", "close"} /\ ~ camera.closed
       /\ consumer.pc = "done" => stopper.pc \in {"closing", "taking"}

(* Nobody lets go of a graph that was not told to stop.                    *)
Held ==
  /\ consumer.pc = "join" => captures[consumer.doomed].stop
  /\ stopper.pc = "join" => captures[stopper.doomed].stop
  /\ \A c \in CaptureIds : Alive(c) /\ ~ captures[c].stop =>
       \/ c = camera.cap \/ c = consumer.doomed \/ c = stopper.doomed
       \/ c = consumer.cap /\ consumer.pc \in {"open", "check"}

(* No command is under way.                                                *)
Nothing(c) ==
  captures[c].cmd_q = <<>> /\ captures[c].hand = NoCall /\ captures[c].pc # "control"

(* The command of the setting the consumer waits for.                      *)
IsAsk(m) ==
  /\ m.prop = Settings[consumer.todo] /\ m.value = Value(Settings[consumer.todo])
  /\ m.state = "asked"

AutoSet(c)  == captures[c].ae_auto = wanted.auto /\ controls.auto = wanted.auto
ExposureSet == controls.exposure = wanted.exposure

(* It is queued, being carried out, refused, or done.                      *)
InHand(c) ==
  \/ /\ captures[c].cmd_q = << captures[c].cmd_q[1] >> /\ IsAsk(captures[c].cmd_q[1])
     /\ captures[c].hand = NoCall /\ captures[c].pc # "control"
  \/ captures[c].cmd_q = <<>> /\ IsAsk(captures[c].hand) /\ captures[c].pc = "control"
  \/ captures[c].cmd_q = <<>> /\ captures[c].hand.state = "rejected" /\ captures[c].pc # "control"
  \/ /\ captures[c].cmd_q = <<>> /\ captures[c].hand.state = "ok" /\ captures[c].pc # "control"
     /\ AutoSet(c) /\ (consumer.todo = 2 => ExposureSet)

(* No other owner carries commands out, and while no setting has failed no *)
(* command is late, so that what was answered is what the device has.      *)
Alone(c) == ~ Starting(c) /\ \A o \in CaptureIds : Serving(o) => o = c

NoneLate(c) ==
  /\ consumer.todo >= 2 => AutoSet(c)
  /\ consumer.todo = 3 => ExposureSet
  /\ consumer.pc = "asked" => InHand(c)
  /\ consumer.pc # "asked" => Nothing(c)

InTouch == consumer.pc \in {"set", "asked", "stream", "reading"}

SettingsFit ==
  /\ consumer.pc \in {"open", "check"} => Nothing(consumer.cap)
  /\ InTouch => Alone(consumer.cap)
  /\ InTouch /\ ~ consumer.failed => NoneLate(consumer.cap)
  /\ consumer.pc \in {"stream", "reading"} => consumer.todo = 3
  /\ consumer.pc = "asked" => consumer.todo # 3

CameraInv ==
  CapturesTyped /\ ThreadsTyped /\ WantedTyped /\ OwnersFit /\ HandsFit /\ Held /\ SettingsFit

-----------------------------------------------------------------------------
LEMMA ControlTypes ==
  ASSUME WantedTyped
  PROVE  /\ wanted.auto \in ControlValues /\ wanted.exposure \in ControlValues
         /\ FALSE \in ControlValues /\ 0 \in ControlValues
BY DEF WantedTyped, ControlValues

LEMMA NoCallType == NoCall \in CallRec /\ NoCall.prop = "none" /\ NoCall.state = "none"
<1>1. FALSE \in ControlValues
  BY DEF ControlValues
<1> QED
  BY <1>1 DEF NoCall, CallRec

LEMMA NewCaptureType ==
  /\ NewCapture \in CaptureRec
  /\ NewCapture.pc = "build" /\ ~ NewCapture.stop /\ ~ NewCapture.opened /\ ~ NewCapture.running
  /\ NewCapture.cmd_q = <<>> /\ NewCapture.hand = NoCall
<1>1. FALSE \in ControlValues /\ <<>> \in Seq(CallRec)
  BY DEF ControlValues
<1> QED
  BY <1>1, NoCallType DEF NewCapture, CaptureRec

(* One capture changes.                                                    *)
LEMMA OneChanges ==
  ASSUME captures \in Seq(CaptureRec), NEW c \in CaptureIds, NEW r \in CaptureRec,
         captures' = [ captures EXCEPT ![c] = r ]
  PROVE  /\ captures' \in Seq(CaptureRec)
         /\ Len(captures') = Len(captures) /\ CaptureIds' = CaptureIds
         /\ captures'[c] = r
         /\ \A o \in CaptureIds : o # c => captures'[o] = captures[o]
BY DEF CaptureIds

LEMMA CapturesShape ==
  ASSUME captures \in Seq(CaptureRec)
  PROVE  /\ Len(captures) \in Nat /\ CaptureIds = 1 .. Len(captures)
         /\ \A c \in CaptureIds : captures[c] \in CaptureRec
         /\ (captures = <<>>) <=> (Len(captures) = 0)
BY DEF CaptureIds

LEMMA InitCameraInv == Init => CameraInv
<1> SUFFICES ASSUME Init PROVE CameraInv
  OBVIOUS
<1>1. captures = <<>> /\ Len(captures) = 0 /\ CaptureIds = {}
  BY DEF Init, CaptureIds
<1>2. CapturesTyped
  <2>1. (~ wanted.auto) \in ControlValues /\ 0 \in ControlValues
    BY DEF ControlValues, Init
  <2>2. captures \in Seq(CaptureRec)
    BY <1>1
  <2> QED
    BY <2>1, <2>2 DEF Init, CapturesTyped, ControlsRec
<1>3. ThreadsTyped
  BY <1>1 DEF Init, ThreadsTyped, NoCapture
<1>4. WantedTyped
  BY DEF Init, WantedTyped
<1>5. OwnersFit /\ HandsFit /\ Held /\ SettingsFit
  BY <1>1 DEF Init, OwnersFit, HandsFit, Held, SettingsFit, NoCapture, InTouch, Past
<1> QED
  BY <1>2, <1>3, <1>4, <1>5 DEF CameraInv

-----------------------------------------------------------------------------
(* A step of an owner leaves the two threads what they hold.               *)
LEMMA HandsUntouched ==
  ASSUME CameraInv, NEW c \in CaptureIds, NEW r \in CaptureRec,
         captures' = [ captures EXCEPT ![c] = r ],
         UNCHANGED <<wanted, camera, consumer, stopper>>,
         r.stop = captures[c].stop, r.pc # "gone" => captures[c].pc # "gone"
  PROVE  ThreadsTyped' /\ WantedTyped' /\ HandsFit' /\ Held'
<1> USE DEF CameraInv, CapturesTyped
<1>1. /\ Len(captures') = Len(captures) /\ CaptureIds' = CaptureIds
      /\ captures'[c] = r /\ \A o \in CaptureIds : o # c => captures'[o] = captures[o]
      /\ captures' \in Seq(CaptureRec)
  BY OneChanges
<1>2. (captures' = <<>>) <=> (captures = <<>>)
  BY <1>1, CapturesShape
<1>3. ThreadsTyped'
  BY <1>1 DEF ThreadsTyped
<1>4. WantedTyped' /\ HandsFit'
  BY <1>1, <1>2 DEF HandsFit, Past, FirstConnect, WantedTyped
<1>5. \A o \in CaptureIds :
        captures'[o].stop = captures[o].stop /\ (captures'[o].pc # "gone" => captures[o].pc # "gone")
  BY <1>1
<1>6. /\ consumer.pc = "join" => consumer.doomed \in CaptureIds
      /\ stopper.pc = "join" => stopper.doomed \in CaptureIds
  BY CapturesShape DEF ThreadsTyped, HandsFit, NoCapture
<1>7. Held'
  BY <1>1, <1>5, <1>6 DEF Held, Alive
<1> QED
  BY <1>3, <1>4, <1>7

LEMMA OwnersKept ==
  ASSUME CameraInv, NEW c \in CaptureIds, NEW r \in CaptureRec,
         captures' = [ captures EXCEPT ![c] = r ], UNCHANGED consumer,
         r.stop = captures[c].stop,
         r.opened => ~ r.stop /\ r.pc \in {"serve", "control"},
         r.pc \in {"live", "serve", "control"} => r.running,
         r.pc \in {"build", "run", "live"} => Starting(c),
         r.running => captures[c].running \/ \A o \in CaptureIds : ~ captures[o].running
  PROVE  OwnersFit'
<1> USE DEF CameraInv, CapturesTyped
<1>1. /\ CaptureIds' = CaptureIds
      /\ captures'[c] = r /\ \A o \in CaptureIds : o # c => captures'[o] = captures[o]
  BY OneChanges
<1>2. ASSUME NEW o \in CaptureIds
      PROVE  /\ captures'[o].opened => ~ captures'[o].stop /\ Serving(o)'
             /\ captures'[o].pc = "live" \/ Serving(o)' => captures'[o].running
             /\ Starting(o)' /\ ~ captures'[o].stop => o = consumer'.cap /\ consumer'.pc = "open"
  <2>1. CASE o = c
    BY <1>1, <2>1 DEF OwnersFit, Starting, Serving
  <2>2. CASE o # c
    BY <1>1, <2>2 DEF OwnersFit, Starting, Serving
  <2> QED
    BY <2>1, <2>2
<1>3. \A o, p \in CaptureIds : captures'[o].running /\ captures'[p].running => o = p
  BY <1>1 DEF OwnersFit
<1> QED
  BY <1>1, <1>2, <1>3 DEF OwnersFit

(* A step that is not one of a command.                                    *)
LEMMA SettingsUntouched ==
  ASSUME CameraInv, NEW c \in CaptureIds, NEW r \in CaptureRec,
         captures' = [ captures EXCEPT ![c] = r ],
         UNCHANGED <<controls, wanted, consumer>>,
         r.cmd_q = captures[c].cmd_q, r.hand = captures[c].hand, r.ae_auto = captures[c].ae_auto,
         r.pc = "control" <=> captures[c].pc = "control",
         r.pc \in {"serve", "control"} => Serving(c) \/ (Starting(c) /\ ~ captures[c].stop),
         r.pc \in {"build", "run", "live"} => Starting(c)
  PROVE  SettingsFit'
<1> USE DEF CameraInv, CapturesTyped
<1>1. /\ CaptureIds' = CaptureIds
      /\ captures'[c] = r /\ \A o \in CaptureIds : o # c => captures'[o] = captures[o]
  BY OneChanges
<1>2. \A o \in CaptureIds : /\ captures'[o].cmd_q = captures[o].cmd_q
                            /\ captures'[o].hand = captures[o].hand
                            /\ captures'[o].ae_auto = captures[o].ae_auto
                            /\ captures'[o].pc = "control" <=> captures[o].pc = "control"
  BY <1>1
<1>3. consumer.pc # "construct" => consumer.cap \in CaptureIds
  BY CapturesShape DEF ThreadsTyped, HandsFit
<1>4. \A o \in CaptureIds : Starting(o)' => Starting(o)
  BY <1>1 DEF Starting
<1>5. InTouch => \A o \in CaptureIds : Serving(o)' => Serving(o)
  BY <1>1 DEF Serving, OwnersFit, InTouch
<1>6. InTouch => Alone(consumer.cap)'
  BY <1>1, <1>3, <1>4, <1>5 DEF SettingsFit, Alone, InTouch
<1>7. InTouch /\ ~ consumer.failed => NoneLate(consumer.cap)'
  BY <1>2, <1>3
  DEF SettingsFit, NoneLate, InTouch, InHand, Nothing, AutoSet, ExposureSet, IsAsk, Value, Settings
<1>8. consumer.pc \in {"open", "check"} => Nothing(consumer.cap)'
  BY <1>2, <1>3 DEF SettingsFit, Nothing
<1> QED
  BY <1>6, <1>7, <1>8 DEF SettingsFit, InTouch

(* A command that is taken, or has been carried out or refused.            *)
LEMMA CommandsKept ==
  ASSUME CameraInv, NEW c \in CaptureIds, NEW r \in CaptureRec,
         captures' = [ captures EXCEPT ![c] = r ], UNCHANGED <<wanted, consumer>>,
         Serving(c), r.pc \in {"serve", "control"},
         consumer.pc \in {"open", "check"} /\ c = consumer.cap => FALSE,
         InTouch /\ ~ consumer.failed /\ c = consumer.cap => NoneLate(c)'
  PROVE  SettingsFit'
<1> USE DEF CameraInv, CapturesTyped
<1>1. /\ CaptureIds' = CaptureIds
      /\ captures'[c] = r /\ \A o \in CaptureIds : o # c => captures'[o] = captures[o]
  BY OneChanges
<1>2. consumer.pc # "construct" => consumer.cap \in CaptureIds
  BY CapturesShape DEF ThreadsTyped, HandsFit
<1>3. consumer.pc \in {"open", "check"} => Nothing(consumer.cap)'
  BY <1>1, <1>2 DEF SettingsFit, Nothing
<1>4. \A o \in CaptureIds : (Starting(o)' => Starting(o)) /\ (Serving(o)' => Serving(o))
  BY <1>1 DEF Starting, Serving
<1>5. InTouch => Alone(consumer.cap)' /\ c = consumer.cap
  BY <1>1, <1>2, <1>4 DEF SettingsFit, Alone, InTouch
<1> QED
  BY <1>3, <1>5 DEF SettingsFit, InTouch

LEMMA BuildKeeps ==
  ASSUME CameraInv, NEW c \in CaptureIds, UNCHANGED <<wanted, camera, consumer, stopper>>,
         \/ Builds(c) \/ GraphRuns(c) \/ BuildRaises(c) \/ LiveGate(c) \/ ServeEnds(c)
         \/ TornDown(c) \/ FrameComes(c)
  PROVE  CameraInv'
<1>1. captures[c] \in CaptureRec
  BY CapturesShape DEF CameraInv, CapturesTyped
<1>2. /\ captures[c].opened => ~ captures[c].stop /\ Serving(c)
      /\ captures[c].pc = "live" \/ Serving(c) => captures[c].running
  BY DEF CameraInv, OwnersFit
<1>3. PICK r \in CaptureRec :
        /\ captures' = [ captures EXCEPT ![c] = r ] /\ controls' = controls
        /\ r.stop = captures[c].stop /\ (r.pc # "gone" => captures[c].pc # "gone")
        /\ r.opened => ~ r.stop /\ r.pc \in {"serve", "control"}
        /\ r.pc \in {"live", "serve", "control"} => r.running
        /\ r.pc \in {"build", "run", "live"} => Starting(c)
        /\ r.running => captures[c].running \/ \A o \in CaptureIds : ~ captures[o].running
        /\ r.cmd_q = captures[c].cmd_q /\ r.hand = captures[c].hand /\ r.ae_auto = captures[c].ae_auto
        /\ r.pc = "control" <=> captures[c].pc = "control"
        /\ r.pc \in {"serve", "control"} => Serving(c) \/ (Starting(c) /\ ~ captures[c].stop)
  <2> USE <1>1 DEF CaptureRec, Owner, Starting, Serving, Onward, Proven
  <2>1. CASE Builds(c)
    <3> WITNESS [ captures[c] EXCEPT !.pc = Onward(c, "run") ] \in CaptureRec
    <3> QED BY <1>1, <1>2, <2>1 DEF Builds, Onward
  <2>2. CASE GraphRuns(c)
    <3> WITNESS [ captures[c] EXCEPT !.pc = "live", !.running = TRUE ] \in CaptureRec
    <3> QED BY <1>1, <1>2, <2>2 DEF GraphRuns
  <2>3. CASE BuildRaises(c)
    <3> WITNESS [ captures[c] EXCEPT !.pc = "teardown", !.opened = FALSE ] \in CaptureRec
    <3> QED BY <1>1, <1>2, <2>3 DEF BuildRaises
  <2>4. CASE LiveGate(c)
    <3> WITNESS [ captures[c] EXCEPT !.opened = Proven(c),
                    !.pc = IF Proven(c) THEN "serve" ELSE "teardown" ] \in CaptureRec
    <3> QED BY <1>1, <1>2, <2>4 DEF LiveGate, Proven
  <2>5. CASE ServeEnds(c)
    <3> WITNESS [ captures[c] EXCEPT !.pc = "teardown" ] \in CaptureRec
    <3> QED BY <1>1, <1>2, <2>5 DEF ServeEnds
  <2>6. CASE TornDown(c)
    <3> WITNESS [ captures[c] EXCEPT !.pc = "gone", !.running = FALSE ] \in CaptureRec
    <3> QED BY <1>1, <1>2, <2>6 DEF TornDown
  <2>7. CASE FrameComes(c)
    <3> WITNESS [ captures[c] EXCEPT !.frame = "fresh" ] \in CaptureRec
    <3> QED BY <1>1, <1>2, <2>7 DEF FrameComes
  <2> QED
    BY <2>1, <2>2, <2>3, <2>4, <2>5, <2>6, <2>7
<1>4. ThreadsTyped' /\ WantedTyped' /\ HandsFit' /\ Held'
  BY <1>3, HandsUntouched
<1>5. OwnersFit'
  BY <1>3, OwnersKept
<1>6. SettingsFit'
  BY <1>3, SettingsUntouched
<1>7. CapturesTyped'
  BY <1>3, OneChanges DEF CameraInv, CapturesTyped
<1> QED
  BY <1>4, <1>5, <1>6, <1>7 DEF CameraInv

LEMMA ServeTakesKeeps ==
  ASSUME CameraInv, NEW c \in CaptureIds, UNCHANGED <<wanted, camera, consumer, stopper>>,
         ServeTakes(c)
  PROVE  CameraInv'
<1> DEFINE old == captures[c]
           r   == [ old EXCEPT !.pc = "control", !.cmd_q = Tail(@), !.hand = Head(old.cmd_q) ]
<1>1. /\ old \in CaptureRec /\ old.cmd_q \in Seq(CallRec) /\ old.cmd_q # <<>>
      /\ old.pc = "serve" /\ captures' = [ captures EXCEPT ![c] = r ] /\ controls' = controls
  BY CapturesShape DEF CameraInv, CapturesTyped, ServeTakes, Owner, CaptureRec
<1>2. Head(old.cmd_q) \in CallRec /\ Tail(old.cmd_q) \in Seq(CallRec)
  BY <1>1
<1>3. r \in CaptureRec
  BY <1>1, <1>2 DEF CaptureRec
<1>4. /\ r.pc = "control" /\ r.stop = old.stop /\ r.opened = old.opened /\ r.running = old.running
      /\ r.cmd_q = Tail(old.cmd_q) /\ r.hand = Head(old.cmd_q) /\ r.ae_auto = old.ae_auto
  BY <1>1 DEF CaptureRec
<1>5. old.opened => ~ old.stop
  BY DEF CameraInv, OwnersFit
<1>6. old.running
  BY <1>1 DEF CameraInv, OwnersFit, Serving
<1>7. captures'[c] = r
  BY <1>1, <1>3, OneChanges DEF CameraInv, CapturesTyped
<1> HIDE DEF r
<1>8. ThreadsTyped' /\ WantedTyped' /\ HandsFit' /\ Held'
  BY <1>1, <1>3, <1>4, HandsUntouched
<1>9. OwnersFit'
  BY <1>1, <1>3, <1>4, <1>5, <1>6, OwnersKept
<1>10. ASSUME InTouch, ~ consumer.failed, c = consumer.cap
       PROVE  NoneLate(c)'
  <2>1. NoneLate(c) /\ ~ Nothing(c)
    BY <1>1, <1>10 DEF CameraInv, SettingsFit, Nothing
  <2>2. consumer.pc = "asked" /\ consumer.todo # 3 /\ InHand(c)
    BY <2>1 DEF NoneLate, CameraInv, SettingsFit
  <2>3. old.cmd_q = << old.cmd_q[1] >> /\ IsAsk(old.cmd_q[1])
    BY <2>2, <1>1 DEF InHand
  <2>4. Tail(old.cmd_q) = <<>> /\ Head(old.cmd_q) = old.cmd_q[1]
    <3>1. \A m : Head(<<m>>) = m /\ Tail(<<m>>) = <<>>
      OBVIOUS
    <3>2. PICK m : old.cmd_q = <<m>> /\ m = old.cmd_q[1]
      BY <2>3
    <3> QED
      BY <3>1, <3>2
  <2>5. InHand(c)'
    BY <2>3, <2>4, <1>4, <1>7 DEF InHand, IsAsk, Value
  <2> QED
    BY <2>1, <2>2, <2>5, <1>1, <1>4, <1>7 DEF NoneLate, AutoSet, ExposureSet
<1>11. ~ (consumer.pc \in {"open", "check"} /\ c = consumer.cap)
  BY <1>1 DEF CameraInv, SettingsFit, Nothing
<1>12. Serving(c)
  BY <1>1 DEF Serving
<1>13. SettingsFit'
  BY <1>1, <1>3, <1>4, <1>10, <1>11, <1>12, CommandsKept
<1>14. CapturesTyped'
  BY <1>1, <1>3, OneChanges DEF CameraInv, CapturesTyped
<1> QED
  BY <1>8, <1>9, <1>13, <1>14 DEF CameraInv

(* What a command leaves in the controls, and its answer.                  *)
LEMMA ControlTyped ==
  ASSUME CapturesTyped, NEW c \in CaptureIds, NEW state \in {"ok", "rejected"}
  PROVE  /\ Written(c, captures[c].hand) \in ControlsRec
         /\ Replied(captures[c].hand, state) \in CallRec
         /\ captures[c].hand.state = "asked" => Replied(captures[c].hand, state).state = state
<1>1. captures[c] \in CaptureRec /\ captures[c].hand \in CallRec
  BY CapturesShape DEF CapturesTyped, CaptureRec
<1>2. captures[c].ae_auto \in ControlValues /\ captures[c].hand.value \in ControlValues
  BY <1>1 DEF CaptureRec, CallRec
<1>3. Written(c, captures[c].hand) \in ControlsRec
  BY <1>2 DEF Written, ControlsRec, CapturesTyped
<1>4. /\ Replied(captures[c].hand, state) \in CallRec
      /\ captures[c].hand.state = "asked" => Replied(captures[c].hand, state).state = state
  BY <1>1, NoCallType DEF Replied, CallRec
<1> QED
  BY <1>3, <1>4

LEMMA ControlKeeps ==
  ASSUME CameraInv, NEW c \in CaptureIds, UNCHANGED <<wanted, camera, consumer, stopper>>,
         ControlApplied(c) \/ ControlFails(c)
  PROVE  CameraInv'
<1> DEFINE old == captures[c]
           cmd == old.hand
<1>1. /\ old \in CaptureRec /\ cmd \in CallRec /\ old.pc = "control" /\ Serving(c) /\ old.running
      /\ (old.opened => ~ old.stop)
  <2>1. old \in CaptureRec /\ old.pc = "control"
    BY CapturesShape DEF CameraInv, CapturesTyped, ControlApplied, ControlFails
  <2> QED
    BY <2>1 DEF CameraInv, OwnersFit, Serving, CaptureRec
<1>2. CapturesTyped
  BY DEF CameraInv
<1>3. PICK state \in {"ok", "rejected"}, r \in CaptureRec :
        /\ captures' = [ captures EXCEPT ![c] = r ]
        /\ r.pc = "serve" /\ r.stop = old.stop /\ r.opened = old.opened /\ r.running = old.running
        /\ r.cmd_q = old.cmd_q /\ r.hand = Replied(cmd, state)
        /\ state = "ok" =>
             /\ controls' = Written(c, cmd)
             /\ r.ae_auto = IF cmd.prop = "auto_exposure" THEN cmd.value ELSE old.ae_auto
        /\ state = "rejected" =>
             controls' \in {controls, Written(c, cmd)} /\ r.ae_auto = old.ae_auto
  <2>1. CASE ControlApplied(c)
    <3> DEFINE r == [ old EXCEPT !.pc = "serve", !.hand = Replied(cmd, "ok"),
                        !.ae_auto = IF cmd.prop = "auto_exposure" THEN cmd.value ELSE @ ]
    <3>1. Replied(cmd, "ok") \in CallRec
      BY <1>2, ControlTyped
    <3>2. r \in CaptureRec
      BY <1>1, <3>1 DEF CaptureRec, CallRec
    <3> QED
      BY <1>1, <2>1, <3>2 DEF ControlApplied, Owner, CaptureRec
  <2>2. CASE ControlFails(c)
    <3> DEFINE r == [ old EXCEPT !.pc = "serve", !.hand = Replied(cmd, "rejected") ]
    <3>1. Replied(cmd, "rejected") \in CallRec
      BY <1>2, ControlTyped
    <3>2. r \in CaptureRec
      BY <1>1, <3>1 DEF CaptureRec
    <3>3. captures' = [ captures EXCEPT ![c] = r ]
      BY <2>2, <1>1 DEF ControlFails, Owner, CaptureRec
    <3> QED
      BY <1>1, <2>2, <3>2, <3>3 DEF ControlFails, CaptureRec
  <2> QED
    BY <2>1, <2>2
<1>4. controls' \in ControlsRec
  BY <1>2, <1>3, ControlTyped DEF CapturesTyped
<1>5. captures'[c] = r /\ CapturesTyped'
  BY <1>2, <1>3, <1>4, OneChanges DEF CapturesTyped
<1>6. ThreadsTyped' /\ WantedTyped' /\ HandsFit' /\ Held'
  BY <1>1, <1>3, HandsUntouched
<1>7. OwnersFit'
  BY <1>1, <1>3, OwnersKept
<1>8. ASSUME InTouch, ~ consumer.failed, c = consumer.cap
      PROVE  NoneLate(c)'
  <2>1. NoneLate(c) /\ ~ Nothing(c)
    BY <1>1, <1>8 DEF CameraInv, SettingsFit, Nothing
  <2>2. consumer.pc = "asked" /\ consumer.todo # 3 /\ InHand(c)
    BY <2>1 DEF NoneLate, CameraInv, SettingsFit
  <2>3. old.cmd_q = <<>> /\ IsAsk(cmd)
    BY <2>2, <1>1 DEF InHand
  <2>4. /\ r.hand.state = state /\ r.cmd_q = <<>> /\ r.pc = "serve"
    BY <2>3, <1>2, <1>3, ControlTyped DEF IsAsk
  <2>5. consumer.todo \in {1, 2}
    BY <2>2 DEF CameraInv, ThreadsTyped
  <2>6. CASE consumer.todo = 1
    <3>1. cmd.prop = "auto_exposure" /\ cmd.value = wanted.auto
      BY <2>3, <2>6 DEF IsAsk, Value, Settings
    <3>2. state = "ok" => AutoSet(c)'
      BY <3>1, <1>2, <1>3, <1>5 DEF AutoSet, Written, CapturesTyped, ControlsRec
    <3> QED
      BY <3>2, <2>2, <2>4, <2>6, <1>5 DEF NoneLate, InHand
  <2>7. CASE consumer.todo = 2
    <3>1. cmd.prop = "exposure" /\ cmd.value = wanted.exposure
      BY <2>3, <2>7 DEF IsAsk, Value, Settings
    <3>2. AutoSet(c)
      BY <2>1, <2>7 DEF NoneLate
    <3>3. Written(c, cmd) = [ auto |-> wanted.auto, exposure |-> wanted.exposure ]
      BY <3>1, <3>2 DEF Written, AutoSet
    <3>4. AutoSet(c)'
      BY <3>1, <3>2, <3>3, <1>3, <1>5 DEF AutoSet
    <3>5. state = "ok" => ExposureSet'
      BY <3>3, <1>3 DEF ExposureSet
    <3> QED
      BY <3>4, <3>5, <2>2, <2>4, <2>7, <1>5 DEF NoneLate, InHand
  <2> QED
    BY <2>5, <2>6, <2>7
<1>9. ~ (consumer.pc \in {"open", "check"} /\ c = consumer.cap)
  BY <1>1 DEF CameraInv, SettingsFit, Nothing
<1>10. SettingsFit'
  BY <1>1, <1>3, <1>8, <1>9, CommandsKept
<1> QED
  BY <1>5, <1>6, <1>7, <1>10 DEF CameraInv

-----------------------------------------------------------------------------
(* release() changes two marks of one capture.                             *)
LEMMA StoppedShape ==
  ASSUME CapturesTyped, NEW c \in CaptureIds, captures' = Stopped(c), UNCHANGED controls
  PROVE  /\ CapturesTyped' /\ Len(captures') = Len(captures) /\ CaptureIds' = CaptureIds
         /\ captures'[c].stop /\ ~ captures'[c].opened
         /\ \A o \in CaptureIds :
              /\ captures'[o].pc = captures[o].pc /\ captures'[o].running = captures[o].running
              /\ captures'[o].cmd_q = captures[o].cmd_q /\ captures'[o].hand = captures[o].hand
              /\ captures'[o].ae_auto = captures[o].ae_auto
              /\ captures[o].stop => captures'[o].stop
              /\ captures'[o].opened => captures[o].opened /\ o # c
              /\ o # c => captures'[o] = captures[o]
<1> DEFINE r == [ captures[c] EXCEPT !.stop = TRUE, !.opened = FALSE ]
<1>1. \A o \in CaptureIds : captures[o] \in CaptureRec
  BY CapturesShape DEF CapturesTyped
<1>2. r \in CaptureRec /\ r.stop /\ ~ r.opened
      /\ r.pc = captures[c].pc /\ r.running = captures[c].running /\ r.cmd_q = captures[c].cmd_q
      /\ r.hand = captures[c].hand /\ r.ae_auto = captures[c].ae_auto
  BY <1>1 DEF CaptureRec
<1>3. captures' = [ captures EXCEPT ![c] = r ]
  BY <1>1 DEF Stopped, CaptureIds, CapturesTyped, CaptureRec
<1> HIDE DEF r
<1>4. /\ captures' \in Seq(CaptureRec) /\ Len(captures') = Len(captures)
      /\ CaptureIds' = CaptureIds /\ captures'[c] = r
      /\ \A o \in CaptureIds : o # c => captures'[o] = captures[o]
  BY <1>2, <1>3, OneChanges DEF CapturesTyped
<1> QED
  BY <1>2, <1>4 DEF CapturesTyped

LEMMA StoppedOwners ==
  ASSUME CameraInv, NEW c \in CaptureIds, captures' = Stopped(c), UNCHANGED controls,
         consumer'.cap = consumer.cap,
         consumer.pc = "open" => consumer'.pc = "open" \/ c = consumer.cap
  PROVE  OwnersFit'
<1> USE DEF CameraInv
<1>1. \A o \in CaptureIds :
        /\ captures'[o].opened => ~ captures'[o].stop /\ Serving(o)'
        /\ captures'[o].pc = "live" \/ Serving(o)' => captures'[o].running
  BY StoppedShape DEF OwnersFit, Serving
<1>2. \A o \in CaptureIds :
        Starting(o)' /\ ~ captures'[o].stop => o = consumer'.cap /\ consumer'.pc = "open"
  BY StoppedShape DEF OwnersFit, Starting
<1>3. \A o, p \in CaptureIds : captures'[o].running /\ captures'[p].running => o = p
  BY StoppedShape DEF OwnersFit
<1> QED
  BY <1>1, <1>2, <1>3, StoppedShape DEF OwnersFit

(* A consumer that waits or works is on the newest capture.                *)
LEMMA ConsumersCapture ==
  ASSUME CameraInv
  PROVE  /\ Len(captures) \in Nat /\ CaptureIds = 1 .. Len(captures)
         /\ consumer.cap = Len(captures)
         /\ consumer.pc # "construct" => consumer.cap \in CaptureIds /\ consumer.cap # NoCapture
         /\ consumer.pc \in {"release", "join"} => consumer.doomed \in CaptureIds
         /\ stopper.pc \in {"release", "join"} => stopper.doomed \in CaptureIds
BY CapturesShape DEF CameraInv, CapturesTyped, ThreadsTyped, HandsFit, NoCapture

LEMMA CloseReleasesKeeps ==
  ASSUME CameraInv, CloseReleases
  PROVE  CameraInv'
<1> USE DEF CameraInv
<1>1. stopper.doomed \in CaptureIds /\ captures' = Stopped(stopper.doomed)
      /\ stopper' = [ stopper EXCEPT !.pc = "join" ] /\ stopper.pc = "release"
      /\ UNCHANGED <<controls, wanted, camera, consumer>>
  BY ConsumersCapture DEF CloseReleases
<1>2. /\ stopper'.doomed = stopper.doomed /\ stopper'.pc = "join"
  BY <1>1 DEF ThreadsTyped
<1>3. PICK c \in CaptureIds : c = stopper.doomed
  BY <1>1
<1>4. captures' = Stopped(c)
  BY <1>1, <1>3
<1>5. /\ CapturesTyped' /\ Len(captures') = Len(captures) /\ CaptureIds' = CaptureIds
      /\ captures'[c].stop
      /\ \A o \in CaptureIds :
           /\ captures'[o].pc = captures[o].pc /\ captures'[o].cmd_q = captures[o].cmd_q
           /\ captures'[o].hand = captures[o].hand /\ captures'[o].ae_auto = captures[o].ae_auto
           /\ captures[o].stop => captures'[o].stop
  BY <1>1, <1>4, StoppedShape
<1>6. (captures' = <<>>) <=> (captures = <<>>)
  BY <1>5, CapturesShape DEF CapturesTyped
<1>7. OwnersFit'
  BY <1>1, <1>4, StoppedOwners
<1>8. ThreadsTyped' /\ WantedTyped'
  BY <1>1, <1>5 DEF ThreadsTyped, WantedTyped
<1>9. HandsFit'
  BY <1>1, <1>2, <1>5, <1>6 DEF HandsFit, Past, FirstConnect
<1>10. Held'
  BY <1>1, <1>2, <1>3, <1>5, ConsumersCapture DEF Held, Alive
<1>11. SettingsFit'
  <2>1. consumer.pc \in {"open", "check"} => Nothing(consumer.cap)'
    BY <1>1, <1>5, ConsumersCapture DEF SettingsFit, Nothing
  <2>2. InTouch => Alone(consumer.cap)'
    BY <1>1, <1>5, ConsumersCapture DEF SettingsFit, Alone, InTouch, Starting, Serving
  <2>3. InTouch /\ ~ consumer.failed => NoneLate(consumer.cap)'
    BY <1>1, <1>5, ConsumersCapture
    DEF SettingsFit, InTouch, NoneLate, InHand, Nothing, AutoSet, ExposureSet, IsAsk, Value, Settings
  <2> QED
    BY <1>1, <2>1, <2>2, <2>3 DEF SettingsFit, InTouch
<1> QED
  BY <1>5, <1>7, <1>8, <1>9, <1>10, <1>11

(* The steps of close() that leave the captures alone.                     *)
LEMMA StopperKeeps ==
  ASSUME CameraInv, StopSets \/ CloseMarks \/ CloseTakes \/ CloseJoins
  PROVE  CameraInv'
<1> USE DEF CameraInv
<1>1. UNCHANGED <<captures, controls, wanted, consumer>>
  BY DEF StopSets, CloseMarks, CloseTakes, CloseJoins
<1>2. CapturesTyped' /\ WantedTyped' /\ OwnersFit' /\ SettingsFit'
  BY <1>1
  DEF CapturesTyped, WantedTyped, OwnersFit, SettingsFit, InTouch, CaptureIds, Starting, Serving,
      Alone, NoneLate, InHand, Nothing, AutoSet, ExposureSet, IsAsk, Value
<1>3. CASE StopSets
  <2>1. stopper.pc = "idle" /\ stopper'.pc = "closing" /\ stopper'.doomed = stopper.doomed
        /\ camera' = camera /\ ~ FirstConnect
    BY <1>3, ConsumersCapture, CapturesShape
    DEF StopSets, ThreadsTyped, FirstConnect, HandsFit, CapturesTyped
  <2>2. ThreadsTyped'
    BY <1>1, <1>3, <2>1 DEF StopSets, ThreadsTyped
  <2>3. HandsFit'
    BY <1>1, <2>1 DEF HandsFit, FirstConnect, Past
  <2>4. Held'
    BY <1>1, <2>1 DEF Held, Alive, CaptureIds
  <2> QED
    BY <1>2, <2>2, <2>3, <2>4
<1>4. CASE CloseMarks
  <2>1. /\ stopper.pc = "closing" /\ stopper'.pc = "taking" /\ stopper'.doomed = stopper.doomed
        /\ camera'.cap = camera.cap /\ camera'.closed
    BY <1>4 DEF CloseMarks, ThreadsTyped
  <2>2. ThreadsTyped'
    BY <1>1, <1>4 DEF CloseMarks, ThreadsTyped
  <2>3. HandsFit'
    BY <1>1, <2>1 DEF HandsFit, FirstConnect, Past
  <2>4. Held'
    BY <1>1, <2>1 DEF Held, Alive, CaptureIds
  <2> QED
    BY <1>2, <2>2, <2>3, <2>4
<1>5. CASE CloseTakes
  <2>1. /\ stopper.pc = "taking" /\ stopper.doomed = NoCapture
        /\ stopper'.pc = IF camera.cap = NoCapture THEN "done" ELSE "release"
        /\ stopper'.doomed = camera.cap
        /\ camera'.cap = NoCapture /\ camera'.closed = camera.closed
    BY <1>5 DEF CloseTakes, ThreadsTyped, HandsFit
  <2>2. ThreadsTyped'
    BY <1>1, <1>5, ConsumersCapture DEF CloseTakes, ThreadsTyped, NoCapture
  <2>3. HandsFit'
    BY <1>1, <2>1 DEF HandsFit, FirstConnect, Past
  <2>4. Held'
    BY <1>1, <2>1, ConsumersCapture DEF Held, Alive, CaptureIds, NoCapture
  <2> QED
    BY <1>2, <2>2, <2>3, <2>4
<1>6. CASE CloseJoins
  <2>1. /\ stopper.pc = "join" /\ stopper'.pc = "done" /\ stopper'.doomed = NoCapture
        /\ camera' = camera
    BY <1>6 DEF CloseJoins
  <2>2. ThreadsTyped'
    BY <1>1, <1>6, ConsumersCapture DEF CloseJoins, ThreadsTyped, NoCapture
  <2>3. HandsFit'
    BY <1>1, <2>1 DEF HandsFit, FirstConnect, Past
  <2>4. Held'
    BY <1>1, <2>1, ConsumersCapture DEF Held, Alive, CaptureIds, NoCapture
  <2> QED
    BY <1>2, <2>2, <2>3, <2>4
<1> QED
  BY <1>3, <1>4, <1>5, <1>6

-----------------------------------------------------------------------------
(* The consumer lets a capture go: it has it in hand until it has told it  *)
(* to stop.                                                                *)
LEMMA ReleasingShape ==
  ASSUME CameraInv, NEW c \in {NoCapture, Len(captures)},
         NEW next \in {"construct", "backoff", "done"},
         consumer' = Releasing(c, next), UNCHANGED <<captures, stopper>>,
         camera' \in [ cap : {NoCapture}, closed : BOOLEAN ]
  PROVE  /\ ThreadsTyped'
         /\ consumer'.pc = IF c = NoCapture THEN next ELSE "release"
         /\ consumer'.doomed = c /\ consumer'.cap = consumer.cap
<1>1. consumer'.pc = IF c = NoCapture THEN next ELSE "release"
  BY DEF CameraInv, ThreadsTyped, Releasing
<1>2. consumer'.doomed = c /\ consumer'.cap = consumer.cap /\ c \in 0 .. Len(captures)
  BY ConsumersCapture DEF CameraInv, ThreadsTyped, Releasing, NoCapture
<1>3. ThreadsTyped'
  BY <1>2 DEF CameraInv, ThreadsTyped, Releasing
<1> QED
  BY <1>1, <1>2, <1>3

(* A step that changes no capture and leads out of the connection.         *)
LEMMA Disconnects ==
  ASSUME CameraInv, UNCHANGED <<captures, controls, wanted>>, consumer'.cap = consumer.cap,
         consumer.pc = "open" => Ready(consumer.cap),
         consumer'.pc \notin {"set", "asked", "stream", "reading", "open", "check"}
  PROVE  CapturesTyped' /\ WantedTyped' /\ OwnersFit' /\ SettingsFit'
<1>1. CapturesTyped' /\ WantedTyped'
  BY DEF CameraInv, CapturesTyped, WantedTyped
<1>2. OwnersFit'
  BY DEF CameraInv, OwnersFit, CaptureIds, Starting, Serving, Ready
<1>3. SettingsFit'
  BY DEF SettingsFit, InTouch
<1> QED
  BY <1>1, <1>2, <1>3

LEMMA FailedType ==
  ASSUME CameraInv, consumer.pc # "construct"
  PROVE  Failed \in {"backoff", "done"} /\ (Failed = "done" => Len(captures) = 1)
BY DEF Failed

LEMMA ConstructKeeps ==
  ASSUME CameraInv, Construct
  PROVE  CameraInv'
<1> USE DEF CameraInv
<1>0. PICK n \in Nat : n = Len(captures) + 1
  BY ConsumersCapture
<1>1. /\ consumer.pc = "construct" /\ captures' = Append(captures, NewCapture)
      /\ consumer'.pc = "open" /\ consumer'.cap = n /\ consumer'.doomed = consumer.doomed
      /\ UNCHANGED <<controls, wanted, camera, stopper>>
      /\ camera.cap = NoCapture
  BY <1>0 DEF Construct, ThreadsTyped, HandsFit
<1>2. /\ captures' \in Seq(CaptureRec) /\ Len(captures') = n /\ CaptureIds' = CaptureIds \cup {n}
      /\ captures'[n] = NewCapture /\ n \notin CaptureIds /\ n \in Nat /\ n > 0
      /\ \A c \in CaptureIds : captures'[c] = captures[c]
  BY <1>0, <1>1, CapturesShape, NewCaptureType DEF CaptureIds, CapturesTyped
<1>3. captures' # <<>> /\ (n = 1 => captures = <<>>)
  BY <1>0, <1>2, CapturesShape DEF CapturesTyped
<1>4. CapturesTyped' /\ WantedTyped'
  BY <1>1, <1>2 DEF CapturesTyped, WantedTyped
<1>5. ThreadsTyped'
  <2>1. consumer' \in
         [ pc : { "construct", "open", "check", "set", "asked", "stream", "reading", "lost",
                "close", "backoff", "reopen", "release", "join", "done" },
           cap : {n}, todo : 1 .. 3, failed : BOOLEAN,
           doomed : 0 .. Len(captures), next : {"construct", "backoff", "done"} ]
    BY <1>0, <1>2 DEF Construct, ThreadsTyped
  <2>2. 0 .. Len(captures) \subseteq 0 .. n
    BY <1>0, ConsumersCapture
  <2> QED
    BY <1>1, <1>2, <2>1, <2>2 DEF ThreadsTyped
<1>6. OwnersFit'
  <2>1. ASSUME NEW o \in CaptureIds'
        PROVE  /\ captures'[o].opened => ~ captures'[o].stop /\ Serving(o)'
               /\ captures'[o].pc = "live" \/ Serving(o)' => captures'[o].running
               /\ Starting(o)' /\ ~ captures'[o].stop => o = consumer'.cap /\ consumer'.pc = "open"
    <3>1. CASE o = n
      BY <1>1, <1>2, <3>1, NewCaptureType DEF Serving
    <3>2. CASE o \in CaptureIds
      BY <1>1, <1>2, <3>2 DEF OwnersFit, Starting, Serving
    <3> QED
      BY <1>2, <2>1, <3>1, <3>2
  <2>2. \A o \in CaptureIds' : captures'[o].running => o \in CaptureIds /\ captures[o].running
    BY <1>2, NewCaptureType
  <2>3. \A o, p \in CaptureIds' : captures'[o].running /\ captures'[p].running => o = p
    BY <2>2 DEF OwnersFit
  <2> QED
    BY <2>1, <2>3 DEF OwnersFit
<1>7. HandsFit'
  BY <1>1, <1>2, <1>3 DEF HandsFit, FirstConnect, Past
<1>8. Held'
  BY <1>1, <1>2, ConsumersCapture DEF Held, Alive
<1>9. SettingsFit'
  <2>1. Nothing(n)'
    BY <1>2, NewCaptureType, NoCallType DEF Nothing
  <2> QED
    BY <1>1, <2>1 DEF SettingsFit, InTouch
<1> QED
  BY <1>4, <1>5, <1>6, <1>7, <1>8, <1>9

LEMMA OpenEndsKeeps ==
  ASSUME CameraInv, OpenEnds
  PROVE  CameraInv'
<1> USE DEF CameraInv
<1>1. /\ consumer.pc = "open" /\ consumer'.pc = "check" /\ consumer'.cap = consumer.cap
      /\ consumer'.doomed = consumer.doomed
      /\ Ready(consumer.cap) /\ UNCHANGED <<captures, controls, wanted, camera, stopper>>
  BY DEF OpenEnds, Consumer, ThreadsTyped
<1>2. CapturesTyped' /\ WantedTyped' /\ ThreadsTyped'
  BY <1>1 DEF CapturesTyped, WantedTyped, ThreadsTyped, OpenEnds, Consumer
<1>3. OwnersFit'
  BY <1>1 DEF OwnersFit, CaptureIds, Starting, Serving, Ready
<1>4. HandsFit' /\ Held'
  BY <1>1 DEF HandsFit, FirstConnect, Past, Held, Alive, CaptureIds
<1>5. SettingsFit'
  BY <1>1 DEF SettingsFit, InTouch, Nothing
<1> QED
  BY <1>2, <1>3, <1>4, <1>5

LEMMA OpenTimesOutKeeps ==
  ASSUME CameraInv, OpenTimesOut
  PROVE  CameraInv'
<1> USE DEF CameraInv
<1>1. /\ consumer.pc = "open" /\ consumer'.pc = "check" /\ consumer'.cap = consumer.cap
      /\ consumer'.doomed = consumer.doomed
      /\ captures' = Stopped(consumer.cap) /\ UNCHANGED <<controls, wanted, camera, stopper>>
      /\ consumer.cap \in CaptureIds
  BY ConsumersCapture DEF OpenTimesOut, Consumer, ThreadsTyped
<1>2. PICK c \in CaptureIds : c = consumer.cap /\ captures' = Stopped(c)
  BY <1>1
<1>3. /\ CapturesTyped' /\ Len(captures') = Len(captures) /\ CaptureIds' = CaptureIds
      /\ \A o \in CaptureIds :
           /\ captures'[o].pc = captures[o].pc /\ captures'[o].cmd_q = captures[o].cmd_q
           /\ captures'[o].hand = captures[o].hand
           /\ captures[o].stop => captures'[o].stop
  BY <1>1, <1>2, StoppedShape
<1>4. (captures' = <<>>) <=> (captures = <<>>)
  BY <1>3, CapturesShape DEF CapturesTyped
<1>5. ThreadsTyped' /\ WantedTyped'
  BY <1>1, <1>3 DEF WantedTyped, ThreadsTyped, OpenTimesOut, Consumer
<1>6. OwnersFit'
  BY <1>1, <1>2, StoppedOwners
<1>7. HandsFit'
  BY <1>1, <1>3, <1>4 DEF HandsFit, FirstConnect, Past
<1>8. Held'
  BY <1>1, <1>3, ConsumersCapture DEF Held, Alive, HandsFit
<1>9. SettingsFit'
  BY <1>1, <1>3 DEF SettingsFit, InTouch, Nothing
<1> QED
  BY <1>3, <1>5, <1>6, <1>7, <1>8, <1>9

LEMMA ReleasesKeeps ==
  ASSUME CameraInv, Releases
  PROVE  CameraInv'
<1> USE DEF CameraInv
<1>1. /\ consumer.pc = "release" /\ consumer'.pc = "join" /\ consumer'.cap = consumer.cap
      /\ consumer'.doomed = consumer.doomed
      /\ captures' = Stopped(consumer.doomed) /\ UNCHANGED <<controls, wanted, camera, stopper>>
      /\ consumer.doomed \in CaptureIds
  BY ConsumersCapture DEF Releases, Consumer, ThreadsTyped
<1>2. PICK c \in CaptureIds : c = consumer.doomed /\ captures' = Stopped(c)
  BY <1>1
<1>3. /\ CapturesTyped' /\ Len(captures') = Len(captures) /\ CaptureIds' = CaptureIds
      /\ captures'[c].stop
      /\ \A o \in CaptureIds :
           /\ captures'[o].pc = captures[o].pc
           /\ captures[o].stop => captures'[o].stop
  BY <1>1, <1>2, StoppedShape
<1>4. (captures' = <<>>) <=> (captures = <<>>)
  BY <1>3, CapturesShape DEF CapturesTyped
<1>5. ThreadsTyped' /\ WantedTyped'
  BY <1>1, <1>3 DEF WantedTyped, ThreadsTyped, Releases, Consumer
<1>6. OwnersFit'
  BY <1>1, <1>2, StoppedOwners
<1>7. HandsFit'
  BY <1>1, <1>3, <1>4 DEF HandsFit, FirstConnect, Past
<1>8. Held'
  BY <1>1, <1>2, <1>3, ConsumersCapture DEF Held, Alive
<1>9. SettingsFit'
  BY <1>1 DEF SettingsFit, InTouch
<1> QED
  BY <1>3, <1>5, <1>6, <1>7, <1>8, <1>9

LEMMA NotOpenedKeeps ==
  ASSUME CameraInv, NotOpened \/ (Publish /\ camera.closed)
  PROVE  CameraInv'
<1> USE DEF CameraInv
<1>1. /\ consumer.pc = "check" /\ consumer' = Releasing(consumer.cap, Failed)
      /\ UNCHANGED <<captures, controls, wanted, camera, stopper>>
      /\ camera.cap = NoCapture /\ consumer.cap # NoCapture /\ consumer.cap = Len(captures)
      /\ camera \in [ cap : {NoCapture}, closed : BOOLEAN ]
  BY ConsumersCapture DEF NotOpened, Publish, HandsFit, ThreadsTyped
<1>2. Failed \in {"construct", "backoff", "done"}
  BY <1>1, FailedType
<1>3. /\ ThreadsTyped' /\ consumer'.pc = "release"
      /\ consumer'.doomed = consumer.cap /\ consumer'.cap = consumer.cap
  BY <1>1, <1>2, ReleasingShape
<1>4. CapturesTyped' /\ WantedTyped' /\ OwnersFit' /\ SettingsFit'
  BY <1>1, <1>3, Disconnects
<1>5. HandsFit'
  BY <1>1, <1>3 DEF HandsFit, FirstConnect, Past
<1>6. 0 \notin CaptureIds
  BY ConsumersCapture
<1>7. Held'
  BY <1>1, <1>3, <1>6 DEF Held, Alive, CaptureIds, HandsFit, NoCapture
<1> QED
  BY <1>3, <1>4, <1>5, <1>7

(* The consumer takes back or closes what the camera holds.                *)
LEMMA LettingGoKeeps ==
  ASSUME CameraInv, GuardRefuses \/ CameraCloses \/ Reopens
  PROVE  CameraInv'
<1> USE DEF CameraInv
<1>1. PICK next \in {"construct", "backoff", "done"} :
        /\ consumer' = Releasing(camera.cap, next)
        /\ UNCHANGED <<captures, controls, wanted, stopper>>
        /\ camera'.cap = NoCapture /\ camera' \in [ cap : {NoCapture}, closed : BOOLEAN ]
        /\ consumer.pc \in {"set", "close", "reopen"}
        /\ next = "construct" => ~ camera'.closed
  <2>1. CASE GuardRefuses
    <3>1. Failed \in {"backoff", "done"}
      BY <2>1, FailedType DEF GuardRefuses
    <3> QED
      BY <2>1, <3>1 DEF GuardRefuses, ThreadsTyped
  <2>2. CASE CameraCloses
    BY <2>2 DEF CameraCloses, ThreadsTyped
  <2>3. CASE Reopens
    BY <2>3 DEF Reopens, ThreadsTyped
  <2> QED
    BY <2>1, <2>2, <2>3
<1>2. camera.cap \in {NoCapture, Len(captures)}
  BY DEF ThreadsTyped
<1>3. /\ ThreadsTyped'
      /\ consumer'.pc = IF camera.cap = NoCapture THEN next ELSE "release"
      /\ consumer'.doomed = camera.cap /\ consumer'.cap = consumer.cap
  BY <1>1, <1>2, ReleasingShape
<1>4. CapturesTyped' /\ WantedTyped' /\ OwnersFit' /\ SettingsFit'
  BY <1>1, <1>3, Disconnects
<1>5. captures # <<>>
  BY <1>1 DEF HandsFit
<1>6. HandsFit'
  BY <1>1, <1>3, <1>5 DEF HandsFit, FirstConnect, Past
<1>7. 0 \notin CaptureIds
  BY ConsumersCapture
<1>8. Held'
  BY <1>1, <1>3, <1>7 DEF Held, Alive, CaptureIds, HandsFit, NoCapture
<1> QED
  BY <1>3, <1>4, <1>6, <1>8

(* The consumer goes on without touching camera or captures.               *)
LEMMA GoingOnKeeps ==
  ASSUME CameraInv, Recovers \/ BackoffEnds
  PROVE  CameraInv'
<1> USE DEF CameraInv
<1>1. /\ consumer.pc \in {"lost", "backoff"} /\ consumer'.cap = consumer.cap
      /\ consumer'.doomed = consumer.doomed
      /\ UNCHANGED <<captures, controls, wanted, camera, stopper>>
      /\ (consumer'.pc = "done" /\ Stopping) \/ consumer'.pc \in {"close", "reopen"}
  BY DEF Recovers, BackoffEnds, Consumer, ThreadsTyped
<1>2. ThreadsTyped'
  BY <1>1 DEF ThreadsTyped, Recovers, BackoffEnds, Consumer
<1>3. CapturesTyped' /\ WantedTyped' /\ OwnersFit' /\ SettingsFit'
  BY <1>1, Disconnects
<1>4. HandsFit'
  BY <1>1 DEF HandsFit, FirstConnect, Past, Stopping, ThreadsTyped
<1>5. Held'
  BY <1>1 DEF Held, Alive, CaptureIds
<1> QED
  BY <1>2, <1>3, <1>4, <1>5

LEMMA JoinsKeeps ==
  ASSUME CameraInv, Joins
  PROVE  CameraInv'
<1> USE DEF CameraInv
<1>1. /\ consumer.pc = "join" /\ consumer'.cap = consumer.cap
      /\ consumer'.doomed = NoCapture /\ consumer'.pc = consumer.next
      /\ consumer.next \in {"construct", "backoff", "done"}
      /\ UNCHANGED <<captures, controls, wanted, camera, stopper>>
      /\ camera.cap = NoCapture
  BY DEF Joins, ThreadsTyped, HandsFit
<1>2. ThreadsTyped'
  <2>1. 0 \in 0 .. Len(captures)
    BY ConsumersCapture
  <2>2. consumer' = [ consumer EXCEPT !.pc = consumer.next, !.doomed = 0 ]
    BY DEF Joins, NoCapture
  <2> QED
    BY <1>1, <2>1, <2>2 DEF ThreadsTyped
<1>3. CapturesTyped' /\ WantedTyped' /\ OwnersFit' /\ SettingsFit'
  BY <1>1, Disconnects
<1>4. HandsFit'
  BY <1>1 DEF HandsFit, FirstConnect, Past
<1>5. Held'
  BY <1>1, ConsumersCapture DEF Held, Alive, CaptureIds
<1> QED
  BY <1>2, <1>3, <1>4, <1>5

-----------------------------------------------------------------------------
(* The capture that has answered is the one that serves: its graph runs.   *)
LEMMA PublishKeeps ==
  ASSUME CameraInv, Publish, ~ camera.closed
  PROVE  CameraInv'
<1> USE DEF CameraInv
<1>1. /\ consumer.pc = "check" /\ consumer'.pc = "set" /\ consumer'.cap = consumer.cap
      /\ consumer'.doomed = consumer.doomed /\ consumer'.todo = 1 /\ ~ consumer'.failed
      /\ UNCHANGED <<captures, controls, wanted, stopper>>
      /\ camera'.cap = consumer.cap /\ ~ camera'.closed /\ camera.cap = NoCapture
      /\ captures[consumer.cap].opened /\ consumer.cap \in CaptureIds
  BY ConsumersCapture DEF Publish, ThreadsTyped, HandsFit
<1>2. CapturesTyped' /\ WantedTyped' /\ ThreadsTyped'
  <2>1. /\ camera' = [ camera EXCEPT !.cap = consumer.cap ]
        /\ consumer' = [ consumer EXCEPT !.pc = "set", !.todo = 1, !.failed = FALSE ]
    BY DEF Publish
  <2>2. Len(captures') = Len(captures) /\ consumer.cap = Len(captures) /\ stopper' = stopper
    BY <1>1 DEF ThreadsTyped
  <2>3. camera' \in [ cap : {NoCapture, Len(captures)}, closed : BOOLEAN ]
    BY <2>1, <2>2 DEF ThreadsTyped
  <2>4. consumer' \in
         [ pc : { "construct", "open", "check", "set", "asked", "stream", "reading", "lost",
                "close", "backoff", "reopen", "release", "join", "done" },
           cap : {Len(captures)}, todo : 1 .. 3, failed : BOOLEAN,
           doomed : 0 .. Len(captures), next : {"construct", "backoff", "done"} ]
    <3>1. 1 \in 1 .. 3 /\ FALSE \in BOOLEAN
      OBVIOUS
    <3>2. ThreadsTyped
      OBVIOUS
    <3> QED
      BY <2>1, <3>1, <3>2 DEF ThreadsTyped
  <2>5. ThreadsTyped'
    BY <2>2, <2>3, <2>4 DEF ThreadsTyped
  <2> QED
    BY <1>1, <2>5 DEF CapturesTyped, WantedTyped
<1>3. OwnersFit'
  BY <1>1 DEF OwnersFit, CaptureIds, Starting, Serving
<1>4. HandsFit'
  BY <1>1 DEF HandsFit, FirstConnect, Past
<1>5. Held'
  <2>1. 0 \notin CaptureIds
    BY ConsumersCapture
  <2> QED
    BY <1>1, <2>1 DEF Held, Alive, CaptureIds, NoCapture
<1>6. Serving(consumer.cap) /\ captures[consumer.cap].running /\ ~ Starting(consumer.cap)
  BY <1>1 DEF OwnersFit, Serving, Starting
<1>7. Alone(consumer.cap)
  BY <1>1, <1>6 DEF OwnersFit, Alone
<1>8. Nothing(consumer.cap)
  BY <1>1 DEF SettingsFit
<1>9. SettingsFit'
  BY <1>1, <1>7, <1>8
  DEF SettingsFit, InTouch, NoneLate, Nothing, Alone, Starting, Serving, CaptureIds
<1> QED
  BY <1>2, <1>3, <1>4, <1>5, <1>9

(* Steps within a connection that leave the captures alone.                *)
LEMMA StaysConnected ==
  ASSUME CameraInv, InTouch, UNCHANGED <<captures, controls, wanted, camera, stopper>>,
         consumer'.pc \in {"set", "stream", "reading", "lost"},
         consumer'.cap = consumer.cap, consumer'.doomed = consumer.doomed, ThreadsTyped',
         consumer'.pc = "set" => consumer.pc = "set" /\ consumer'.failed,
         consumer'.pc \in {"stream", "reading"} =>
           /\ consumer.pc # "asked" /\ consumer'.todo = consumer.todo /\ consumer.todo = 3
           /\ consumer'.failed = consumer.failed
           /\ consumer.pc = "set" => ~ camera.closed /\ (FirstConnect \/ ~ Stopping),
         consumer'.pc = "lost" => consumer.pc \in {"stream", "reading"}
  PROVE  CameraInv'
<1> USE DEF CameraInv
<1>1. CapturesTyped' /\ WantedTyped'
  BY DEF CapturesTyped, WantedTyped
<1>2. OwnersFit'
  BY DEF OwnersFit, CaptureIds, Starting, Serving, InTouch
<1>3. captures # <<>>
  BY DEF HandsFit, InTouch
<1>4. CASE consumer'.pc = "set"
  <2>1. HandsFit' /\ Held'
    BY <1>4 DEF HandsFit, FirstConnect, Past, Held, Alive, CaptureIds
  <2>2. SettingsFit'
    BY <1>4 DEF SettingsFit, InTouch, Alone, Starting, Serving, CaptureIds
  <2> QED
    BY <1>1, <1>2, <2>1, <2>2
<1>5. CASE consumer'.pc \in {"stream", "reading", "lost"}
  <2>1. camera.cap # NoCapture => ~ Past
    BY <1>5 DEF HandsFit, FirstConnect, Past, Stopping, InTouch
  <2>2. HandsFit'
    BY <1>3, <1>5, <2>1 DEF HandsFit, FirstConnect, Past, InTouch
  <2>3. Held'
    BY <1>5 DEF Held, Alive, CaptureIds, InTouch
  <2>4. SettingsFit'
    BY <1>5
    DEF SettingsFit, InTouch, Alone, Starting, Serving, CaptureIds, NoneLate, Nothing, AutoSet,
        ExposureSet
  <2> QED
    BY <1>1, <1>2, <2>2, <2>3, <2>4
<1> QED
  BY <1>4, <1>5

LEMMA ReadingKeeps ==
  ASSUME CameraInv, ReadBegins \/ ReadTimesOut
  PROVE  CameraInv'
<1>1. /\ consumer.pc \in {"stream", "reading"} /\ consumer'.pc \in {"stream", "reading", "lost"}
      /\ consumer'.cap = consumer.cap /\ consumer'.doomed = consumer.doomed
      /\ consumer'.todo = consumer.todo /\ consumer'.failed = consumer.failed
      /\ UNCHANGED <<captures, controls, wanted, camera, stopper>>
  BY DEF CameraInv, ThreadsTyped, ReadBegins, ReadTimesOut, Consumer
<1>2. ThreadsTyped'
  BY <1>1 DEF CameraInv, ThreadsTyped, ReadBegins, ReadTimesOut, Consumer
<1>3. consumer.todo = 3
  BY <1>1 DEF CameraInv, SettingsFit
<1> QED
  BY <1>1, <1>2, <1>3, StaysConnected DEF InTouch

LEMMA CompletedKeeps ==
  ASSUME CameraInv, Completed
  PROVE  CameraInv'
<1> USE DEF CameraInv
<1>1. /\ consumer.pc = "set" /\ consumer.todo = 3 /\ consumer'.cap = consumer.cap
      /\ consumer'.doomed = consumer.doomed
      /\ consumer'.todo = consumer.todo /\ consumer'.failed = consumer.failed
      /\ UNCHANGED <<captures, controls, wanted, camera, stopper>>
  BY DEF ThreadsTyped, Completed, Consumer, Settings
<1>2. Failed \in {"backoff", "done"} /\ (Failed = "done" => Len(captures) = 1)
  BY <1>1, FailedType
<1>3. CASE camera.closed
  <2>1. ~ FirstConnect /\ consumer'.pc = "backoff"
    BY <1>1, <1>2, <1>3 DEF Completed, Consumer, HandsFit, FirstConnect, ThreadsTyped
  <2>2. ThreadsTyped'
    BY <1>1, <1>2, <1>3 DEF ThreadsTyped, Completed, Consumer
  <2>3. CapturesTyped' /\ WantedTyped' /\ OwnersFit' /\ SettingsFit'
    BY <1>1, <2>1, Disconnects
  <2>4. HandsFit'
    BY <1>1, <1>3, <2>1 DEF HandsFit, FirstConnect, Past
  <2>5. Held'
    BY <1>1, <2>1 DEF Held, Alive, CaptureIds
  <2> QED
    BY <2>2, <2>3, <2>4, <2>5
<1>4. CASE ~ camera.closed /\ Stopping /\ Len(captures) > 1
  <2>1. consumer'.pc = "close"
    BY <1>4 DEF Completed, Consumer, ThreadsTyped
  <2>2. ThreadsTyped'
    BY <1>1, <1>4 DEF ThreadsTyped, Completed, Consumer
  <2>3. CapturesTyped' /\ WantedTyped' /\ OwnersFit' /\ SettingsFit'
    BY <1>1, <2>1, Disconnects
  <2>4. HandsFit'
    BY <1>1, <1>4, <2>1 DEF HandsFit, FirstConnect, Past
  <2>5. Held'
    BY <1>1, <2>1 DEF Held, Alive, CaptureIds
  <2> QED
    BY <2>2, <2>3, <2>4, <2>5
<1>5. CASE ~ camera.closed /\ ~ (Stopping /\ Len(captures) > 1)
  <2>1. consumer'.pc = "stream"
    BY <1>5 DEF Completed, Consumer, ThreadsTyped
  <2>2. ThreadsTyped'
    BY <1>1, <1>5 DEF ThreadsTyped, Completed, Consumer
  <2>3. Stopping => FirstConnect
    <3>1. ASSUME Stopping PROVE Len(captures) = 1
      <4>1. ~ (Len(captures) > 1)
        BY <1>5, <3>1
      <4> QED
        <5>1. Len(captures) \in Nat /\ consumer.cap \in 1 .. Len(captures)
          BY <1>1, ConsumersCapture
        <5>2. PICK n \in Nat : n = Len(captures) /\ consumer.cap \in 1 .. n /\ ~ (n > 1)
          BY <4>1, <5>1
        <5>3. PICK k \in 1 .. n : TRUE
          BY <5>2
        <5>4. n = 1
          BY <5>2, <5>3
        <5> QED
          BY <5>2, <5>4
    <3> QED
      BY <1>1, <3>1 DEF FirstConnect
  <2> QED
    BY <1>1, <1>5, <2>1, <2>2, <2>3, StaysConnected DEF InTouch
<1> QED
  BY <1>3, <1>4, <1>5

LEMMA ReadGetsKeeps ==
  ASSUME CameraInv, ReadGets
  PROVE  CameraInv'
<1> USE DEF CameraInv
<1>1. /\ consumer.pc = "reading" /\ consumer.cap \in CaptureIds /\ consumer.todo = 3
      /\ consumer'.pc \in {"stream", "lost"}
      /\ consumer'.cap = consumer.cap /\ consumer'.doomed = consumer.doomed
      /\ consumer'.todo = consumer.todo /\ consumer'.failed = consumer.failed
      /\ captures' = [ captures EXCEPT ![consumer.cap].frame = "read" ]
      /\ UNCHANGED <<controls, wanted, camera, stopper>>
  BY ConsumersCapture DEF ReadGets, Consumer, ThreadsTyped, SettingsFit
<1>2. PICK c \in CaptureIds : c = consumer.cap
  BY <1>1
<1> DEFINE r == [ captures[c] EXCEPT !.frame = "read" ]
<1>3. /\ r \in CaptureRec /\ captures' = [ captures EXCEPT ![c] = r ]
      /\ r.pc = captures[c].pc /\ r.stop = captures[c].stop /\ r.opened = captures[c].opened
      /\ r.running = captures[c].running /\ r.cmd_q = captures[c].cmd_q
      /\ r.hand = captures[c].hand /\ r.ae_auto = captures[c].ae_auto
  <2>1. captures[c] \in CaptureRec
    BY CapturesShape DEF CapturesTyped
  <2> QED
    BY <1>1, <1>2, <2>1 DEF CaptureRec
<1> HIDE DEF r
<1>4. /\ CapturesTyped' /\ Len(captures') = Len(captures) /\ CaptureIds' = CaptureIds
      /\ \A o \in CaptureIds :
           /\ captures'[o].pc = captures[o].pc /\ captures'[o].stop = captures[o].stop
           /\ captures'[o].opened = captures[o].opened
           /\ captures'[o].running = captures[o].running
           /\ captures'[o].cmd_q = captures[o].cmd_q /\ captures'[o].hand = captures[o].hand
           /\ captures'[o].ae_auto = captures[o].ae_auto
  <2>1. /\ captures' \in Seq(CaptureRec) /\ Len(captures') = Len(captures)
        /\ CaptureIds' = CaptureIds /\ captures'[c] = r
        /\ \A o \in CaptureIds : o # c => captures'[o] = captures[o]
    BY <1>3, OneChanges DEF CapturesTyped
  <2> QED
    BY <1>1, <1>3, <2>1 DEF CapturesTyped
<1>5. captures # <<>> /\ captures' # <<>>
  BY <1>1, <1>4, CapturesShape DEF HandsFit, CapturesTyped
<1>6. WantedTyped' /\ ThreadsTyped'
  BY <1>1, <1>4 DEF WantedTyped, ThreadsTyped, ReadGets, Consumer
<1>7. OwnersFit'
  BY <1>1, <1>4 DEF OwnersFit, Starting, Serving
<1>8. HandsFit'
  BY <1>1, <1>4, <1>5 DEF HandsFit, FirstConnect, Past
<1>9. Held'
  BY <1>1, <1>4, ConsumersCapture DEF Held, Alive
<1>10. SettingsFit'
  BY <1>1, <1>4
  DEF SettingsFit, InTouch, Alone, Starting, Serving, NoneLate, Nothing, AutoSet, ExposureSet
<1> QED
  BY <1>4, <1>6, <1>7, <1>8, <1>9, <1>10

-----------------------------------------------------------------------------
(* A step of set(): the queue or the answer of the consumer's capture.     *)
LEMMA SettingShape ==
  ASSUME CameraInv, consumer.pc \in {"set", "asked"}, consumer'.pc \in {"set", "asked"},
         consumer'.cap = consumer.cap, consumer'.doomed = consumer.doomed, ThreadsTyped',
         UNCHANGED <<controls, wanted, camera, stopper>>,
         NEW c \in CaptureIds, c = consumer.cap,
         NEW cmds \in Seq(CallRec), NEW answer \in CallRec,
         captures' = [ captures EXCEPT ![c] =
                         [ captures[c] EXCEPT !.cmd_q = cmds, !.hand = answer ] ]
  PROVE  /\ CapturesTyped' /\ WantedTyped' /\ OwnersFit' /\ HandsFit' /\ Held'
         /\ Alone(c)'
         /\ captures'[c].cmd_q = cmds /\ captures'[c].hand = answer
         /\ captures'[c].pc = captures[c].pc /\ captures'[c].ae_auto = captures[c].ae_auto
<1> USE DEF CameraInv
<1> DEFINE r == [ captures[c] EXCEPT !.cmd_q = cmds, !.hand = answer ]
<1>1. /\ r \in CaptureRec /\ captures' = [ captures EXCEPT ![c] = r ]
      /\ r.pc = captures[c].pc /\ r.stop = captures[c].stop /\ r.opened = captures[c].opened
      /\ r.running = captures[c].running /\ r.cmd_q = cmds /\ r.hand = answer
      /\ r.ae_auto = captures[c].ae_auto
  <2>1. captures[c] \in CaptureRec
    BY CapturesShape DEF CapturesTyped
  <2> QED
    BY <2>1 DEF CaptureRec
<1> HIDE DEF r
<1>2. /\ captures' \in Seq(CaptureRec) /\ Len(captures') = Len(captures)
      /\ CaptureIds' = CaptureIds /\ captures'[c] = r
      /\ \A o \in CaptureIds : o # c => captures'[o] = captures[o]
  BY <1>1, OneChanges DEF CapturesTyped
<1>3. \A o \in CaptureIds :
        /\ captures'[o].pc = captures[o].pc /\ captures'[o].stop = captures[o].stop
        /\ captures'[o].opened = captures[o].opened
        /\ captures'[o].running = captures[o].running
  BY <1>1, <1>2
<1>4. captures # <<>> /\ captures' # <<>>
  BY <1>2, CapturesShape DEF HandsFit, CapturesTyped
<1>5. CapturesTyped' /\ WantedTyped'
  BY <1>2 DEF CapturesTyped, WantedTyped
<1>6. OwnersFit'
  BY <1>2, <1>3 DEF OwnersFit, Starting, Serving
<1>7. HandsFit'
  BY <1>2, <1>4 DEF HandsFit, FirstConnect, Past
<1>8. Held'
  BY <1>2, <1>3, ConsumersCapture DEF Held, Alive
<1>9. Alone(c)'
  BY <1>2, <1>3 DEF SettingsFit, InTouch, Alone, Starting, Serving
<1> QED
  BY <1>1, <1>2, <1>5, <1>6, <1>7, <1>8, <1>9

LEMMA SetAsksKeeps ==
  ASSUME CameraInv, SetAsks
  PROVE  CameraInv'
<1> USE DEF CameraInv
<1>1. /\ consumer.pc = "set" /\ consumer.todo \in {1, 2} /\ consumer.cap \in CaptureIds
      /\ UNCHANGED <<controls, wanted, camera, stopper>>
  BY ConsumersCapture DEF SetAsks, Settings, ThreadsTyped
<1>2. CASE consumer' = [ consumer EXCEPT !.failed = TRUE, !.todo = @ + 1 ] /\ UNCHANGED captures
  <2>1. consumer.todo + 1 \in 1 .. 3
    BY <1>1
  <2>2. ThreadsTyped'
    BY <1>1, <1>2, <2>1 DEF ThreadsTyped
  <2>3. /\ consumer'.pc = "set" /\ consumer'.cap = consumer.cap
        /\ consumer'.doomed = consumer.doomed /\ consumer'.failed
    BY <1>1, <1>2 DEF ThreadsTyped
  <2> QED
    BY <1>1, <1>2, <2>2, <2>3, StaysConnected DEF InTouch
<1>3. CASE /\ captures' = Queued(consumer.cap, Settings[consumer.todo], Value(Settings[consumer.todo]))
           /\ Consumer("asked")
  <2>1. PICK c \in CaptureIds : c = consumer.cap
    BY <1>1
  <2>2. captures[c] \in CaptureRec /\ captures[c].cmd_q \in Seq(CallRec) /\ captures[c].hand \in CallRec
    BY CapturesShape DEF CapturesTyped, CaptureRec
  <2>3. PICK m : m = [ prop |-> Settings[consumer.todo], value |-> Value(Settings[consumer.todo]),
                       state |-> "asked" ]
    OBVIOUS
  <2>4. m \in CallRec
    BY <1>1, <2>3, ControlTypes DEF CallRec, Settings, Value
  <2>5. /\ consumer'.pc = "asked" /\ consumer'.cap = consumer.cap /\ consumer'.todo = consumer.todo
        /\ consumer'.doomed = consumer.doomed /\ consumer'.failed = consumer.failed
    BY <1>3 DEF Consumer, ThreadsTyped
  <2>6. PICK cmds \in Seq(CallRec) : cmds = Append(captures[c].cmd_q, m)
    <3>1. Append(captures[c].cmd_q, m) \in Seq(CallRec)
      BY <2>2, <2>4, AppendProperties
    <3> QED
      BY <3>1
  <2>7. captures' = [ captures EXCEPT ![c] =
                        [ captures[c] EXCEPT !.cmd_q = cmds, !.hand = captures[c].hand ] ]
    BY <1>3, <2>1, <2>2, <2>3, <2>6 DEF Queued, CaptureIds, CapturesTyped, CaptureRec
  <2>8. Len(captures') = Len(captures)
    BY <2>7, CapturesShape DEF CapturesTyped, CaptureIds
  <2>9. ThreadsTyped'
    BY <1>1, <1>3, <2>8 DEF ThreadsTyped, Consumer
  <2>10. /\ CapturesTyped' /\ WantedTyped' /\ OwnersFit' /\ HandsFit' /\ Held' /\ Alone(c)'
         /\ captures'[c].cmd_q = cmds /\ captures'[c].hand = captures[c].hand
         /\ captures'[c].pc = captures[c].pc /\ captures'[c].ae_auto = captures[c].ae_auto
    BY <1>1, <2>1, <2>2, <2>5, <2>7, <2>9, SettingShape
  <2>11. ASSUME ~ consumer.failed PROVE NoneLate(c)'
    <3>1. NoneLate(c) /\ Nothing(c)
      BY <1>1, <2>1, <2>11 DEF SettingsFit, InTouch, NoneLate
    <3>2. cmds = <<m>> /\ cmds[1] = m
      BY <2>6, <3>1 DEF Nothing
    <3>3. m.prop = Settings[consumer.todo] /\ m.value = Value(Settings[consumer.todo])
          /\ m.state = "asked"
      BY <2>3
    <3>4. IsAsk(m)'
      BY <1>1, <2>5, <3>3 DEF IsAsk, Value
    <3>5. InHand(c)'
      BY <2>10, <3>1, <3>2, <3>4 DEF InHand, Nothing
    <3> QED
      BY <1>1, <2>5, <2>10, <3>1, <3>5 DEF NoneLate, AutoSet, ExposureSet
  <2>12. SettingsFit'
    BY <1>1, <2>1, <2>5, <2>10, <2>11 DEF SettingsFit, InTouch
  <2> QED
    BY <2>9, <2>10, <2>12
<1> QED
  BY <1>2, <1>3 DEF SetAsks

LEMMA ReportShape ==
  ASSUME CameraInv, consumer.pc = "asked", NEW accepted \in BOOLEAN, Report(accepted),
         Len(captures') = Len(captures), UNCHANGED <<camera, stopper>>
  PROVE  /\ consumer'.pc = "set" /\ consumer'.cap = consumer.cap
         /\ consumer'.doomed = consumer.doomed
         /\ (~ accepted => consumer'.failed) /\ (consumer.failed => consumer'.failed)
         /\ consumer.todo \in {1, 2} /\ consumer'.todo = consumer.todo + 1 /\ ThreadsTyped'
<1>1. ThreadsTyped
  BY DEF CameraInv
<1>2. /\ consumer'.pc = "set" /\ consumer'.cap = consumer.cap
      /\ consumer'.doomed = consumer.doomed
  BY <1>1 DEF Report, ThreadsTyped
<1>3. consumer'.failed = (consumer.failed \/ ~ accepted)
  BY <1>1 DEF Report, ThreadsTyped
<1>4. consumer.todo \in {1, 2}
  BY DEF CameraInv, ThreadsTyped, SettingsFit
<1>5. consumer'.todo = consumer.todo + 1 /\ ThreadsTyped'
  <2>1. PICK n \in 1 .. 3 : n = consumer.todo + 1
    BY <1>4
  <2>2. PICK f \in BOOLEAN : f = (consumer.failed \/ ~ accepted)
    OBVIOUS
  <2>3. consumer' = [ consumer EXCEPT !.pc = "set", !.todo = n, !.failed = f ]
    BY <1>1, <2>1, <2>2 DEF Report, ThreadsTyped
  <2> QED
    BY <1>1, <2>1, <2>3 DEF ThreadsTyped
<1> QED
  BY <1>2, <1>3, <1>4, <1>5

LEMMA SetAnsweredKeeps ==
  ASSUME CameraInv, SetAnswered
  PROVE  CameraInv'
<1> USE DEF CameraInv
<1>1. /\ consumer.pc = "asked" /\ consumer.cap \in CaptureIds
      /\ UNCHANGED <<controls, wanted, camera, stopper>>
  BY ConsumersCapture DEF SetAnswered
<1>2. PICK c \in CaptureIds : c = consumer.cap
  BY <1>1
<1>3. captures[c] \in CaptureRec /\ captures[c].cmd_q \in Seq(CallRec)
  BY CapturesShape DEF CapturesTyped, CaptureRec
<1>4. captures' = [ captures EXCEPT ![c] =
                      [ captures[c] EXCEPT !.cmd_q = captures[c].cmd_q, !.hand = NoCall ] ]
  BY <1>2, <1>3 DEF SetAnswered, CaptureIds, CapturesTyped, CaptureRec
<1>5. Len(captures') = Len(captures)
  BY <1>4, CapturesShape DEF CapturesTyped, CaptureIds
<1>6. PICK accepted \in BOOLEAN :
        Report(accepted) /\ accepted = (captures[c].hand.state = "ok")
  BY <1>2 DEF SetAnswered
<1>7. /\ consumer'.pc = "set" /\ consumer'.cap = consumer.cap
      /\ consumer'.doomed = consumer.doomed
      /\ (~ accepted => consumer'.failed) /\ (consumer.failed => consumer'.failed)
      /\ consumer.todo \in {1, 2} /\ consumer'.todo = consumer.todo + 1 /\ ThreadsTyped'
  BY <1>1, <1>5, <1>6, ReportShape
<1>8. /\ CapturesTyped' /\ WantedTyped' /\ OwnersFit' /\ HandsFit' /\ Held' /\ Alone(c)'
      /\ captures'[c].cmd_q = captures[c].cmd_q /\ captures'[c].hand = NoCall
      /\ captures'[c].pc = captures[c].pc /\ captures'[c].ae_auto = captures[c].ae_auto
  BY <1>1, <1>2, <1>3, <1>4, <1>7, NoCallType, SettingShape
<1>9. ASSUME ~ consumer'.failed PROVE NoneLate(c)'
  <2>1. accepted /\ NoneLate(c) /\ InHand(c)
    BY <1>1, <1>2, <1>7, <1>9 DEF SettingsFit, InTouch, NoneLate
  <2>2. captures[c].hand.state = "ok"
    BY <2>1, <1>6
  <2>3. /\ captures[c].cmd_q = <<>> /\ captures[c].pc # "control"
        /\ AutoSet(c) /\ (consumer.todo = 2 => ExposureSet)
    BY <2>1, <2>2, NoCallType DEF InHand, IsAsk
  <2>4. consumer'.todo = 3 => consumer.todo = 2
    BY <1>7
  <2> QED
    BY <1>1, <1>7, <1>8, <2>3, <2>4 DEF NoneLate, Nothing, AutoSet, ExposureSet
<1>10. SettingsFit'
  BY <1>2, <1>7, <1>8, <1>9 DEF SettingsFit, InTouch
<1> QED
  BY <1>7, <1>8, <1>10

(* A command nobody waits for any more can spoil the controls later: from  *)
(* here on the connect has a failed setting.                               *)
LEMMA SetTimesOutKeeps ==
  ASSUME CameraInv, SetTimesOut
  PROVE  CameraInv'
<1> USE DEF CameraInv
<1>1. /\ consumer.pc = "asked" /\ consumer.cap \in CaptureIds
      /\ UNCHANGED <<controls, wanted, camera, stopper>>
  BY ConsumersCapture DEF SetTimesOut
<1>2. PICK c \in CaptureIds : c = consumer.cap
  BY <1>1
<1>3. captures[c] \in CaptureRec /\ captures[c].cmd_q \in Seq(CallRec) /\ captures[c].hand \in CallRec
  BY CapturesShape DEF CapturesTyped, CaptureRec
<1>4. PICK cmds \in Seq(CallRec) :
        cmds = [ i \in DOMAIN captures[c].cmd_q |-> [captures[c].cmd_q[i] EXCEPT !.state = "unheard"] ]
  <2>1. PICK q \in Seq(CallRec) : q = captures[c].cmd_q
    BY <1>3
  <2>2. \A i \in DOMAIN q : [q[i] EXCEPT !.state = "unheard"] \in CallRec
    <3> SUFFICES ASSUME NEW i \in DOMAIN q PROVE [q[i] EXCEPT !.state = "unheard"] \in CallRec
      OBVIOUS
    <3>1. PICK m \in CallRec : m = q[i]
      OBVIOUS
    <3>2. [m EXCEPT !.state = "unheard"] \in CallRec
      BY DEF CallRec
    <3> QED
      BY <3>1, <3>2
  <2>3. [ i \in DOMAIN q |-> [q[i] EXCEPT !.state = "unheard"] ] \in Seq(CallRec)
    BY <2>2
  <2> QED
    BY <2>1, <2>3
<1>5. PICK answer \in CallRec :
        answer = IF captures[c].pc = "control" THEN [captures[c].hand EXCEPT !.state = "unheard"]
                                               ELSE NoCall
  BY <1>3, NoCallType DEF CallRec
<1>6. captures' = [ captures EXCEPT ![c] =
                      [ captures[c] EXCEPT !.cmd_q = cmds, !.hand = answer ] ]
  BY <1>2, <1>3, <1>4, <1>5 DEF SetTimesOut, Unheard, CaptureIds, CapturesTyped, CaptureRec
<1>7. Len(captures') = Len(captures)
  BY <1>6, CapturesShape DEF CapturesTyped, CaptureIds
<1>8. /\ consumer'.pc = "set" /\ consumer'.cap = consumer.cap
      /\ consumer'.doomed = consumer.doomed /\ consumer'.failed /\ ThreadsTyped'
  BY <1>1, <1>7, ReportShape DEF SetTimesOut
<1>9. /\ CapturesTyped' /\ WantedTyped' /\ OwnersFit' /\ HandsFit' /\ Held' /\ Alone(c)'
  BY <1>1, <1>2, <1>6, <1>8, SettingShape
<1>10. SettingsFit'
  BY <1>2, <1>8, <1>9 DEF SettingsFit, InTouch
<1> QED
  BY <1>8, <1>9, <1>10

LEMMA StepCameraInv == CameraInv /\ [Next]_vars => CameraInv'
<1> SUFFICES ASSUME CameraInv, [Next]_vars PROVE CameraInv'
  OBVIOUS
<1>1. CASE UNCHANGED vars
  BY <1>1
  DEF vars, CameraInv, CapturesTyped, ThreadsTyped, WantedTyped, OwnersFit, HandsFit, Held,
      SettingsFit, CaptureIds, Starting, Serving, Past, FirstConnect, Alive, Nothing, InTouch,
      Alone, NoneLate, InHand, IsAsk, Value, AutoSet, ExposureSet
<1>2. CASE ConsumerStep
  BY <1>2, ConstructKeeps, OpenEndsKeeps, OpenTimesOutKeeps, NotOpenedKeeps, PublishKeeps,
     SetAsksKeeps, SetAnsweredKeeps, SetTimesOutKeeps, LettingGoKeeps, CompletedKeeps,
     ReadingKeeps, ReadGetsKeeps, GoingOnKeeps, ReleasesKeeps, JoinsKeeps DEF ConsumerStep
<1>3. CASE StopSets \/ StopperStep
  BY <1>3, StopperKeeps, CloseReleasesKeeps DEF StopperStep
<1>4. ASSUME NEW c \in CaptureIds, Threads(c) PROVE CameraInv'
  <2>1. OwnerStep(c) \/ FrameComes(c)
    BY <1>4 DEF Threads
  <2>2. UNCHANGED <<wanted, camera, consumer, stopper>>
    BY <1>4 DEF Threads
  <2> QED
    BY <2>1, <2>2, BuildKeeps, ServeTakesKeeps, ControlKeeps DEF OwnerStep
<1> QED
  BY <1>1, <1>2, <1>3, <1>4 DEF Next

LEMMA SpecIsSafe == Spec => CameraSafety
BY PTL DEF Spec, CameraSafety

LEMMA CameraInvariance == CameraSafety => []CameraInv
BY InitCameraInv, StepCameraInv, PTL DEF CameraSafety

(* However many connects fail, time out or are closed under way, and       *)
(* whichever COM calls hang: a running graph nobody has told to stop is    *)
(* still in somebody's hands.                                              *)
THEOREM GraphsHaveHolders == Spec => []NoOrphanGraph
<1>1. CameraInv => NoOrphanGraph
  <2> SUFFICES ASSUME CameraInv, NEW c \in CaptureIds
               PROVE  /\ Alive(c) /\ ~ captures[c].stop =>
                           \/ c = camera.cap /\ (consumer.pc = "done" => stopper.pc \in {"closing", "taking"})
                           \/ c = consumer.cap /\ consumer.pc \in {"open", "check"}
                           \/ c = consumer.doomed
                           \/ c = stopper.doomed
                      /\ captures[c].opened => ~ captures[c].stop
    BY DEF NoOrphanGraph
  <2>1. c # NoCapture
    BY ConsumersCapture DEF NoCapture
  <2> QED
    BY <2>1 DEF CameraInv, Held, HandsFit, OwnersFit
<1> QED
  BY <1>1, SpecIsSafe, CameraInvariance, PTL

(* Whatever is refused, times out or is carried out late: settings that    *)
(* were all reported as accepted are those of the device.                  *)
THEOREM ReportsAreHonest == Spec => []SettingsAreHonest
<1>1. CameraInv => SettingsAreHonest
  BY DEF CameraInv, SettingsFit, InTouch, NoneLate, AutoSet, ExposureSet, SettingsAreHonest
<1> QED
  BY <1>1, SpecIsSafe, CameraInvariance, PTL

(***************************************************************************)
(* The frames' way through the queue, for any capacity, any number of      *)
(* frames and any marks: what the source yielded is accounted for, in      *)
(* order, and no mark of a dropped frame is forgotten.                     *)
(***************************************************************************)

SourceType ==
  [ at : {"pull", "put", "evict", "flag", "close", "done"}, item : Item ]

PipelineType ==
  [ at : {"get", "taken", "mark", "work", "done"}, item : Item ]

Flags ==
  live \in BOOLEAN /\ carry \in BOOLEAN /\ stop \in BOOLEAN
    /\ dead \in BOOLEAN /\ told \in BOOLEAN

QueueTyped ==
  queue \in Seq(Item) /\ Len(queue) <= MaxSize

(* The numbers, and the history.                                           *)
RestTyped ==
  /\ dropped \in Nat /\ pulled \in 0 .. NumFrames /\ aborted \in Nat
  /\ marks \in SUBSET Frames
  /\ handed \in Seq([ frame : Frames, mark : BOOLEAN ])
  /\ DOMAIN discarded \in SUBSET marks

Typed ==
  /\ source \in SourceType /\ pipeline \in PipelineType
  /\ Flags /\ QueueTyped /\ RestTyped

(* Either thread has a frame that is in no queue.                          *)
SourceHolds   == source.at \in {"put", "evict", "flag"} /\ source.item # End
PipelineHolds == pipeline.at \in {"taken", "mark"} /\ pipeline.item # End

SourceHas   == IF SourceHolds THEN 1 ELSE 0
PipelineHas == IF PipelineHolds THEN 1 ELSE 0

EndIn(q)     == q # <<>> /\ q[Len(q)] = End
FramesIn(q)  == IF EndIn(q) THEN Len(q) - 1 ELSE Len(q)
FramesQueued == FramesIn(queue)

Books ==
  pulled = Len(handed) + FramesQueued + SourceHas + PipelineHas + dropped + aborted

(* The end marker is the last thing the source puts and the last thing the *)
(* pipeline takes.                                                         *)
SourceOver == source.at \in {"close", "done"}

EndIsLast ==
  /\ \A i \in 1 .. Len(queue) : queue[i] = End => i = Len(queue) /\ SourceOver
  /\ pipeline.at = "mark" => pipeline.item # End
  /\ pipeline.at = "taken" /\ pipeline.item = End => queue = <<>> /\ SourceOver
  /\ pipeline.at = "done" /\ ~ dead => queue = <<>> /\ SourceOver

(* Only a live source drops, only a stopped one throws away, and a replay  *)
(* that nobody stops ends at its end.                                      *)
ReplayIsWhole ==
  /\ source.at \in {"evict", "flag"} => live
  /\ ~ live => dropped = 0
  /\ aborted > 0 => stop \/ dead
  /\ ~ live /\ ~ stop /\ ~ dead
       /\ (SourceOver \/ (source.at = "put" /\ source.item = End)) => pulled = NumFrames

(* Frames are older the further they have come.                            *)
HandedBefore(frame) == \A i \in 1 .. Len(handed) : handed[i].frame < frame
TakenBefore(frame)  == HandedBefore(frame) /\ (PipelineHolds => pipeline.item < frame)
QueuedBefore(frame) ==
  TakenBefore(frame) /\ \A j \in 1 .. Len(queue) : queue[j] # End => queue[j] < frame

QueueInOrder ==
  \A j \in 1 .. Len(queue) : queue[j] # End =>
    TakenBefore(queue[j]) /\ \A k \in 1 .. j - 1 : queue[k] < queue[j]

InOrder ==
  /\ \A i, j \in 1 .. Len(handed) : i < j => handed[i].frame < handed[j].frame
  /\ PipelineHolds => HandedBefore(pipeline.item)
  /\ QueueInOrder
  /\ SourceHolds => QueuedBefore(source.item) /\ source.item <= pulled
  /\ QueuedBefore(pulled + 1)

(* The mark of a dropped frame is on its way, or was handed out since.     *)
MarkPending == carry \/ source.at = "flag" \/ pipeline.at = "mark"

MarksKept ==
  \A d \in DOMAIN discarded :
    /\ discarded[d] \in 0 .. Len(handed)
    /\ MarkPending \/ \E i \in 1 .. Len(handed) : i > discarded[d] /\ handed[i].mark

FlowInv == Typed /\ Books /\ EndIsLast /\ ReplayIsWhole /\ InOrder /\ MarksKept

-----------------------------------------------------------------------------
(* With the end marker last, counting the queue is taking its length.      *)
LEMMA QueueCounted ==
  ASSUME NEW q \in Seq(Item), \A i \in 1 .. Len(q) : q[i] = End => i = Len(q)
  PROVE  /\ Cardinality({ i \in DOMAIN q : q[i] # End }) = FramesIn(q)
         /\ FramesIn(q) \in Nat
<1>1. Len(q) \in Nat /\ DOMAIN q = 1 .. Len(q)
  OBVIOUS
<1>2. ASSUME NEW n \in Nat PROVE Cardinality(1 .. n) = n
  <2>1. Cardinality(1 .. n) = IF 1 > n THEN 0 ELSE n - 1 + 1
    BY FS_Interval
  <2> QED
    BY <2>1
<1>5. q # <<>> => Len(q) \in Nat \ {0}
  BY EmptySeq
<1>6. q = <<>> => Len(q) = 0
  BY EmptySeq
<1>3. CASE EndIn(q)
  <2> DEFINE n == Len(q)
  <2>1. n \in Nat \ {0} /\ q[n] = End
    BY <1>3, <1>5 DEF EndIn
  <2>2. \A i \in 1 .. n : q[i] # End <=> i # n
    BY <2>1
  <2>3. DOMAIN q = 1 .. n
    BY <1>1
  <2>4. FramesIn(q) = n - 1
    BY <1>3 DEF FramesIn
  <2> HIDE DEF n
  <2>5. { i \in DOMAIN q : q[i] # End } = { i \in 1 .. n : i # n }
    BY <2>2, <2>3
  <2>6. { i \in 1 .. n : i # n } = 1 .. n - 1 /\ n - 1 \in Nat
    BY <2>1
  <2> QED
    BY <1>2, <2>4, <2>5, <2>6
<1>4. CASE ~ EndIn(q)
  <2> DEFINE n == Len(q)
  <2>1. n \in Nat /\ (n # 0 => q[n] # End)
    BY <1>1, <1>4, <1>6 DEF EndIn
  <2>2. \A i \in 1 .. n : q[i] = End => i = n
    OBVIOUS
  <2>3. DOMAIN q = 1 .. n
    BY <1>1
  <2>4. FramesIn(q) = n
    BY <1>4 DEF FramesIn
  <2> HIDE DEF n
  <2>5. ASSUME NEW i \in 1 .. n PROVE q[i] # End
    BY <2>1, <2>2
  <2>6. { i \in DOMAIN q : q[i] # End } = 1 .. n
    BY <2>3, <2>5
  <2> QED
    BY <1>2, <2>1, <2>4, <2>6
<1> QED
  BY <1>3, <1>4

(* What the books say of the frames under way, and of TypeOK.              *)
LEMMA BooksSuffice ==
  ASSUME FlowInv
  PROVE  TypeOK /\ pulled = Len(handed) + UnderWay + dropped + aborted
<1> USE FlowAssumption
<1>1. Typed /\ Books /\ EndIsLast
  BY DEF FlowInv
<1>2. /\ Cardinality({ i \in DOMAIN queue : queue[i] # End }) = FramesQueued
      /\ FramesQueued \in Nat
  <2>1. queue \in Seq(Item)
    BY <1>1 DEF Typed, QueueTyped
  <2>2. \A i \in 1 .. Len(queue) : queue[i] = End => i = Len(queue)
    BY <1>1 DEF EndIsLast
  <2> QED
    BY <2>1, <2>2, QueueCounted DEF FramesQueued
<1>3. UnderWay = FramesQueued + SourceHas + PipelineHas
  BY <1>2 DEF UnderWay, SourceHas, PipelineHas, SourceHolds, PipelineHolds
<1>4. /\ pulled \in 0 .. NumFrames /\ aborted \in Nat /\ dropped \in Nat /\ Len(handed) \in Nat
  BY <1>1 DEF Typed, RestTyped
<1>5. SourceHas \in 0 .. 1 /\ PipelineHas \in 0 .. 1
  BY DEF SourceHas, PipelineHas
<1>6. pulled = Len(handed) + UnderWay + dropped + aborted
  BY <1>1, <1>2, <1>3, <1>4, <1>5 DEF Books
<1>7. aborted \in 0 .. NumFrames
  BY <1>1, <1>2, <1>4, <1>5 DEF Books
<1>8. TypeOK
  BY <1>1, <1>7 DEF Typed, TypeOK, SourceType, PipelineType, Flags, QueueTyped, RestTyped
<1> QED
  BY <1>6, <1>8

-----------------------------------------------------------------------------
(* Nothing was yielded yet.                                                *)
LEMMA InitFlowInv == FlowInit => FlowInv
<1> SUFFICES ASSUME FlowInit PROVE FlowInv
  OBVIOUS
<1> USE FlowAssumption
<1>1. source \in SourceType /\ source.at = "pull" /\ pipeline \in PipelineType /\ pipeline.at = "get"
  BY DEF FlowInit, SourceType, PipelineType, Item
<1>2. Flags
  BY DEF FlowInit, Flags
<1>3. queue = <<>> /\ handed = <<>> /\ DOMAIN discarded = {}
  BY DEF FlowInit
<1>4. QueueTyped
  BY <1>3 DEF QueueTyped
<1>5. RestTyped
  BY <1>3 DEF FlowInit, RestTyped
<1>6. dropped = 0 /\ aborted = 0 /\ pulled = 0
  BY DEF FlowInit
<1>7. Books
  BY <1>1, <1>3, <1>6 DEF Books, FramesQueued, FramesIn, EndIn, SourceHas, PipelineHas,
                          SourceHolds, PipelineHolds
<1>8. EndIsLast
  BY <1>1, <1>3 DEF EndIsLast
<1>9. ReplayIsWhole
  BY <1>1, <1>6 DEF ReplayIsWhole, SourceOver
<1>10. InOrder
  BY <1>1, <1>3 DEF InOrder, QueueInOrder, SourceHolds, PipelineHolds,
                          QueuedBefore, TakenBefore, HandedBefore
<1>11. MarksKept
  BY <1>3 DEF MarksKept
<1> QED
  BY <1>1, <1>2, <1>4, <1>5, <1>7, <1>8, <1>9, <1>10, <1>11 DEF FlowInv, Typed

-----------------------------------------------------------------------------
(* What putting does to a queue without the end marker.                    *)
LEMMA AppendCounts ==
  ASSUME NEW q \in Seq(Item), NEW item \in Item,
         \A i \in 1 .. Len(q) : q[i] # End
  PROVE  /\ Append(q, item) \in Seq(Item)
         /\ Len(q) \in Nat /\ Len(Append(q, item)) = Len(q) + 1
         /\ \A i \in 1 .. Len(q) : Append(q, item)[i] = q[i]
         /\ Append(q, item)[Len(q) + 1] = item
         /\ FramesIn(q) = Len(q)
         /\ FramesIn(Append(q, item)) = Len(q) + (IF item = End THEN 0 ELSE 1)
<1> DEFINE a == Append(q, item)
<1>1. /\ a \in Seq(Item) /\ Len(q) \in Nat /\ Len(a) = Len(q) + 1
      /\ \A i \in 1 .. Len(q) : a[i] = q[i]
      /\ a[Len(q) + 1] = item
  OBVIOUS
<1>2. ~ EndIn(q)
  <2>1. CASE q = <<>>
    BY <2>1 DEF EndIn
  <2>2. CASE q # <<>>
    <3>1. Len(q) \in 1 .. Len(q)
      BY <2>2
    <3> QED
      BY <3>1 DEF EndIn
  <2> QED
    BY <2>1, <2>2
<1> HIDE DEF a
<1>6. a # <<>> /\ a[Len(a)] = item
  <2>1. Len(a) # 0
    BY <1>1
  <2>2. a # <<>>
    BY <2>1, EmptySeq
  <2> QED
    BY <1>1, <2>2
<1>3. EndIn(a) <=> item = End
  BY <1>6 DEF EndIn
<1>4. FramesIn(q) = Len(q)
  BY <1>2 DEF FramesIn
<1>5. FramesIn(a) = Len(q) + (IF item = End THEN 0 ELSE 1)
  <2>1. CASE item = End
    BY <1>1, <1>3, <2>1 DEF FramesIn
  <2>2. CASE item # End
    BY <1>1, <1>3, <2>2 DEF FramesIn
  <2> QED
    BY <2>1, <2>2
<1> QED
  BY <1>1, <1>4, <1>5 DEF a

(* What taking does to a queue whose end marker is last.                   *)
LEMMA TailCounts ==
  ASSUME NEW q \in Seq(Item), q # <<>>,
         \A i \in 1 .. Len(q) : q[i] = End => i = Len(q)
  PROVE  /\ Tail(q) \in Seq(Item) /\ Len(q) \in Nat /\ 1 \in 1 .. Len(q)
         /\ Len(q) = Len(Tail(q)) + 1 /\ Len(Tail(q)) \in Nat
         /\ \A i \in 1 .. Len(Tail(q)) : i + 1 \in 1 .. Len(q) /\ Tail(q)[i] = q[i + 1]
         /\ Head(q) \in Item /\ Head(q) = q[1]
         /\ FramesIn(Tail(q)) \in Nat
         /\ FramesIn(q) = FramesIn(Tail(q)) + (IF Head(q) = End THEN 0 ELSE 1)
         /\ Head(q) = End => Tail(q) = <<>>
<1> DEFINE t == Tail(q)
<1>1. /\ t \in Seq(Item) /\ Len(q) \in Nat /\ 1 \in 1 .. Len(q)
      /\ Len(q) = Len(t) + 1 /\ Len(t) \in Nat
      /\ \A i \in 1 .. Len(t) : i + 1 \in 1 .. Len(q) /\ t[i] = q[i + 1]
      /\ Head(q) \in Item /\ Head(q) = q[1]
  OBVIOUS
<1> HIDE DEF t
<1>2. t = <<>> <=> Len(t) = 0
  BY <1>1, EmptySeq
<1>3. CASE Len(t) = 0
  <2>1. Len(q) = 1 /\ q[Len(q)] = Head(q) /\ t = <<>>
    BY <1>1, <1>2, <1>3
  <2>2. FramesIn(t) = 0
    BY <1>3, <2>1 DEF FramesIn, EndIn
  <2>3. EndIn(q) <=> Head(q) = End
    BY <2>1 DEF EndIn
  <2>4. FramesIn(q) = FramesIn(t) + (IF Head(q) = End THEN 0 ELSE 1)
    <3>1. CASE Head(q) = End
      BY <2>1, <2>2, <2>3, <3>1 DEF FramesIn
    <3>2. CASE Head(q) # End
      BY <2>1, <2>2, <2>3, <3>2 DEF FramesIn
    <3> QED
      BY <3>1, <3>2
  <2>5. FramesIn(t) \in Nat
    BY <2>2
  <2> QED
    BY <1>1, <2>1, <2>4, <2>5 DEF t
<1>4. CASE Len(t) # 0
  <2>1. Len(t) \in 1 .. Len(t) /\ Len(q) # 1 /\ t # <<>>
    BY <1>1, <1>2, <1>4
  <2>2. Head(q) # End
    BY <1>1, <2>1
  <2>3. t[Len(t)] = q[Len(q)]
    BY <1>1, <2>1
  <2>4. EndIn(t) <=> EndIn(q)
    BY <2>1, <2>3 DEF EndIn
  <2>5. FramesIn(q) = FramesIn(t) + 1 /\ FramesIn(t) \in Nat
    <3>1. CASE EndIn(q)
      BY <1>1, <2>1, <2>4, <3>1 DEF FramesIn
    <3>2. CASE ~ EndIn(q)
      BY <1>1, <2>1, <2>4, <3>2 DEF FramesIn
    <3> QED
      BY <3>1, <3>2
  <2> QED
    BY <1>1, <2>2, <2>5 DEF t
<1> QED
  BY <1>3, <1>4

-----------------------------------------------------------------------------
(* What is beyond a frame is beyond all that is before it.                 *)
LEMMA BeforeGrows ==
  ASSUME Typed, NEW f \in Int, NEW g \in Int, f <= g
  PROVE  /\ HandedBefore(f) => HandedBefore(g)
         /\ TakenBefore(f) => TakenBefore(g)
         /\ QueuedBefore(f) => QueuedBefore(g)
<1>1. /\ \A i \in 1 .. Len(handed) : handed[i].frame \in Int
      /\ \A j \in 1 .. Len(queue) : queue[j] \in Int
      /\ pipeline.item \in Int
  <2>1. \A x \in Item : x \in Int
    BY DEF Item, Frames, End
  <2>2. handed \in Seq([ frame : Frames, mark : BOOLEAN ]) /\ queue \in Seq(Item)
    BY DEF Typed, RestTyped, QueueTyped
  <2>3. ASSUME NEW i \in 1 .. Len(handed) PROVE handed[i].frame \in Int
    <3>1. handed[i] \in [ frame : Frames, mark : BOOLEAN ]
      BY <2>2, ElementOfSeq
    <3>2. handed[i].frame \in Frames
      BY <3>1
    <3> QED
      BY <2>1, <3>2 DEF Item
  <2>4. ASSUME NEW j \in 1 .. Len(queue) PROVE queue[j] \in Int
    BY <2>1, <2>2, ElementOfSeq
  <2>5. pipeline.item \in Item
    BY DEF Typed, PipelineType
  <2> QED
    BY <2>1, <2>3, <2>4, <2>5
<1>2. HandedBefore(f) => HandedBefore(g)
  BY <1>1 DEF HandedBefore
<1>3. TakenBefore(f) => TakenBefore(g)
  BY <1>1, <1>2 DEF TakenBefore
<1>4. QueuedBefore(f) => QueuedBefore(g)
  BY <1>1, <1>3 DEF QueuedBefore
<1> QED
  BY <1>2, <1>3, <1>4

-----------------------------------------------------------------------------
(* A step of the source thread: the next frame is beyond all others, and   *)
(* goes from its hands to the end of the queue, or away and is counted.    *)
LEMMA SourceKeeps ==
  ASSUME FlowInv, PullFrame \/ SourceEnds \/ SourceStep
  PROVE  FlowInv'
<1> USE FlowAssumption
<1>1. UNCHANGED <<pipelineVars, controlVars>>
  BY DEF PullFrame, SourceEnds, SourceStep, PutFits, PutFull, Evict, FlagVictim, GiveUp, CloseSource
<1>2. /\ pipeline' = pipeline /\ handed' = handed /\ marks' = marks
      /\ live' = live /\ stop' = stop /\ dead' = dead /\ told' = told
  BY <1>1 DEF pipelineVars, controlVars
<1>3. Typed /\ Books /\ EndIsLast /\ ReplayIsWhole /\ InOrder /\ MarksKept
  BY DEF FlowInv
<1>4. /\ source \in SourceType /\ pipeline \in PipelineType
      /\ Flags /\ QueueTyped /\ RestTyped
  BY <1>3 DEF Typed
<1>5. source.at \in {"pull", "put", "evict", "flag", "close", "done"} /\ source.item \in Item
  BY <1>4 DEF SourceType
<1>6. ASSUME NEW item \in Item, Put(item)
      PROVE  source' \in SourceType /\ source'.at = "put" /\ source'.item = item
  BY <1>6 DEF Put, SourceType
<1>7. ASSUME NEW at \in {"pull", "put", "evict", "flag", "close", "done"}, GoTo(at)
      PROVE  source' \in SourceType /\ source'.at = at /\ source'.item = source.item
  BY <1>4, <1>7 DEF GoTo, SourceType
<1>8. ASSUME carry' \in BOOLEAN PROVE Flags'
  BY <1>2, <1>4, <1>8 DEF Flags
<1>9. /\ PipelineHolds' <=> PipelineHolds
      /\ PipelineHas' = PipelineHas
      /\ \A f : HandedBefore(f)' <=> HandedBefore(f)
      /\ \A f : TakenBefore(f)' <=> TakenBefore(f)
  BY <1>2 DEF PipelineHolds, PipelineHas, HandedBefore, TakenBefore
<1>10. ASSUME queue' = queue
       PROVE  /\ \A f : QueuedBefore(f)' <=> QueuedBefore(f)
              /\ QueueInOrder'
              /\ FramesQueued' = FramesQueued /\ QueueTyped'
              /\ EndIsLast /\ (SourceOver => SourceOver') => EndIsLast'
  <2>1. \A f : QueuedBefore(f)' <=> QueuedBefore(f)
    BY <1>9, <1>10 DEF QueuedBefore
  <2>2. FramesQueued' = FramesQueued /\ QueueTyped'
    BY <1>4, <1>10 DEF FramesQueued, QueueTyped
  <2>3. (SourceOver => SourceOver') => EndIsLast'
    BY <1>2, <1>3, <1>10 DEF EndIsLast
  <2>4. QueueInOrder'
    BY <1>2, <1>3, <1>10 DEF InOrder, QueueInOrder, TakenBefore, HandedBefore, PipelineHolds
  <2> QED
    BY <2>1, <2>2, <2>3, <2>4
<1>11. ASSUME discarded' = discarded, MarkPending => MarkPending' PROVE MarksKept'
  BY <1>2, <1>3, <1>11 DEF MarksKept
<1>12. /\ dropped \in Nat /\ pulled \in Nat /\ pulled <= NumFrames /\ aborted \in Nat
       /\ Len(handed) \in Nat /\ FramesQueued \in Nat /\ PipelineHas \in Nat
  <2>1. dropped \in Nat /\ pulled \in Nat /\ pulled <= NumFrames /\ aborted \in Nat
    BY <1>4 DEF RestTyped
  <2>2. Len(handed) \in Nat
    BY <1>4 DEF RestTyped
  <2>3. queue \in Seq(Item) /\ \A i \in 1 .. Len(queue) : queue[i] = End => i = Len(queue)
    BY <1>3, <1>4 DEF QueueTyped, EndIsLast
  <2>4. FramesQueued \in Nat
    BY <2>3, QueueCounted DEF FramesQueued
  <2> QED
    BY <2>1, <2>2, <2>4 DEF PipelineHas
<1>13. pulled = Len(handed) + FramesQueued + SourceHas + PipelineHas + dropped + aborted
  BY <1>3 DEF Books
<1>14. ASSUME dropped' \in Nat, pulled' \in 0 .. NumFrames, aborted' \in Nat,
              DOMAIN discarded' \in SUBSET marks
       PROVE  RestTyped'
  BY <1>2, <1>4, <1>14 DEF RestTyped
<1>15. CASE PullFrame
  <2>1. /\ source.at = "pull" /\ pulled < NumFrames /\ pulled' = pulled + 1
        /\ queue' = queue /\ carry' = carry /\ dropped' = dropped /\ discarded' = discarded
    BY <1>15 DEF PullFrame, queueVars
  <2>2. SourceHas = 0 /\ ~ SourceOver
    BY <2>1 DEF SourceHas, SourceHolds, SourceOver
  <2>3. pulled + 1 \in Item /\ pulled + 1 # End /\ End \in Item /\ pulled' \in 0 .. NumFrames
    BY <1>12, <2>1 DEF Item, Frames, End
  <2>4. CASE Abort
    <3>1. Put(End) /\ aborted' = aborted + 1
      BY <1>15, <2>4 DEF PullFrame
    <3>2. source' \in SourceType /\ source'.at = "put" /\ source'.item = End
      BY <1>6, <2>3, <3>1
    <3>3. Typed'
      BY <1>2, <1>4, <1>8, <1>10, <1>12, <1>14, <2>1, <2>3, <3>1, <3>2 DEF Typed, Flags, RestTyped
    <3>4. SourceHas' = 0 /\ ~ SourceHolds'
      BY <3>2 DEF SourceHas, SourceHolds
    <3>5. Books'
      BY <1>2, <1>9, <1>10, <1>12, <1>13, <2>1, <2>2, <3>1, <3>4 DEF Books
    <3>6. EndIsLast'
      BY <1>3, <1>10, <2>1, <2>2
    <3>7. ReplayIsWhole'
      BY <1>2, <1>3, <2>1, <2>4, <3>2 DEF ReplayIsWhole, Abort
    <3>8. InOrder'
      <4>1. QueuedBefore(pulled + 1)
        BY <1>3 DEF InOrder
      <4>3. QueuedBefore(pulled' + 1)
        BY <1>3, <1>12, <2>1, <4>1, BeforeGrows
      <4> QED
        BY <1>2, <1>3, <1>9, <1>10, <2>1, <3>4, <4>3 DEF InOrder
    <3>9. MarksKept'
      BY <1>2, <1>11, <2>1 DEF MarkPending
    <3> QED
      BY <3>3, <3>5, <3>6, <3>7, <3>8, <3>9 DEF FlowInv
  <2>5. CASE ~ Abort
    <3>1. Put(pulled + 1) /\ aborted' = aborted
      BY <1>15, <2>5 DEF PullFrame
    <3>2. source' \in SourceType /\ source'.at = "put" /\ source'.item = pulled + 1
      BY <1>6, <2>3, <3>1
    <3>3. Typed'
      BY <1>2, <1>4, <1>8, <1>10, <1>12, <1>14, <2>1, <2>3, <3>1, <3>2 DEF Typed, Flags, RestTyped
    <3>4. SourceHas' = 1 /\ SourceHolds'
      BY <2>3, <3>2 DEF SourceHas, SourceHolds
    <3>5. Books'
      BY <1>2, <1>9, <1>10, <1>12, <1>13, <2>1, <2>2, <3>1, <3>4 DEF Books
    <3>6. EndIsLast'
      BY <1>3, <1>10, <2>1, <2>2
    <3>7. ReplayIsWhole'
      BY <1>2, <1>3, <2>1, <2>3, <3>1, <3>2 DEF ReplayIsWhole, SourceOver
    <3>8. InOrder'
      <4>1. QueuedBefore(pulled + 1)
        BY <1>3 DEF InOrder
      <4>3. QueuedBefore(pulled' + 1)
        BY <1>3, <1>12, <2>1, <4>1, BeforeGrows
      <4> QED
        BY <1>2, <1>3, <1>9, <1>10, <1>12, <2>1, <3>2, <4>1, <4>3 DEF InOrder
    <3>9. MarksKept'
      BY <1>2, <1>11, <2>1 DEF MarkPending
    <3> QED
      BY <3>3, <3>5, <3>6, <3>7, <3>8, <3>9 DEF FlowInv
  <2> QED
    BY <2>4, <2>5
<1>16. ASSUME pulled' = pulled, queue' = queue, ~ SourceHolds'
       PROVE  InOrder'
  BY <1>2, <1>3, <1>9, <1>10, <1>16 DEF InOrder
<1>17. ASSUME pulled' = pulled, queue' = queue, SourceHolds, source'.item = source.item
       PROVE  InOrder'
  BY <1>2, <1>3, <1>9, <1>10, <1>17 DEF InOrder
<1>18. CASE SourceEnds
  <2>1. /\ source.at = "pull" /\ (live \/ pulled = NumFrames) /\ Put(End)
        /\ UNCHANGED <<pulled, aborted, queue, carry, dropped, discarded>>
    BY <1>18 DEF SourceEnds, queueVars
  <2>2. source' \in SourceType /\ source'.at = "put" /\ source'.item = End
    BY <1>6, <2>1 DEF Item
  <2>3. SourceHas = 0 /\ SourceHas' = 0 /\ ~ SourceHolds' /\ ~ SourceOver
    BY <2>1, <2>2 DEF SourceHas, SourceHolds, SourceOver
  <2>4. Typed'
    BY <1>2, <1>4, <1>8, <1>10, <1>14, <2>1, <2>2 DEF Typed, Flags, RestTyped
  <2>5. Books'
    BY <1>2, <1>9, <1>10, <1>13, <2>1, <2>3 DEF Books
  <2>6. EndIsLast' /\ InOrder'
    BY <1>3, <1>10, <1>16, <2>1, <2>3
  <2>7. ReplayIsWhole'
    BY <1>2, <1>3, <2>1, <2>2 DEF ReplayIsWhole
  <2>8. MarksKept'
    BY <1>2, <1>11, <2>1 DEF MarkPending
  <2> QED
    BY <2>4, <2>5, <2>6, <2>7, <2>8 DEF FlowInv
<1>19. CASE PutFits
  <2>1. /\ source.at = "put" /\ HasRoom /\ queue' = Append(queue, source.item)
        /\ GoTo(IF source.item = End THEN "close" ELSE "pull")
        /\ UNCHANGED <<carry, dropped, discarded, pulled, aborted>>
    BY <1>19 DEF PutFits, AfterPut
  <2>2. /\ source' \in SourceType /\ source'.item = source.item
        /\ source'.at = IF source.item = End THEN "close" ELSE "pull"
    BY <1>7, <2>1
  <2>3. \A i \in 1 .. Len(queue) : queue[i] # End
    BY <1>3, <2>1 DEF EndIsLast, SourceOver
  <2>4. /\ queue' \in Seq(Item) /\ Len(queue) \in Nat /\ Len(queue') = Len(queue) + 1
        /\ \A i \in 1 .. Len(queue) : queue'[i] = queue[i]
        /\ queue'[Len(queue) + 1] = source.item
        /\ FramesQueued = Len(queue)
        /\ FramesQueued' = Len(queue) + (IF source.item = End THEN 0 ELSE 1)
    BY <1>4, <1>5, <2>1, <2>3, AppendCounts DEF QueueTyped, FramesQueued
  <2>5. QueueTyped'
    BY <1>4, <2>1, <2>4 DEF QueueTyped, HasRoom
  <2>6. ~ SourceHolds' /\ SourceHas' = 0 /\ SourceHas = IF source.item = End THEN 0 ELSE 1
    BY <2>1, <2>2 DEF SourceHas, SourceHolds
  <2>7. Typed'
    BY <1>2, <1>4, <1>8, <1>14, <2>1, <2>2, <2>5 DEF Typed, Flags, RestTyped
  <2>8. Books'
    <3>1. CASE source.item = End
      BY <1>2, <1>9, <1>12, <1>13, <2>1, <2>4, <2>6, <3>1 DEF Books
    <3>2. CASE source.item # End
      BY <1>2, <1>9, <1>12, <1>13, <2>1, <2>4, <2>6, <3>2 DEF Books
    <3> QED
      BY <3>1, <3>2
  <2>9. EndIsLast'
    <3>1. ASSUME NEW i \in 1 .. Len(queue'), queue'[i] = End
          PROVE  i = Len(queue') /\ SourceOver'
      <4>1. i = Len(queue) + 1
        BY <2>3, <2>4, <3>1
      <4>2. source.item = End
        BY <2>4, <3>1, <4>1
      <4> QED
        BY <2>2, <2>4, <4>1, <4>2 DEF SourceOver
    <3>2. ~ SourceOver
      BY <2>1 DEF SourceOver
    <3> QED
      BY <1>2, <1>3, <3>1, <3>2 DEF EndIsLast
  <2>10. ReplayIsWhole'
    BY <1>2, <1>3, <2>1, <2>2 DEF ReplayIsWhole, SourceOver
  <2>11. InOrder'
    <3>1. source.item # End => QueuedBefore(source.item) /\ source.item <= pulled
      BY <1>3, <2>1 DEF InOrder, SourceHolds
    <3>2. ASSUME NEW j \in 1 .. Len(queue'), queue'[j] # End
          PROVE  TakenBefore(queue'[j]) /\ \A k \in 1 .. j - 1 : queue'[k] < queue'[j]
      <4>1. CASE j \in 1 .. Len(queue)
        <5>1. queue'[j] = queue[j] /\ \A k \in 1 .. j - 1 : k \in 1 .. Len(queue)
          BY <2>4, <4>1
        <5> QED
          BY <1>3, <2>4, <3>2, <4>1, <5>1 DEF InOrder, QueueInOrder
      <4>2. CASE j = Len(queue) + 1
        <5>1. queue'[j] = source.item /\ \A k \in 1 .. j - 1 : k \in 1 .. Len(queue)
          BY <2>4, <4>2
        <5> QED
          BY <2>3, <2>4, <3>1, <3>2, <5>1 DEF QueuedBefore
      <4> QED
        BY <2>4, <4>1, <4>2
    <3>3. QueuedBefore(pulled + 1)'
      <4>1. TakenBefore(pulled + 1) /\ \A j \in 1 .. Len(queue) : queue[j] # End => queue[j] < pulled + 1
        BY <1>3 DEF InOrder, QueuedBefore
      <4>2. source.item # End => source.item < pulled + 1
        BY <1>5, <1>12, <3>1 DEF Item, Frames, End
      <4>3. ASSUME NEW j \in 1 .. Len(queue'), queue'[j] # End
            PROVE  queue'[j] < pulled + 1
        <5>1. CASE j \in 1 .. Len(queue)
          BY <2>4, <4>1, <4>3, <5>1
        <5>2. CASE j = Len(queue) + 1
          BY <2>4, <4>2, <4>3, <5>2
        <5> QED
          BY <2>4, <5>1, <5>2
      <4>4. TakenBefore(pulled + 1)'
        BY <1>9, <2>1, <4>1
      <4> QED
        BY <2>1, <4>3, <4>4 DEF QueuedBefore
    <3>4. QueueInOrder'
      BY <1>2, <3>2 DEF QueueInOrder, TakenBefore, HandedBefore, PipelineHolds
    <3> QED
      BY <1>2, <1>3, <1>9, <2>1, <2>6, <3>3, <3>4 DEF InOrder
  <2>12. MarksKept'
    BY <1>2, <1>11, <2>1 DEF MarkPending
  <2> QED
    BY <2>7, <2>8, <2>9, <2>10, <2>11, <2>12 DEF FlowInv
<1>20. CASE PutFull
  <2>1. /\ live /\ source.at = "put" /\ GoTo("evict")
        /\ UNCHANGED <<pulled, aborted, queue, carry, dropped, discarded>>
    BY <1>20 DEF PutFull, Drops, queueVars
  <2>2. source' \in SourceType /\ source'.at = "evict" /\ source'.item = source.item
    BY <1>7, <2>1
  <2>3. SourceHas' = SourceHas /\ (SourceHolds' <=> SourceHolds) /\ ~ SourceOver
    BY <2>1, <2>2 DEF SourceHas, SourceHolds, SourceOver
  <2>4. Typed'
    BY <1>2, <1>4, <1>8, <1>10, <1>14, <2>1, <2>2 DEF Typed, Flags, RestTyped
  <2>5. Books'
    BY <1>2, <1>9, <1>10, <1>13, <2>1, <2>3 DEF Books
  <2>6. EndIsLast' /\ InOrder'
    BY <1>3, <1>10, <1>16, <1>17, <2>1, <2>2, <2>3
  <2>7. ReplayIsWhole'
    BY <1>2, <1>3, <2>1, <2>2 DEF ReplayIsWhole
  <2>8. MarksKept'
    BY <1>2, <1>11, <2>1 DEF MarkPending
  <2> QED
    BY <2>4, <2>5, <2>6, <2>7, <2>8 DEF FlowInv
<1>21. CASE FlagVictim
  <2>1. /\ source.at = "flag" /\ carry' = TRUE /\ GoTo("put")
        /\ UNCHANGED <<queue, dropped, discarded, pulled, aborted>>
    BY <1>21 DEF FlagVictim
  <2>2. source' \in SourceType /\ source'.at = "put" /\ source'.item = source.item
    BY <1>7, <2>1
  <2>3. SourceHas' = SourceHas /\ (SourceHolds' <=> SourceHolds) /\ ~ SourceOver
    BY <2>1, <2>2 DEF SourceHas, SourceHolds, SourceOver
  <2>4. Typed'
    BY <1>2, <1>4, <1>8, <1>10, <1>14, <2>1, <2>2 DEF Typed, RestTyped
  <2>5. Books'
    BY <1>2, <1>9, <1>10, <1>13, <2>1, <2>3 DEF Books
  <2>6. EndIsLast' /\ InOrder'
    BY <1>3, <1>10, <1>16, <1>17, <2>1, <2>2, <2>3
  <2>7. ReplayIsWhole'
    BY <1>2, <1>3, <2>1, <2>2 DEF ReplayIsWhole, SourceOver
  <2>8. MarksKept'
    BY <1>11, <2>1 DEF MarkPending
  <2> QED
    BY <2>4, <2>5, <2>6, <2>7, <2>8 DEF FlowInv
<1>22. CASE CloseSource
  <2>1. /\ source.at = "close" /\ GoTo("done")
        /\ UNCHANGED <<pulled, aborted, queue, carry, dropped, discarded>>
    BY <1>22 DEF CloseSource, queueVars
  <2>2. source' \in SourceType /\ source'.at = "done" /\ source'.item = source.item
    BY <1>7, <2>1
  <2>3. SourceHas' = SourceHas /\ ~ SourceHolds' /\ SourceOver /\ SourceOver'
    BY <2>1, <2>2 DEF SourceHas, SourceHolds, SourceOver
  <2>4. Typed'
    BY <1>2, <1>4, <1>8, <1>10, <1>14, <2>1, <2>2 DEF Typed, Flags, RestTyped
  <2>5. Books'
    BY <1>2, <1>9, <1>10, <1>13, <2>1, <2>3 DEF Books
  <2>6. EndIsLast' /\ InOrder'
    BY <1>3, <1>10, <1>16, <2>1, <2>3
  <2>7. ReplayIsWhole'
    BY <1>2, <1>3, <2>1, <2>2, <2>3 DEF ReplayIsWhole
  <2>8. MarksKept'
    BY <1>2, <1>11, <2>1 DEF MarkPending
  <2> QED
    BY <2>4, <2>5, <2>6, <2>7, <2>8 DEF FlowInv
<1>23. CASE GiveUp
  <2>1. /\ ~ live /\ source.at = "put" /\ Aborted
        /\ UNCHANGED <<pulled, queue, carry, dropped, discarded>>
    BY <1>23 DEF GiveUp, Drops, queueVars
  <2>2. CASE source.item = End
    <3>1. GoTo("close") /\ aborted' = aborted /\ dead
      BY <1>23, <2>1, <2>2 DEF GiveUp, Aborted
    <3>2. source' \in SourceType /\ source'.at = "close" /\ source'.item = source.item
      BY <1>7, <3>1
    <3>3. SourceHas' = SourceHas /\ ~ SourceHolds' /\ ~ SourceOver
      BY <2>1, <2>2, <3>2 DEF SourceHas, SourceHolds, SourceOver
    <3>4. Typed'
      BY <1>2, <1>4, <1>8, <1>10, <1>14, <2>1, <3>1, <3>2 DEF Typed, Flags, RestTyped
    <3>5. Books'
      BY <1>2, <1>9, <1>10, <1>13, <2>1, <3>1, <3>3 DEF Books
    <3>6. EndIsLast' /\ InOrder'
      BY <1>3, <1>10, <1>16, <2>1, <3>3
    <3>7. ReplayIsWhole'
      BY <1>2, <1>3, <2>1, <3>1, <3>2 DEF ReplayIsWhole
    <3>8. MarksKept'
      BY <1>2, <1>11, <2>1 DEF MarkPending
    <3> QED
      BY <3>4, <3>5, <3>6, <3>7, <3>8 DEF FlowInv
  <2>3. CASE source.item # End
    <3>1. Put(End) /\ aborted' = aborted + 1 /\ (stop \/ dead)
      BY <1>23, <2>1, <2>3 DEF GiveUp, Aborted, Abort
    <3>2. source' \in SourceType /\ source'.at = "put" /\ source'.item = End
      BY <1>6, <3>1 DEF Item
    <3>3. SourceHas = 1 /\ SourceHas' = 0 /\ ~ SourceHolds' /\ ~ SourceOver
      BY <2>1, <2>3, <3>2 DEF SourceHas, SourceHolds, SourceOver
    <3>4. Typed'
      BY <1>2, <1>4, <1>8, <1>10, <1>12, <1>14, <2>1, <3>1, <3>2 DEF Typed, Flags, RestTyped
    <3>5. Books'
      BY <1>2, <1>9, <1>10, <1>12, <1>13, <2>1, <3>1, <3>3 DEF Books
    <3>6. EndIsLast' /\ InOrder'
      BY <1>3, <1>10, <1>16, <2>1, <3>3
    <3>7. ReplayIsWhole'
      BY <1>2, <1>3, <2>1, <3>1, <3>2 DEF ReplayIsWhole
    <3>8. MarksKept'
      BY <1>2, <1>11, <2>1 DEF MarkPending
    <3> QED
      BY <3>4, <3>5, <3>6, <3>7, <3>8 DEF FlowInv
  <2> QED
    BY <2>2, <2>3
<1>24. CASE Evict
  <2>1. source.at = "evict" /\ UNCHANGED <<pulled, aborted>>
    BY <1>24 DEF Evict
  <2>2. CASE queue = <<>>
    <3>1. GoTo("put") /\ UNCHANGED <<queue, carry, dropped, discarded>>
      BY <1>24, <2>2 DEF Evict, queueVars
    <3>2. source' \in SourceType /\ source'.at = "put" /\ source'.item = source.item
      BY <1>7, <3>1
    <3>3. SourceHas' = SourceHas /\ (SourceHolds' <=> SourceHolds) /\ ~ SourceOver
      BY <2>1, <3>2 DEF SourceHas, SourceHolds, SourceOver
    <3>4. Typed'
      BY <1>2, <1>4, <1>8, <1>10, <1>14, <2>1, <3>1, <3>2 DEF Typed, Flags, RestTyped
    <3>5. Books'
      BY <1>2, <1>9, <1>10, <1>13, <2>1, <3>1, <3>3 DEF Books
    <3>6. EndIsLast' /\ InOrder'
      BY <1>3, <1>10, <1>16, <1>17, <2>1, <3>1, <3>2, <3>3
    <3>7. ReplayIsWhole'
      BY <1>2, <1>3, <2>1, <3>1, <3>2 DEF ReplayIsWhole, SourceOver
    <3>8. MarksKept'
      BY <1>2, <1>11, <2>1, <3>1 DEF MarkPending
    <3> QED
      BY <3>4, <3>5, <3>6, <3>7, <3>8 DEF FlowInv
  <2>3. CASE queue # <<>>
    <3> DEFINE victim == Head(queue)
    <3>1. /\ queue' = Tail(queue) /\ dropped' = dropped + 1 /\ carry' = carry
          /\ GoTo(IF victim \in marks THEN "flag" ELSE "put")
          /\ discarded' = [ d \in DOMAIN discarded \cup ({victim} \cap marks) |->
                              IF d = victim THEN Len(handed) ELSE discarded[d] ]
      BY <1>24, <2>3 DEF Evict, CountVictim, AfterVictim
    <3>2. /\ source' \in SourceType /\ source'.item = source.item
          /\ source'.at = IF victim \in marks THEN "flag" ELSE "put"
      BY <1>7, <3>1
    <3>3. queue \in Seq(Item) /\ \A i \in 1 .. Len(queue) : queue[i] # End
      BY <1>3, <1>4, <2>1 DEF EndIsLast, SourceOver, QueueTyped
    <3>4. /\ queue' \in Seq(Item) /\ Len(queue) \in Nat /\ 1 \in 1 .. Len(queue)
          /\ Len(queue) = Len(queue') + 1 /\ Len(queue') \in Nat
          /\ \A i \in 1 .. Len(queue') : i + 1 \in 1 .. Len(queue) /\ queue'[i] = queue[i + 1]
          /\ victim = queue[1] /\ FramesQueued' \in Nat
          /\ FramesQueued = FramesQueued' + (IF victim = End THEN 0 ELSE 1)
      BY <2>3, <3>1, <3>3, TailCounts DEF FramesQueued
    <3>5. victim # End /\ FramesQueued = FramesQueued' + 1
      BY <3>3, <3>4
    <3>6. QueueTyped'
      BY <1>4, <3>4 DEF QueueTyped
    <3> HIDE DEF victim
    <3>7. SourceHas' = SourceHas /\ (SourceHolds' <=> SourceHolds) /\ ~ SourceOver
      BY <2>1, <3>2 DEF SourceHas, SourceHolds, SourceOver
    <3>8. DOMAIN discarded' \in SUBSET marks
      BY <1>4, <3>1 DEF RestTyped
    <3>9. Typed'
      BY <1>2, <1>4, <1>8, <1>12, <1>14, <2>1, <3>1, <3>2, <3>6, <3>8 DEF Typed, Flags, RestTyped
    <3>10. Books'
      <4>1. /\ FramesQueued = FramesQueued' + 1 /\ FramesQueued' \in Nat
            /\ dropped' = dropped + 1 /\ SourceHas' = SourceHas /\ SourceHas \in Nat
        BY <3>1, <3>4, <3>5, <3>7 DEF SourceHas
      <4>2. pulled = Len(handed) + FramesQueued' + SourceHas + PipelineHas + dropped' + aborted
        <5>1. PICK l \in Int : l = Len(handed)
          BY <1>12
        <5>2. PICK q \in Int : q = FramesQueued'
          BY <4>1
        <5>3. PICK h \in Int : h = SourceHas
          BY <4>1
        <5>4. PICK p \in Int : p = PipelineHas
          BY <1>12
        <5>5. pulled = l + (q + 1) + h + p + dropped + aborted
          BY <1>13, <4>1, <5>1, <5>2, <5>3, <5>4
        <5>6. dropped \in Int /\ aborted \in Int /\ pulled \in Int /\ dropped' = dropped + 1
          BY <1>12, <4>1
        <5>7. pulled = l + q + h + p + dropped' + aborted
          BY <5>5, <5>6
        <5> QED
          BY <5>1, <5>2, <5>3, <5>4, <5>7
      <4> QED
        BY <1>2, <1>9, <2>1, <4>1, <4>2 DEF Books
    <3>11. \A i \in 1 .. Len(queue') : queue'[i] # End
      BY <3>3, <3>4
    <3>12. EndIsLast'
      BY <1>2, <1>3, <3>7, <3>11 DEF EndIsLast
    <3>13. ReplayIsWhole'
      BY <1>2, <1>3, <2>1, <3>1, <3>2, <3>5 DEF ReplayIsWhole, SourceOver
    <3>14. \A f : QueuedBefore(f) => QueuedBefore(f)'
      BY <1>9, <3>3, <3>4 DEF QueuedBefore
    <3>15. ASSUME NEW j \in 1 .. Len(queue')
           PROVE  TakenBefore(queue'[j]) /\ \A k \in 1 .. j - 1 : queue'[k] < queue'[j]
      <4>1. j + 1 \in 1 .. Len(queue) /\ queue'[j] = queue[j + 1] /\ queue[j + 1] # End
        BY <3>3, <3>4
      <4>2. TakenBefore(queue[j + 1]) /\ \A k \in 1 .. (j + 1) - 1 : queue[k] < queue[j + 1]
        BY <1>3, <4>1 DEF InOrder, QueueInOrder
      <4>3. ASSUME NEW k \in 1 .. j - 1 PROVE queue'[k] < queue'[j]
        <5>1. k \in 1 .. Len(queue') /\ k + 1 \in 1 .. (j + 1) - 1
          BY <3>4
        <5> QED
          BY <3>4, <4>1, <4>2, <5>1
      <4> QED
        BY <4>1, <4>2, <4>3
    <3>18. QueueInOrder'
      BY <1>2, <3>15 DEF QueueInOrder, TakenBefore, HandedBefore, PipelineHolds
    <3>16. InOrder'
      BY <1>2, <1>3, <1>9, <2>1, <3>2, <3>7, <3>14, <3>18 DEF InOrder
    <3>17. MarksKept'
      <4>1. ASSUME NEW d \in DOMAIN discarded', d # victim
            PROVE  d \in DOMAIN discarded /\ discarded'[d] = discarded[d]
        BY <3>1, <4>1
      <4>2. ASSUME victim \in DOMAIN discarded'
            PROVE  victim \in marks /\ discarded'[victim] = Len(handed)
        BY <3>1, <3>8, <4>2
      <4>3. victim \in marks => MarkPending'
        BY <3>2 DEF MarkPending
      <4>4. MarkPending => MarkPending'
        BY <1>2, <2>1, <3>1 DEF MarkPending
      <4> QED
        BY <1>2, <1>3, <1>12, <4>1, <4>2, <4>3, <4>4 DEF MarksKept
    <3> QED
      BY <3>9, <3>10, <3>12, <3>13, <3>16, <3>17 DEF FlowInv
  <2> QED
    BY <2>2, <2>3
<1> QED
  BY <1>15, <1>18, <1>19, <1>20, <1>21, <1>22, <1>23, <1>24 DEF SourceStep

-----------------------------------------------------------------------------
(* A step of the pipeline thread: the oldest frame leaves the queue, is in *)
(* the thread's hands while the thread looks for a mark, and is handed out.*)
LEMMA PipelineKeeps ==
  ASSUME FlowInv, PipelineStep \/ PipelineDies
  PROVE  FlowInv'
<1> USE FlowAssumption
<1>1. /\ UNCHANGED <<source, pulled, aborted, live, stop, marks, dropped, discarded>>
      /\ dead' = dead \/ PipelineDies
  BY DEF PipelineStep, PipelineDies, Take, CheckCarry, MarkItem, Work, sourceVars, controlVars,
         queueVars
<1>2. Typed /\ Books /\ EndIsLast /\ ReplayIsWhole /\ InOrder /\ MarksKept
  BY DEF FlowInv
<1>3. /\ source \in SourceType /\ pipeline \in PipelineType
      /\ Flags /\ QueueTyped /\ RestTyped
  BY <1>2 DEF Typed
<1>4. pipeline.item \in Item /\ End \in Item
  BY <1>3 DEF PipelineType, Item
<1>5. /\ SourceHas' = SourceHas /\ (SourceHolds' <=> SourceHolds)
      /\ (SourceOver' <=> SourceOver) /\ source' \in SourceType
  BY <1>1, <1>3 DEF SourceHas, SourceHolds, SourceOver
<1>6. /\ dropped \in Nat /\ pulled \in Nat /\ aborted \in Nat
      /\ Len(handed) \in Nat /\ FramesQueued \in Nat /\ SourceHas \in Nat
  <2>1. dropped \in Nat /\ pulled \in Nat /\ aborted \in Nat
    BY <1>3 DEF RestTyped
  <2>2. Len(handed) \in Nat
    BY <1>3 DEF RestTyped
  <2>3. queue \in Seq(Item) /\ \A i \in 1 .. Len(queue) : queue[i] = End => i = Len(queue)
    BY <1>2, <1>3 DEF QueueTyped, EndIsLast
  <2>4. FramesQueued \in Nat
    BY <2>3, QueueCounted DEF FramesQueued
  <2> QED
    BY <2>1, <2>2, <2>4 DEF SourceHas
<1>7. pulled = Len(handed) + FramesQueued + SourceHas + PipelineHas + dropped + aborted
  BY <1>2 DEF Books
<1>8. ASSUME NEW at \in {"get", "taken", "mark", "work", "done"}, NEW item \in Item,
             pipeline' = [ at |-> at, item |-> item ]
      PROVE  pipeline' \in PipelineType /\ pipeline'.at = at /\ pipeline'.item = item
  BY <1>8 DEF PipelineType
<1>9. ASSUME NEW at \in {"get", "taken", "mark", "work", "done"},
             pipeline' = [ pipeline EXCEPT !.at = at ]
      PROVE  pipeline' \in PipelineType /\ pipeline'.at = at /\ pipeline'.item = pipeline.item
  BY <1>3, <1>9 DEF PipelineType
<1>10. ASSUME pipeline' \in PipelineType, carry' \in BOOLEAN, dead' \in BOOLEAN, told' \in BOOLEAN,
              QueueTyped', handed' \in Seq([ frame : Frames, mark : BOOLEAN ])
       PROVE  Typed'
  <2>1. Flags' /\ RestTyped'
    BY <1>1, <1>3, <1>10 DEF Flags, RestTyped
  <2> QED
    BY <1>5, <1>10, <2>1 DEF Typed
<1>11. ASSUME queue' = queue
       PROVE  FramesQueued' = FramesQueued /\ QueueTyped'
  BY <1>3, <1>11 DEF FramesQueued, QueueTyped
<1>12. ASSUME dead => dead' PROVE ReplayIsWhole'
  BY <1>1, <1>2, <1>12 DEF ReplayIsWhole, SourceOver
(* The thread hands out the frame it holds.                                *)
<1>13. ASSUME pipeline.at \in {"taken", "mark"}, pipeline.item # End, queue' = queue,
              NEW mark \in BOOLEAN, HandOut(pipeline.item, mark),
              dead' = dead, told' = told, carry' \in BOOLEAN,
              MarkPending => MarkPending' \/ mark
       PROVE  FlowInv'
  <2>1. /\ handed' = Append(handed, [ frame |-> pipeline.item, mark |-> mark ])
        /\ pipeline' = [ at |-> "work", item |-> pipeline.item ]
    BY <1>13 DEF HandOut
  <2>2. pipeline' \in PipelineType /\ pipeline'.at = "work"
    BY <1>4, <1>8, <2>1
  <2>3. PipelineHas = 1 /\ PipelineHas' = 0 /\ PipelineHolds /\ ~ PipelineHolds'
    BY <1>13, <2>2 DEF PipelineHas, PipelineHolds
  <2>4. [ frame |-> pipeline.item, mark |-> mark ] \in [ frame : Frames, mark : BOOLEAN ]
    BY <1>4, <1>13 DEF Item
  <2>5. /\ handed' \in Seq([ frame : Frames, mark : BOOLEAN ])
        /\ Len(handed') = Len(handed) + 1
        /\ \A i \in 1 .. Len(handed) : handed'[i] = handed[i]
        /\ handed'[Len(handed) + 1] = [ frame |-> pipeline.item, mark |-> mark ]
    BY <1>3, <2>1, <2>4, AppendProperties DEF RestTyped
  <2>6. /\ handed'[Len(handed) + 1].frame = pipeline.item
        /\ handed'[Len(handed) + 1].mark = mark
    BY <2>5
  <2>7. Typed'
    <3>1. dead' \in BOOLEAN /\ told' \in BOOLEAN
      BY <1>3, <1>13 DEF Flags
    <3> QED
      BY <1>10, <1>11, <1>13, <2>2, <2>5, <3>1
  <2>8. Books'
    <3>1. PICK l \in Int : l = Len(handed)
      BY <1>6
    <3>2. PICK q \in Int : q = FramesQueued
      BY <1>6
    <3>3. PICK h \in Int : h = SourceHas
      BY <1>6
    <3>4. pulled = l + q + h + 1 + dropped + aborted
      BY <1>7, <2>3, <3>1, <3>2, <3>3
    <3>5. pulled = (l + 1) + q + h + 0 + dropped + aborted
      BY <1>6, <3>4
    <3>6. /\ Len(handed') = l + 1 /\ FramesQueued' = q /\ SourceHas' = h /\ PipelineHas' = 0
          /\ pulled' = pulled /\ dropped' = dropped /\ aborted' = aborted
      BY <1>1, <1>5, <1>11, <1>13, <2>3, <2>5, <3>1, <3>2, <3>3
    <3> QED
      BY <3>5, <3>6 DEF Books
  <2>9. EndIsLast'
    BY <1>1, <1>2, <1>5, <1>13, <2>2 DEF EndIsLast
  <2>10. \A f : TakenBefore(f) => TakenBefore(f)'
    <3>1. ASSUME NEW f, TakenBefore(f) PROVE TakenBefore(f)'
      <4>1. pipeline.item < f /\ \A i \in 1 .. Len(handed) : handed[i].frame < f
        BY <2>3, <3>1 DEF TakenBefore, HandedBefore
      <4>2. \A i \in 1 .. Len(handed') : handed'[i].frame < f
        <5>1. ASSUME NEW i \in 1 .. Len(handed') PROVE handed'[i].frame < f
          <6>1. CASE i \in 1 .. Len(handed)
            BY <2>5, <4>1, <6>1
          <6>2. CASE i = Len(handed) + 1
            BY <2>6, <4>1, <6>2
          <6> QED
            BY <1>6, <2>5, <6>1, <6>2
        <5> QED
          BY <5>1
      <4> QED
        BY <2>3, <4>2 DEF TakenBefore, HandedBefore
    <3> QED
      BY <3>1
  <2>11. InOrder'
    <3>1. ASSUME NEW i \in 1 .. Len(handed'), NEW j \in 1 .. Len(handed'), i < j
          PROVE  handed'[i].frame < handed'[j].frame
      <4>1. CASE j \in 1 .. Len(handed)
        <5>1. i \in 1 .. Len(handed)
          BY <1>6, <3>1, <4>1
        <5> QED
          BY <1>2, <2>5, <3>1, <4>1, <5>1 DEF InOrder
      <4>2. CASE j = Len(handed) + 1
        <5>1. i \in 1 .. Len(handed)
          BY <1>6, <2>5, <3>1, <4>2
        <5>2. HandedBefore(pipeline.item)
          BY <1>2, <2>3 DEF InOrder
        <5> QED
          BY <2>5, <2>6, <4>2, <5>1, <5>2 DEF HandedBefore
      <4> QED
        BY <1>6, <2>5, <4>1, <4>2
    <3>2. QueueInOrder'
      <4>1. ASSUME NEW j \in 1 .. Len(queue), queue[j] # End
            PROVE  TakenBefore(queue[j])' /\ \A k \in 1 .. j - 1 : queue[k] < queue[j]
        BY <1>2, <1>13, <2>10, <4>1 DEF InOrder, QueueInOrder
      <4> QED
        BY <1>13, <4>1 DEF QueueInOrder
    <3>3. \A f : QueuedBefore(f) => QueuedBefore(f)'
      BY <1>13, <2>10 DEF QueuedBefore
    <3> QED
      BY <1>1, <1>2, <1>5, <2>3, <3>1, <3>2, <3>3 DEF InOrder
  <2>12. MarksKept'
    <3>1. ASSUME NEW d \in DOMAIN discarded
          PROVE  /\ discarded[d] \in 0 .. Len(handed')
                 /\ MarkPending' \/ \E i \in 1 .. Len(handed') : i > discarded[d] /\ handed'[i].mark
      <4>1. /\ discarded[d] \in 0 .. Len(handed)
            /\ MarkPending \/ \E i \in 1 .. Len(handed) : i > discarded[d] /\ handed[i].mark
        BY <1>2 DEF MarksKept
      <4>2. discarded[d] \in 0 .. Len(handed')
        BY <1>6, <2>5, <4>1
      <4>3. CASE MarkPending'
        BY <4>2, <4>3
      <4>4. CASE mark
        <5>1. Len(handed) + 1 \in 1 .. Len(handed') /\ Len(handed) + 1 > discarded[d]
          BY <1>6, <2>5, <4>1
        <5> QED
          BY <2>6, <4>2, <4>4, <5>1
      <4>5. CASE \E i \in 1 .. Len(handed) : i > discarded[d] /\ handed[i].mark
        <5>1. \A i \in 1 .. Len(handed) : i \in 1 .. Len(handed')
          BY <1>6, <2>5
        <5> QED
          BY <2>5, <4>2, <4>5, <5>1
      <4> QED
        BY <1>13, <4>1, <4>3, <4>4, <4>5
    <3> QED
      BY <1>1, <3>1 DEF MarksKept
  <2>13. ReplayIsWhole'
    BY <1>12, <1>13
  <2> QED
    BY <2>7, <2>8, <2>9, <2>11, <2>12, <2>13 DEF FlowInv
(* The thread goes on with empty hands, or ends.                           *)
<1>14. ASSUME queue' = queue, handed' = handed, carry' = carry, told' \in BOOLEAN, dead' \in BOOLEAN,
              dead => dead', pipeline' \in PipelineType, PipelineHolds' <=> PipelineHolds,
              PipelineHolds => pipeline'.item = pipeline.item,
              pipeline.at = "mark" => pipeline'.at = "mark", EndIsLast'
       PROVE  FlowInv'
  <2>1. Typed'
    BY <1>3, <1>10, <1>11, <1>14 DEF Flags, RestTyped
  <2>2. Books'
    <3>1. PipelineHas' = PipelineHas
      BY <1>14 DEF PipelineHas
    <3> QED
      BY <1>1, <1>5, <1>7, <1>11, <1>14, <3>1 DEF Books
  <2>3. InOrder'
    BY <1>1, <1>2, <1>5, <1>14 DEF InOrder, QueueInOrder, QueuedBefore, TakenBefore, HandedBefore
  <2>4. MarksKept'
    BY <1>1, <1>2, <1>14 DEF MarksKept, MarkPending
  <2> QED
    BY <1>12, <1>14, <2>1, <2>2, <2>3, <2>4 DEF FlowInv
<1>15. CASE Take
  <2>1. /\ pipeline.at = "get" /\ queue # <<>>
        /\ pipeline' = [ at |-> "taken", item |-> Head(queue) ] /\ queue' = Tail(queue)
        /\ UNCHANGED <<carry, handed, dead, told>>
    BY <1>15 DEF Take, controlVars
  <2>2. queue \in Seq(Item) /\ \A i \in 1 .. Len(queue) : queue[i] = End => i = Len(queue)
    BY <1>2, <1>3 DEF EndIsLast, QueueTyped
  <2>3. /\ queue' \in Seq(Item) /\ Len(queue) \in Nat /\ 1 \in 1 .. Len(queue)
        /\ Len(queue) = Len(queue') + 1 /\ Len(queue') \in Nat
        /\ \A i \in 1 .. Len(queue') : i + 1 \in 1 .. Len(queue) /\ queue'[i] = queue[i + 1]
        /\ Head(queue) \in Item /\ Head(queue) = queue[1]
        /\ FramesQueued' \in Nat
        /\ FramesQueued = FramesQueued' + (IF Head(queue) = End THEN 0 ELSE 1)
        /\ Head(queue) = End => queue' = <<>>
    BY <2>1, <2>2, TailCounts DEF FramesQueued
  <2>4. pipeline' \in PipelineType /\ pipeline'.at = "taken" /\ pipeline'.item = Head(queue)
    BY <1>8, <2>1, <2>3
  <2>5. QueueTyped'
    BY <1>3, <2>3 DEF QueueTyped
  <2>6. Typed'
    BY <1>3, <1>10, <2>1, <2>4, <2>5 DEF Flags, RestTyped
  <2>7. ~ PipelineHolds /\ PipelineHas = 0 /\ (PipelineHolds' <=> Head(queue) # End)
    BY <2>1, <2>4 DEF PipelineHolds, PipelineHas
  <2>8. Books'
    <3>1. CASE Head(queue) = End
      <4>1. FramesQueued = FramesQueued' + 0
        BY <2>3, <3>1
      <4>2. FramesQueued' = FramesQueued
        <5>1. PICK q \in Nat : q = FramesQueued'
          BY <2>3
        <5>2. q + 0 = q
          OBVIOUS
        <5> QED
          BY <4>1, <5>1, <5>2
      <4>3. PipelineHas' = 0
        BY <2>7, <3>1 DEF PipelineHas
      <4> QED
        BY <1>1, <1>5, <1>7, <2>1, <2>7, <4>2, <4>3 DEF Books
    <3>2. CASE Head(queue) # End
      <4>1. FramesQueued = FramesQueued' + 1 /\ PipelineHas' = 1
        BY <1>6, <2>3, <2>7, <3>2 DEF PipelineHas
      <4>2. PICK l \in Int : l = Len(handed)
        BY <1>6
      <4>3. PICK q \in Int : q = FramesQueued'
        BY <2>3
      <4>4. PICK h \in Int : h = SourceHas
        BY <1>6
      <4>5. pulled = l + (q + 1) + h + 0 + dropped + aborted
        BY <1>7, <2>7, <4>1, <4>2, <4>3, <4>4
      <4>6. pulled = l + q + h + 1 + dropped + aborted
        BY <1>6, <4>5
      <4>7. /\ Len(handed') = l /\ FramesQueued' = q /\ SourceHas' = h /\ PipelineHas' = 1
            /\ pulled' = pulled /\ dropped' = dropped /\ aborted' = aborted
        BY <1>1, <1>5, <2>1, <4>1, <4>2, <4>3, <4>4
      <4> QED
        BY <4>6, <4>7 DEF Books
    <3> QED
      BY <3>1, <3>2
  <2>9. EndIsLast'
    <3>1. ASSUME NEW i \in 1 .. Len(queue'), queue'[i] = End
          PROVE  i = Len(queue') /\ SourceOver'
      <4>1. i + 1 \in 1 .. Len(queue) /\ queue[i + 1] = End
        BY <2>3, <3>1
      <4>2. i + 1 = Len(queue) /\ SourceOver
        BY <1>2, <4>1 DEF EndIsLast
      <4> QED
        BY <1>5, <2>3, <4>2
    <3>2. Head(queue) = End => queue' = <<>> /\ SourceOver'
      BY <1>2, <1>5, <2>3 DEF EndIsLast
    <3> QED
      BY <2>4, <3>1, <3>2 DEF EndIsLast
  <2>10. \A f : HandedBefore(f)' <=> HandedBefore(f)
    BY <2>1 DEF HandedBefore
  <2>11. ASSUME NEW f, QueuedBefore(f)
         PROVE  QueuedBefore(f)'
    BY <2>3, <2>4, <2>7, <2>10, <2>11 DEF QueuedBefore, TakenBefore
  <2>12. QueueInOrder'
    <3>1. ASSUME NEW j \in 1 .. Len(queue'), queue'[j] # End
          PROVE  /\ HandedBefore(queue'[j]) /\ (PipelineHolds' => Head(queue) < queue'[j])
                 /\ \A k \in 1 .. j - 1 : queue'[k] < queue'[j]
      <4>1. j + 1 \in 1 .. Len(queue) /\ queue'[j] = queue[j + 1] /\ queue[j + 1] # End
        BY <2>3, <3>1
      <4>2. TakenBefore(queue[j + 1]) /\ \A k \in 1 .. (j + 1) - 1 : queue[k] < queue[j + 1]
        BY <1>2, <4>1 DEF InOrder, QueueInOrder
      <4>3. 1 \in 1 .. (j + 1) - 1
        BY <2>3
      <4>4. ASSUME NEW k \in 1 .. j - 1 PROVE queue'[k] < queue'[j]
        <5>1. k \in 1 .. Len(queue') /\ k + 1 \in 1 .. (j + 1) - 1
          BY <2>3
        <5> QED
          BY <2>3, <4>1, <4>2, <5>1
      <4> QED
        BY <2>3, <4>1, <4>2, <4>3, <4>4 DEF TakenBefore
    <3>2. ASSUME NEW j \in 1 .. Len(queue'), queue'[j] # End
          PROVE  (TakenBefore(queue[j]))' /\ \A k \in 1 .. j - 1 : queue'[k] < queue'[j]
      BY <2>1, <2>4, <3>1, <3>2 DEF TakenBefore, HandedBefore
    <3> QED
      BY <3>2 DEF QueueInOrder
  <2>13. InOrder'
    <3>1. PipelineHolds' => HandedBefore(Head(queue))
      <4>1. Head(queue) # End => TakenBefore(queue[1])
        BY <1>2, <2>3 DEF InOrder, QueueInOrder
      <4> QED
        BY <2>3, <2>7, <4>1 DEF TakenBefore
    <3>2. PipelineHolds' => HandedBefore(pipeline.item)'
      BY <2>1, <2>4, <3>1 DEF HandedBefore
    <3> QED
      BY <1>1, <1>2, <1>5, <2>1, <2>11, <2>12, <3>2 DEF InOrder
  <2>14. MarksKept'
    BY <1>1, <1>2, <2>1, <2>4 DEF MarksKept, MarkPending
  <2> QED
    BY <1>12, <2>1, <2>6, <2>8, <2>9, <2>13, <2>14 DEF FlowInv
<1>16. CASE CheckCarry
  <2>1. pipeline.at = "taken" /\ UNCHANGED <<queue, carry, dead, told>>
    BY <1>16 DEF CheckCarry, queueVars, controlVars
  <2>2. CASE pipeline.item = End
    <3>1. pipeline' = [ pipeline EXCEPT !.at = "done" ] /\ handed' = handed
      BY <1>16, <2>2 DEF CheckCarry
    <3>2. pipeline' \in PipelineType /\ pipeline'.at = "done"
      BY <1>9, <3>1
    <3>3. ~ PipelineHolds /\ ~ PipelineHolds'
      BY <2>2, <3>2 DEF PipelineHolds
    <3>4. EndIsLast'
      BY <1>2, <1>5, <2>1, <2>2, <3>2 DEF EndIsLast
    <3>5. told' \in BOOLEAN /\ dead' \in BOOLEAN
      BY <1>3, <2>1 DEF Flags
    <3> QED
      BY <1>14, <2>1, <3>1, <3>2, <3>3, <3>4, <3>5
  <2>3. CASE pipeline.item # End /\ carry
    <3>1. pipeline' = [ pipeline EXCEPT !.at = "mark" ] /\ handed' = handed
      BY <1>16, <2>3 DEF CheckCarry
    <3>2. pipeline' \in PipelineType /\ pipeline'.at = "mark" /\ pipeline'.item = pipeline.item
      BY <1>9, <3>1
    <3>3. PipelineHolds /\ PipelineHolds'
      BY <2>1, <2>3, <3>2 DEF PipelineHolds
    <3>4. EndIsLast'
      BY <1>2, <1>5, <2>1, <2>3, <3>2 DEF EndIsLast
    <3>5. told' \in BOOLEAN /\ dead' \in BOOLEAN
      BY <1>3, <2>1 DEF Flags
    <3> QED
      BY <1>14, <2>1, <3>1, <3>2, <3>3, <3>4, <3>5
  <2>4. CASE pipeline.item # End /\ ~ carry
    <3>1. HandOut(pipeline.item, pipeline.item \in marks)
      BY <1>16, <2>4 DEF CheckCarry
    <3>2. (pipeline.item \in marks) \in BOOLEAN
      OBVIOUS
    <3>3. MarkPending => MarkPending'
      BY <1>1, <2>1, <2>4 DEF MarkPending
    <3>4. carry' \in BOOLEAN
      BY <1>3, <2>1 DEF Flags
    <3> QED
      BY <1>13, <2>1, <2>4, <3>1, <3>2, <3>3, <3>4
  <2> QED
    BY <2>2, <2>3, <2>4
<1>17. CASE MarkItem
  <2>1. /\ pipeline.at = "mark" /\ carry' = FALSE /\ HandOut(pipeline.item, TRUE)
        /\ UNCHANGED <<queue, dead, told>>
    BY <1>17 DEF MarkItem, controlVars
  <2>2. pipeline.item # End
    BY <1>2, <2>1 DEF EndIsLast
  <2> QED
    BY <1>13, <2>1, <2>2
<1>18. CASE Work
  <2>1. /\ pipeline.at = "work" /\ pipeline' = [ pipeline EXCEPT !.at = "get" ]
        /\ UNCHANGED <<handed, queue, carry, dead, told>>
    BY <1>18 DEF Work, queueVars, controlVars
  <2>2. pipeline' \in PipelineType /\ pipeline'.at = "get"
    BY <1>9, <2>1
  <2>3. ~ PipelineHolds /\ ~ PipelineHolds'
    BY <2>1, <2>2 DEF PipelineHolds
  <2>4. EndIsLast'
    BY <1>2, <1>5, <2>1, <2>2 DEF EndIsLast
  <2>5. told' \in BOOLEAN /\ dead' \in BOOLEAN
    BY <1>3, <2>1 DEF Flags
  <2> QED
    BY <1>14, <2>1, <2>2, <2>3, <2>4, <2>5
<1>19. CASE PipelineDies
  <2>1. /\ pipeline.at = "work" /\ pipeline' = [ pipeline EXCEPT !.at = "done" ]
        /\ UNCHANGED <<handed, queue, carry>> /\ dead' = TRUE /\ told' = TRUE
    BY <1>19 DEF PipelineDies, TellSource, queueVars
  <2>2. pipeline' \in PipelineType /\ pipeline'.at = "done"
    BY <1>9, <2>1
  <2>3. ~ PipelineHolds /\ ~ PipelineHolds'
    BY <2>1, <2>2 DEF PipelineHolds
  <2>4. EndIsLast'
    BY <1>2, <1>5, <2>1, <2>2 DEF EndIsLast
  <2> QED
    BY <1>14, <2>1, <2>2, <2>3, <2>4
<1> QED
  BY <1>15, <1>16, <1>17, <1>18, <1>19 DEF PipelineStep

-----------------------------------------------------------------------------
(* Every step.                                                             *)
LEMMA StepFlowInv == FlowInv /\ [FlowNext]_flowVars => FlowInv'
<1> SUFFICES ASSUME FlowInv, [FlowNext]_flowVars PROVE FlowInv'
  OBVIOUS
<1>1. CASE PullFrame \/ SourceEnds \/ SourceStep
  BY <1>1, SourceKeeps
<1>2. CASE PipelineStep \/ PipelineDies
  BY <1>2, PipelineKeeps
<1>3. CASE Stop
  <2>1. /\ UNCHANGED <<queueVars, sourceVars, pipelineVars, live, dead, marks>>
        /\ stop' = TRUE /\ told' = TRUE
    BY <1>3 DEF Stop
  <2>2. Typed'
    BY <2>1 DEF FlowInv, Typed, Flags, QueueTyped, RestTyped, queueVars, sourceVars, pipelineVars
  <2>3. Books' /\ EndIsLast' /\ ReplayIsWhole' /\ InOrder' /\ MarksKept'
    BY <2>1 DEF FlowInv, Books, FramesQueued, SourceHas, SourceHolds, PipelineHas, PipelineHolds,
         EndIsLast, ReplayIsWhole, SourceOver, InOrder, QueueInOrder, QueuedBefore, TakenBefore,
         HandedBefore, MarksKept, MarkPending, queueVars, sourceVars, pipelineVars
  <2> QED
    BY <2>2, <2>3 DEF FlowInv
<1>4. CASE Done \/ UNCHANGED flowVars
  <2>1. UNCHANGED flowVars
    BY <1>4 DEF Done
  <2>2. Typed'
    BY <2>1 DEF flowVars, FlowInv, Typed, Flags, QueueTyped, RestTyped
  <2>3. Books' /\ EndIsLast' /\ ReplayIsWhole' /\ InOrder' /\ MarksKept'
    BY <2>1 DEF flowVars, FlowInv, Books, FramesQueued, SourceHas, SourceHolds, PipelineHas,
         PipelineHolds, EndIsLast, ReplayIsWhole, SourceOver, InOrder, QueueInOrder,
         QueuedBefore, TakenBefore, HandedBefore, MarksKept, MarkPending
  <2> QED
    BY <2>2, <2>3 DEF FlowInv
<1> QED
  BY <1>1, <1>2, <1>3, <1>4 DEF FlowNext

-----------------------------------------------------------------------------
(* For any capacity, any number of frames and any marks: a frame that was  *)
(* yielded was handed out, is under way, counted as dropped or thrown away *)
(* by a source that had been told to stop; in order, a replay as a whole,  *)
(* and no mark of a dropped frame is forgotten.                            *)
THEOREM FramesAreAccounted == FlowSpec => []DropsAreCounted
<1>1. FlowInv => DropsAreCounted
  <2> SUFFICES ASSUME FlowInv PROVE DropsAreCounted
    OBVIOUS
  <2>1. Typed /\ Books /\ EndIsLast /\ ReplayIsWhole /\ InOrder /\ MarksKept
    BY DEF FlowInv
  <2>2. pulled = Len(handed) + UnderWay + dropped + aborted
    BY BooksSuffice
  <2>3. DOMAIN handed = 1 .. Len(handed) /\ Len(handed) \in Nat
    BY <2>1 DEF Typed, RestTyped
  <2>4. ASSUME ~ live, Finished, ~ stop, ~ dead PROVE Len(handed) = NumFrames
    <3>1. source.at = "done" /\ pipeline.at = "done" /\ queue = <<>>
      BY <2>1, <2>4 DEF Finished, EndIsLast
    <3>2. FramesQueued = 0 /\ SourceHas = 0 /\ PipelineHas = 0
      BY <3>1 DEF FramesQueued, FramesIn, EndIn, SourceHas, PipelineHas, SourceHolds, PipelineHolds
    <3>3. dropped = 0 /\ aborted = 0 /\ pulled = NumFrames
      <4>1. aborted \in Nat
        BY <2>1 DEF Typed, RestTyped
      <4>2. SourceOver
        BY <3>1 DEF SourceOver
      <4>3. dropped = 0 /\ pulled = NumFrames
        BY <2>1, <2>4, <4>2 DEF ReplayIsWhole
      <4>4. ~ (aborted > 0)
        BY <2>1, <2>4 DEF ReplayIsWhole
      <4> QED
        BY <4>1, <4>3, <4>4
    <3> QED
      BY <2>1, <2>3, <3>2, <3>3 DEF Books
  <2>5. \A d \in DOMAIN discarded :
          \/ carry \/ source.at = "flag" \/ pipeline.at = "mark"
          \/ \E i \in DOMAIN handed : i > discarded[d] /\ handed[i].mark
    BY <2>1, <2>3 DEF MarksKept, MarkPending
  <2> QED
    BY <2>1, <2>2, <2>3, <2>4, <2>5 DEF DropsAreCounted, ReplayIsWhole, InOrder
<1> QED
  BY <1>1, InitFlowInv, StepFlowInv, PTL DEF FlowSpec

(* What the queue holds, and every counter, is what it should be.          *)
THEOREM FlowTyped == FlowSpec => []TypeOK
<1>1. FlowInv => TypeOK
  BY BooksSuffice
<1> QED
  BY <1>1, InitFlowInv, StepFlowInv, PTL DEF FlowSpec

(***************************************************************************)
(* The motion gate: on any stream its counters find the segments that a    *)
(* definition over the whole stream names.                                 *)
(***************************************************************************)

GateSpec == GateInit /\ [][GateNext]_gateVars

FrameSeen == [ moving : BOOLEAN, mark : BOOLEAN ]
Seen      == Len(history)

(* Nothing after a up to b was active, and there the gate must have given  *)
(* up: a mark, or the last of QuietFrames still frames.                    *)
Ended(a, b) ==
  /\ b \in (a + 1) .. Seen
  /\ \A c \in (a + 1) .. b : ~ Active(c)
  /\ history[b].mark \/ b - a >= QuietFrames

(* Between p and b the stream has been interrupted.                        *)
Cut(p, b) ==
  /\ b \in (p + 1) .. Seen
  /\ ~ Active(b)
  /\ \/ history[b].mark
     \/ b - QuietFrames + 1 >= p /\ \A c \in (b - QuietFrames + 1) .. b : ~ Active(c)

(* The segment that starts at o reaches a, and nothing seen extends it.    *)
Spans(o, a) ==
  /\ a \in o .. Seen /\ Active(a) /\ Connected(o, a)
  /\ \A c \in (a + 1) .. Seen : ~ (Active(c) /\ Connected(o, c))

GateTyped ==
  /\ history \in Seq(FrameSeen)
  /\ gate \in GateType /\ (gate.primed <=> history # <<>>)
  /\ opened \subseteq [ id : Nat, ts : Nat ] /\ closed \subseteq [ id : Nat, ts : Nat ]
  /\ flushed \in BOOLEAN

(* The events bear the gate's ids, each once, and the open one is the last. *)
IdsFit ==
  /\ gate.openId \in {NoSegment, gate.segmentCount}
  /\ \A e \in opened : e.id \in 1 .. gate.segmentCount
  /\ \A i \in 1 .. gate.segmentCount : \E e \in opened : e.id = i
  /\ \A e, f \in opened : e.id = f.id => e = f
  /\ \A e, f \in closed : e.id = f.id => e = f
  /\ \A i \in Nat : i \in IdsOf(closed) <=> i \in 1 .. gate.segmentCount /\ i # gate.openId

(* One OPEN for each segment of the stream, one CLOSE at its end.          *)
OpensFit == Starts = { e.ts : e \in opened }
ClosesFit ==
  \A o \in opened, c \in closed : o.id = c.id =>
    /\ Spans(o.ts, c.ts)
    /\ flushed \/ \E b \in 1 .. Seen : Ended(c.ts, b)

(* The open segment, from its first to its last active frame.              *)
OpenFits ==
  IsOpen(gate) => \A o \in opened : o.id = gate.openId =>
    /\ Spans(o.ts, gate.lastActive)
    /\ \A c \in (gate.lastActive + 1) .. Seen : ~ Active(c)
    /\ \A k \in (o.ts + 1) .. Seen : ~ history[k].mark
    /\ gate.quietStreak = Seen - gate.lastActive /\ gate.quietStreak < QuietFrames

(* The run of active frames at the end of what was seen.                   *)
StreakFits ==
  LET s == gate.activeStreak
  IN  /\ s <= Seen
      /\ \A i \in (Seen - s + 1) .. Seen : Active(i)
      /\ s < Seen => ~ Active(Seen - s)
      /\ s > 0 => gate.backdate = Seen - s + 1
      /\ ~ IsOpen(gate) => s < OpenFrames

(* While nothing is open, no earlier run reaches to here.                  *)
NothingReachesHere ==
  ~ IsOpen(gate) => \A p \in 1 .. Seen : RunStart(p) => \E b \in 1 .. Seen : Cut(p, b)

GateInv ==
  /\ GateTyped /\ IdsFit /\ OpensFit /\ ClosesFit
  /\ flushed => ~ IsOpen(gate)
  /\ ~ flushed => OpenFits /\ StreakFits /\ NothingReachesHere

-----------------------------------------------------------------------------
(* What one more frame leaves as it was.                                   *)
Grown ==
  /\ Seen \in Nat /\ Seen' = Seen + 1
  /\ \A i \in 1 .. Seen : /\ Active(i)' <=> Active(i)
                          /\ history'[i].mark <=> history[i].mark

LEMMA Debounces == OpenFrames \in Nat /\ OpenFrames >= 1 /\ QuietFrames \in Nat /\ QuietFrames >= 1
  BY GateAssumption

LEMMA ConnectedKept ==
  ASSUME Grown, NEW i \in Int, NEW j \in Int, 1 <= i, j <= Seen
  PROVE  Connected(i, j)' <=> Connected(i, j)
<1>1. \A k \in (i + 1) .. j : history'[k].mark <=> history[k].mark
  BY DEF Grown
<1>2. \A k \in i .. (j - QuietFrames + 1) : \A m \in k .. (k + QuietFrames - 1) :
        Active(m)' <=> Active(m)
  BY Debounces DEF Grown
<1> QED
  BY <1>1, <1>2 DEF Connected

LEMMA RunStartKept ==
  ASSUME Grown, NEW o \in Int, 1 <= o, o + OpenFrames - 1 <= Seen
  PROVE  RunStart(o)' <=> RunStart(o)
<1>1. \A i \in o .. (o + OpenFrames - 1) : Active(i)' <=> Active(i)
  BY Debounces DEF Grown
<1>2. o > 1 => (Active(o - 1)' <=> Active(o - 1))
  BY Debounces DEF Grown
<1>3. o + OpenFrames - 1 <= Len(history)' /\ o + OpenFrames - 1 <= Len(history)
  BY Debounces DEF Grown, Seen
<1> QED
  BY <1>1, <1>2, <1>3 DEF RunStart

LEMMA ConnectedShorter ==
  ASSUME NEW i \in Int, NEW j \in Int, NEW k \in Int, k <= j, Connected(i, j)
  PROVE  Connected(i, k)
  BY Debounces DEF Connected

(* A start is settled by the frames up to it and its run.                  *)
LEMMA StartKept ==
  ASSUME Grown, NEW o \in Int, 1 <= o, o + OpenFrames - 1 <= Seen
  PROVE  o \in Starts' <=> o \in Starts
<1>1. ASSUME NEW p \in 1 .. (o - 1)
      PROVE  /\ RunStart(p)' <=> RunStart(p)
             /\ Connected(p, o)' <=> Connected(p, o)
  <2>1. p + OpenFrames - 1 <= Seen /\ o <= Seen /\ p \in Int /\ 1 <= p
    BY Debounces DEF Grown
  <2> QED
    BY <2>1, RunStartKept, ConnectedKept
<1>2. RunStart(o)' <=> RunStart(o)
  BY RunStartKept
<1>3. o \in 1 .. Len(history) /\ o \in 1 .. Len(history)'
  BY Debounces DEF Grown, Seen
<1> QED
  BY <1>1, <1>2, <1>3 DEF Starts

LEMMA StartsAreRuns ==
  ASSUME Seen \in Nat, NEW o \in Starts
  PROVE  o \in Int /\ 1 <= o /\ o <= Seen /\ o + OpenFrames - 1 <= Seen /\ RunStart(o)
  BY DEF Starts, RunStart, Seen

LEMMA StartsAreRunsAfter ==
  ASSUME Grown, NEW o \in Starts'
  PROVE  o \in Int /\ 1 <= o /\ o <= Seen + 1 /\ o + OpenFrames - 1 <= Seen + 1 /\ RunStart(o)'
  BY DEF Starts, RunStart, Seen, Grown

(* Only a run that the new frame completes can be a new start, and it is   *)
(* one unless an earlier run reaches it.                                   *)
LastRun == Seen - OpenFrames + 1

LEMMA StartsKept ==
  ASSUME Grown,
         RunStart(LastRun)' => \E p \in 1 .. (LastRun' - 1) : RunStart(p) /\ Connected(p, LastRun)'
  PROVE  Starts' = Starts
<1>0. LastRun \in Int /\ LastRun' = LastRun + 1 /\ LastRun' = Seen' - OpenFrames + 1
  BY Debounces DEF LastRun, Grown
<1>1. ASSUME NEW o \in Starts' PROVE o \in Starts
  <2>1. o \in Int /\ 1 <= o /\ o + OpenFrames - 1 <= Seen + 1 /\ RunStart(o)'
    BY <1>1, StartsAreRunsAfter
  <2>2. CASE o + OpenFrames - 1 <= Seen
    BY <1>1, <2>1, <2>2, StartKept
  <2>3. CASE o + OpenFrames - 1 = Seen + 1
    <3>1. o = LastRun'
      BY <1>0, <2>1, <2>3, Debounces DEF Grown
    <3>2. PICK p \in 1 .. (LastRun' - 1) : RunStart(p) /\ Connected(p, LastRun)'
      BY <2>1, <3>1
    <3>3. RunStart(p)'
      <4>1. p \in Int /\ 1 <= p /\ p + OpenFrames - 1 <= Seen
        BY <1>0, <3>1, <2>3, Debounces DEF Grown
      <4> QED
        BY <3>2, <4>1, RunStartKept
    <3>4. p \in 1 .. (o - 1) /\ Connected(p, o)'
      BY <3>1, <3>2
    <3> QED
      BY <1>1, <3>3, <3>4 DEF Starts
  <2> QED
    BY <2>1, <2>2, <2>3, Debounces DEF Grown
<1>2. ASSUME NEW o \in Starts PROVE o \in Starts'
  BY StartsAreRuns, StartKept DEF Grown
<1> QED
  BY <1>1, <1>2

LEMMA StartsGrow ==
  ASSUME Grown, LastRun' >= 1, RunStart(LastRun)',
         \A p \in 1 .. (LastRun' - 1) : RunStart(p) => ~ Connected(p, LastRun)'
  PROVE  Starts' = Starts \cup {LastRun'}
<1>0. LastRun \in Int /\ LastRun' = LastRun + 1 /\ LastRun' = Seen' - OpenFrames + 1
  BY Debounces DEF LastRun, Grown
<1>1. ASSUME NEW o \in Starts', o # LastRun' PROVE o \in Starts
  <2>1. o \in Int /\ 1 <= o /\ o + OpenFrames - 1 <= Seen + 1
    BY <1>1, StartsAreRunsAfter
  <2>2. o + OpenFrames - 1 <= Seen
    BY <1>0, <1>1, <2>1, Debounces DEF Grown
  <2> QED
    BY <1>1, <2>1, <2>2, StartKept
<1>2. ASSUME NEW o \in Starts PROVE o \in Starts'
  BY StartsAreRuns, StartKept DEF Grown
<1>3. LastRun' \in Starts'
  <2>1. ASSUME NEW p \in 1 .. (LastRun' - 1), RunStart(p)' PROVE RunStart(p)
    <3>1. p \in Int /\ 1 <= p /\ p + OpenFrames - 1 <= Seen
      BY <1>0, Debounces DEF Grown
    <3> QED
      BY <2>1, <3>1, RunStartKept
  <2>2. LastRun' \in 1 .. Len(history)'
    BY <1>0, Debounces DEF Grown, Seen
  <2> QED
    BY <2>1, <2>2 DEF Starts
<1> QED
  BY <1>1, <1>2, <1>3

-----------------------------------------------------------------------------
(* What becomes of the ends of segments.                                   *)
LEMMA SpansKept ==
  ASSUME Grown, NEW o \in Int, 1 <= o, NEW a, Spans(o, a),
         ~ (Active(Seen)' /\ Connected(o, Seen)')
  PROVE  Spans(o, a)'
<1>1. a \in Int /\ o <= a /\ a <= Seen /\ Active(a) /\ Connected(o, a)
  BY DEF Spans, Grown
<1>2. Active(a)' /\ Connected(o, a)'
  BY <1>1, ConnectedKept DEF Grown
<1>3. ASSUME NEW c \in (a + 1) .. Seen' PROVE ~ (Active(c)' /\ Connected(o, c)')
  <2>1. CASE c = Seen'
    BY <2>1
  <2>2. CASE c <= Seen
    <3>1. c \in Int /\ 1 <= c /\ o <= c /\ c \in (a + 1) .. Seen
      BY <1>1, <2>2
    <3>2. (Active(c)' <=> Active(c)) /\ (Connected(o, c)' <=> Connected(o, c))
      BY <2>2, <3>1, ConnectedKept DEF Grown
    <3> QED
      BY <3>1, <3>2 DEF Spans
  <2> QED
    BY <1>1, <2>1, <2>2 DEF Grown
<1> QED
  BY <1>1, <1>2, <1>3 DEF Spans, Grown

LEMMA EndedKept ==
  ASSUME Grown, NEW a \in Int, 1 <= a, NEW b \in Int, Ended(a, b)
  PROVE  Ended(a, b)'
<1>1. b \in Int /\ a + 1 <= b /\ b <= Seen
  BY DEF Ended, Grown
<1>2. \A c \in (a + 1) .. b : Active(c)' <=> Active(c)
  BY <1>1 DEF Grown
<1>3. history'[b].mark <=> history[b].mark
  BY <1>1 DEF Grown
<1> QED
  BY <1>1, <1>2, <1>3 DEF Ended, Grown

LEMMA CutKept ==
  ASSUME Grown, NEW p \in Int, 1 <= p, NEW b \in Int, Cut(p, b)
  PROVE  Cut(p, b)'
<1>1. b \in Int /\ p + 1 <= b /\ b <= Seen
  BY DEF Cut, Grown
<1>2. \A c \in (b - QuietFrames + 1) .. b : c >= p => (Active(c)' <=> Active(c))
  BY <1>1, Debounces DEF Grown
<1>3. (history'[b].mark <=> history[b].mark) /\ (Active(b)' <=> Active(b))
  BY <1>1 DEF Grown
<1> QED
  BY <1>1, <1>2, <1>3, Debounces DEF Cut, Grown

(* An ended segment reaches no later frame, and a cut separates two runs.  *)
LEMMA EndedEnds ==
  ASSUME Grown, NEW o \in Int, 1 <= o, NEW a \in Int, o <= a, NEW b \in Int, Ended(a, b)
  PROVE  ~ Connected(o, Seen)'
<1>1. b \in Int /\ a + 1 <= b /\ b <= Seen /\ Seen \in Int /\ Seen' = Seen + 1
  BY DEF Ended, Grown
<1>2. CASE history[b].mark
  <2>1. history'[b].mark /\ b \in (o + 1) .. Seen'
    BY <1>1, <1>2 DEF Grown
  <2> QED
    BY <2>1 DEF Connected
<1>3. CASE b - a >= QuietFrames
  <2>1. a + 1 \in o .. (Seen' - QuietFrames + 1)
    BY <1>1, <1>3, Debounces
  <2>2. ASSUME NEW m \in (a + 1) .. ((a + 1) + QuietFrames - 1) PROVE ~ Active(m)'
    <3>1. m \in Int /\ m \in (a + 1) .. b /\ m \in 1 .. Seen
      BY <1>1, <1>3, Debounces
    <3> QED
      BY <3>1 DEF Ended, Grown
  <2> QED
    BY <2>1, <2>2 DEF Connected
<1> QED
  BY <1>2, <1>3 DEF Ended

LEMMA CutSeparates ==
  ASSUME Grown, NEW p \in Int, 1 <= p, NEW b \in Int, Cut(p, b), NEW o \in Int, b <= o
  PROVE  ~ Connected(p, o)'
<1>1. b \in Int /\ p + 1 <= b /\ b <= Seen
  BY DEF Cut, Grown
<1>2. CASE history[b].mark
  <2>1. history'[b].mark
    BY <1>1, <1>2 DEF Grown
  <2> QED
    BY <1>1, <2>1 DEF Connected
<1>3. CASE b - QuietFrames + 1 >= p /\ \A c \in (b - QuietFrames + 1) .. b : ~ Active(c)
  <2>1. b - QuietFrames + 1 \in p .. (o - QuietFrames + 1)
    BY <1>1, <1>3, Debounces
  <2>2. ASSUME NEW m \in (b - QuietFrames + 1) .. ((b - QuietFrames + 1) + QuietFrames - 1)
        PROVE ~ Active(m)'
    <3>1. m \in Int /\ m \in 1 .. Seen /\ m \in (b - QuietFrames + 1) .. b
      BY <1>1, <1>3, Debounces DEF Grown
    <3> QED
      BY <1>3, <3>1 DEF Grown
  <2> QED
    BY <2>1, <2>2 DEF Connected
<1> QED
  BY <1>2, <1>3 DEF Cut

(* The end of a segment is the greatest frame that belongs to it.          *)
LEMMA SpansIsMax ==
  ASSUME Seen \in Nat, NEW o \in Int, 1 <= o, NEW a, Spans(o, a)
  PROVE  Max({ c \in o .. Seen : Active(c) /\ Connected(o, c) }) = a
<1> DEFINE T == { c \in o .. Seen : Active(c) /\ Connected(o, c) }
<1>1. a \in T /\ a \in Int
  BY DEF Spans
<1>2. \A c \in T : c \in Int /\ c <= a
  BY <1>1 DEF Spans
<1>3. \A x \in T : (\A y \in T : x >= y) => x = a
  BY <1>1, <1>2
<1>4. \A y \in T : a >= y
  BY <1>1, <1>2
<1> HIDE DEF T
<1>5. Max(T) = CHOOSE x \in T : \A y \in T : x >= y
  BY DEF Max
<1>6. Max(T) = a
  BY <1>1, <1>3, <1>4, <1>5
<1> QED
  BY <1>6 DEF T

-----------------------------------------------------------------------------
(* A frame, as the gate sees it: it moved, or it did not.                  *)
ClosesNow(mark) == IsOpen(gate) /\ (mark \/ gate.quietStreak + 1 >= QuietFrames)
OpensNow        == ~ IsOpen(gate) /\ gate.activeStreak + 1 >= OpenFrames

FrameMoved ==
  /\ Grown /\ Active(Seen)' /\ ~ history'[Seen'].mark
  /\ gate' \in GateType
  /\ gate'.activeStreak = gate.activeStreak + 1 /\ gate'.quietStreak = 0
  /\ gate'.lastActive = Seen'
  /\ gate'.backdate = IF gate.activeStreak = 0 THEN Seen' ELSE gate.backdate
  /\ closed' = closed
  /\ OpensNow => /\ gate'.segmentCount = gate.segmentCount + 1
                 /\ gate'.openId = gate.segmentCount + 1
                 /\ opened' = opened \cup {Event(gate'.openId, gate'.backdate)}
  /\ ~ OpensNow => /\ gate'.segmentCount = gate.segmentCount
                   /\ gate'.openId = gate.openId
                   /\ opened' = opened

FrameRested ==
  LET mark == history'[Seen'].mark
  IN  /\ Grown /\ ~ Active(Seen)'
      /\ gate' \in GateType
      /\ gate'.activeStreak = 0 /\ gate'.segmentCount = gate.segmentCount
      /\ opened' = opened
      /\ ClosesNow(mark) => /\ gate'.openId = NoSegment
                            /\ closed' = closed \cup {Event(gate.openId, gate.lastActive)}
      /\ ~ ClosesNow(mark) => /\ gate'.openId = gate.openId
                              /\ closed' = closed
                              /\ IsOpen(gate) => /\ gate'.quietStreak = gate.quietStreak + 1
                                                 /\ gate'.lastActive = gate.lastActive
                                                 /\ ~ mark

LEMMA DeliverGrows ==
  ASSUME GateTyped, NEW moving \in BOOLEAN, NEW discontinuity \in BOOLEAN,
         Deliver(moving, discontinuity)
  PROVE  /\ Grown /\ history' \in Seq(FrameSeen) /\ history' # <<>>
         /\ history'[Seen'].mark = discontinuity
         /\ Active(Seen)' <=> history # <<>> /\ moving /\ ~ discontinuity
<1> DEFINE f == [moving |-> moving, mark |-> discontinuity]
<1>1. f \in FrameSeen /\ f.moving = moving /\ f.mark = discontinuity
  BY DEF FrameSeen
<1>2. history' = Append(history, f) /\ history \in Seq(FrameSeen)
  BY DEF Deliver, GateTyped
<1> HIDE DEF f
<1>3. /\ history' \in Seq(FrameSeen) /\ Len(history') = Len(history) + 1 /\ Len(history) \in Nat
      /\ \A i \in 1 .. Len(history) : history'[i] = history[i]
      /\ history'[Len(history) + 1] = f
  BY <1>1, <1>2
<1>4. Len(history) = 0 <=> history = <<>>
  BY <1>2
<1>5. Seen \in Nat /\ Seen' = Seen + 1 /\ Seen = Len(history)
  BY <1>3 DEF Seen
<1>6. Active(Seen)' <=> Seen + 1 > 1 /\ f.moving /\ ~ f.mark
  BY <1>3, <1>5 DEF Active
<1>7. Grown
  BY <1>3, <1>5 DEF Grown, Active
<1>8. history' # <<>>
  BY <1>3
<1> QED
  BY <1>1, <1>3, <1>4, <1>5, <1>6, <1>7, <1>8

LEMMA GateFields ==
  ASSUME NEW g \in GateType
  PROVE  /\ g.primed \in BOOLEAN /\ g.segmentCount \in Nat /\ g.activeStreak \in Nat
         /\ g.quietStreak \in Nat /\ g.openId \in Nat /\ g.backdate \in Nat
         /\ g.lastActive \in Nat
  BY DEF GateType

UpdatedActive(g, ts, h) ==
  /\ h \in GateType /\ h.primed
  /\ h.activeStreak = g.activeStreak + 1 /\ h.quietStreak = 0 /\ h.lastActive = ts
  /\ h.backdate = IF g.activeStreak = 0 THEN ts ELSE g.backdate
  /\ IF ~ IsOpen(g) /\ g.activeStreak + 1 >= OpenFrames
     THEN h.segmentCount = g.segmentCount + 1 /\ h.openId = g.segmentCount + 1
     ELSE h.segmentCount = g.segmentCount /\ h.openId = g.openId

UpdatedQuiet(g, h) ==
  /\ h \in GateType /\ h.primed
  /\ h.activeStreak = 0 /\ h.lastActive = g.lastActive
  /\ h.segmentCount = g.segmentCount
  /\ IF IsOpen(g) /\ g.quietStreak + 1 >= QuietFrames
     THEN h.openId = NoSegment
     ELSE h.openId = g.openId /\ (IsOpen(g) => h.quietStreak = g.quietStreak + 1)

LEMMA ActiveUpdate ==
  ASSUME NEW g \in GateType, NEW ts \in Nat, NEW h, h = [ OnActive(g, ts) EXCEPT !.primed = TRUE ]
  PROVE  UpdatedActive(g, ts, h)
<1>1. g.activeStreak + 1 = 1 <=> g.activeStreak = 0
  BY GateFields
<1> DEFINE opens == ~ IsOpen(g) /\ g.activeStreak + 1 >= OpenFrames
           back  == IF g.activeStreak + 1 = 1 THEN ts ELSE g.backdate
<1>2. h = [ g EXCEPT !.activeStreak = g.activeStreak + 1, !.quietStreak = 0, !.backdate = back,
                     !.lastActive = ts,
                     !.segmentCount = IF opens THEN g.segmentCount + 1 ELSE g.segmentCount,
                     !.openId = IF opens THEN g.segmentCount + 1 ELSE g.openId,
                     !.primed = TRUE ]
  BY DEF OnActive, GateType
<1>3. back \in Nat /\ g.activeStreak + 1 \in Nat /\ g.segmentCount + 1 \in Nat /\ 0 \in Nat
  BY GateFields
<1>4. back = IF g.activeStreak = 0 THEN ts ELSE g.backdate
  BY <1>1
<1> HIDE DEF back
<1>5. CASE opens
  <2>1. h = [ g EXCEPT !.activeStreak = g.activeStreak + 1, !.quietStreak = 0, !.backdate = back,
                       !.lastActive = ts, !.segmentCount = g.segmentCount + 1,
                       !.openId = g.segmentCount + 1, !.primed = TRUE ]
    BY <1>2, <1>5
  <2>2. /\ h \in GateType /\ h.primed
        /\ h.activeStreak = g.activeStreak + 1 /\ h.quietStreak = 0 /\ h.lastActive = ts
        /\ h.backdate = back /\ h.segmentCount = g.segmentCount + 1 /\ h.openId = g.segmentCount + 1
    BY <1>3, <2>1 DEF GateType
  <2> QED
    BY <1>4, <1>5, <2>2 DEF UpdatedActive
<1>6. CASE ~ opens
  <2>1. h = [ g EXCEPT !.activeStreak = g.activeStreak + 1, !.quietStreak = 0, !.backdate = back,
                       !.lastActive = ts, !.segmentCount = g.segmentCount,
                       !.openId = g.openId, !.primed = TRUE ]
    BY <1>2, <1>6
  <2>2. /\ h \in GateType /\ h.primed
        /\ h.activeStreak = g.activeStreak + 1 /\ h.quietStreak = 0 /\ h.lastActive = ts
        /\ h.backdate = back /\ h.segmentCount = g.segmentCount /\ h.openId = g.openId
    BY <1>3, <2>1 DEF GateType
  <2> QED
    BY <1>4, <1>6, <2>2 DEF UpdatedActive
<1> QED
  BY <1>5, <1>6

LEMMA QuietUpdate ==
  ASSUME NEW g \in GateType, NEW h, h = [ OnQuiet(g) EXCEPT !.primed = TRUE ]
  PROVE  UpdatedQuiet(g, h)
<1> DEFINE quiet == g.quietStreak + 1
<1>1. quiet \in Nat
  BY GateFields
<1>2. PICK still : still = [ g EXCEPT !.activeStreak = 0 ]
  OBVIOUS
<1>3. /\ still \in GateType /\ still.activeStreak = 0 /\ still.lastActive = g.lastActive
      /\ still.segmentCount = g.segmentCount /\ still.openId = g.openId
  BY <1>2 DEF GateType
<1>4. PICK quieter : quieter = [ still EXCEPT !.quietStreak = quiet ]
  OBVIOUS
<1> HIDE DEF quiet
<1>5. /\ quieter \in GateType /\ quieter.activeStreak = 0 /\ quieter.lastActive = g.lastActive
      /\ quieter.segmentCount = g.segmentCount /\ quieter.openId = g.openId
      /\ quieter.quietStreak = quiet
  BY <1>1, <1>3, <1>4 DEF GateType
<1>6. OnQuiet(g) = IF ~ IsOpen(g) THEN still
                   ELSE IF quiet >= QuietFrames THEN CloseSegment(quieter) ELSE quieter
  <2>1. quieter = [ g EXCEPT !.activeStreak = 0, !.quietStreak = g.quietStreak + 1 ]
    BY <1>2, <1>4 DEF quiet
  <2> QED
    BY <1>2, <1>5, <2>1 DEF OnQuiet, quiet
<1>7. ASSUME NEW q \in GateType, NEW r, r = [ q EXCEPT !.primed = TRUE ]
      PROVE  /\ r \in GateType /\ r.primed /\ r.activeStreak = q.activeStreak
             /\ r.lastActive = q.lastActive /\ r.segmentCount = q.segmentCount
             /\ r.openId = q.openId /\ r.quietStreak = q.quietStreak
  BY <1>7 DEF GateType
<1>8. CASE ~ IsOpen(g)
  <2>1. h = [ still EXCEPT !.primed = TRUE ]
    BY <1>6, <1>8
  <2> QED
    BY <1>3, <1>7, <1>8, <2>1 DEF UpdatedQuiet
<1>9. CASE IsOpen(g) /\ quiet >= QuietFrames
  <2>1. PICK shut : shut = CloseSegment(quieter)
    OBVIOUS
  <2>2. /\ shut \in GateType /\ shut.activeStreak = 0 /\ shut.lastActive = g.lastActive
        /\ shut.segmentCount = g.segmentCount /\ shut.openId = NoSegment
    <3>1. shut = [ quieter EXCEPT !.openId = NoSegment, !.quietStreak = 0, !.activeStreak = 0 ]
      BY <2>1 DEF CloseSegment
    <3> QED
      BY <1>5, <3>1 DEF GateType, NoSegment
  <2>3. h = [ shut EXCEPT !.primed = TRUE ]
    BY <1>6, <1>9, <2>1
  <2> QED
    BY <1>7, <1>9, <2>2, <2>3 DEF UpdatedQuiet, quiet
<1>10. CASE IsOpen(g) /\ ~ quiet >= QuietFrames
  <2>1. h = [ quieter EXCEPT !.primed = TRUE ]
    BY <1>6, <1>10
  <2> QED
    BY <1>5, <1>7, <1>10, <2>1 DEF UpdatedQuiet, quiet
<1> QED
  BY <1>8, <1>9, <1>10

LEMMA Broken ==
  ASSUME NEW g \in GateType, NEW h, h = BreakSegment(g)
  PROVE  /\ h \in GateType /\ ~ h.primed /\ h.openId = NoSegment /\ h.segmentCount = g.segmentCount
  BY DEF GateType, BreakSegment, Flush, CloseSegment, IsOpen, NoSegment

LEMMA Flushed ==
  ASSUME NEW g \in GateType, NEW h, h = Flush(g)
  PROVE  /\ h \in GateType /\ h.primed = g.primed /\ h.openId = NoSegment
         /\ h.segmentCount = g.segmentCount
  BY DEF GateType, Flush, CloseSegment, IsOpen, NoSegment

LEMMA DeliverCases ==
  ASSUME GateTyped, NEW moving \in BOOLEAN, NEW discontinuity \in BOOLEAN,
         Deliver(moving, discontinuity)
  PROVE  (FrameMoved \/ FrameRested) /\ gate'.primed
<1> DEFINE ts     == Len(history) + 1
           before == IF discontinuity THEN BreakSegment(gate) ELSE gate
           after  == Update(before, ts, moving)
<1>1. /\ gate' = after
      /\ opened' = opened \cup OpenEvent(before, after)
      /\ closed' = closed \cup CloseEvent(gate, before) \cup CloseEvent(before, after)
  BY DEF Deliver
<1>2. /\ Grown /\ history'[Seen'].mark = discontinuity /\ ts \in Nat /\ ts = Seen'
      /\ Active(Seen)' <=> gate.primed /\ moving /\ ~ discontinuity
      /\ gate \in GateType
  BY DeliverGrows DEF GateTyped, Grown, Seen
<1>3. CASE discontinuity
  <2>1. /\ before \in GateType /\ ~ before.primed /\ before.openId = NoSegment
        /\ before.segmentCount = gate.segmentCount
    BY <1>2, <1>3, Broken
  <2> HIDE DEF before
  <2>2. after = [ OnQuiet(before) EXCEPT !.primed = TRUE ]
    BY <2>1 DEF Update, IsActive
  <2> HIDE DEF after
  <2>3. /\ after \in GateType /\ after.primed /\ after.activeStreak = 0
        /\ after.segmentCount = gate.segmentCount /\ after.openId = NoSegment
    <3>1. UpdatedQuiet(before, after)
      BY <2>1, <2>2, QuietUpdate
    <3> QED
      BY <2>1, <3>1 DEF UpdatedQuiet, IsOpen
  <2>4. OpenEvent(before, after) = {} /\ CloseEvent(before, after) = {}
    BY <2>1, <2>3 DEF OpenEvent, CloseEvent, Opens, Closes, IsOpen
  <2>5. CloseEvent(gate, before) =
          IF IsOpen(gate) THEN {Event(gate.openId, gate.lastActive)} ELSE {}
    BY <2>1 DEF CloseEvent, Closes, IsOpen
  <2>6. ClosesNow(TRUE) <=> IsOpen(gate)
    BY DEF ClosesNow
  <2>7. opened' = opened /\ closed' = closed \cup CloseEvent(gate, before)
    BY <1>1, <2>4
  <2>8. ~ IsOpen(gate) => gate.openId = NoSegment
    BY DEF IsOpen
  <2> QED
    BY <1>1, <1>2, <1>3, <2>3, <2>5, <2>6, <2>7, <2>8 DEF FrameRested
<1>4. CASE ~ discontinuity /\ gate.primed /\ moving
  <2>1. before = gate /\ CloseEvent(gate, before) = {}
    BY <1>4 DEF CloseEvent, Closes
  <2>2. after = [ OnActive(gate, ts) EXCEPT !.primed = TRUE ]
    BY <1>4, <2>1 DEF Update, IsActive
  <2> HIDE DEF ts, before, after
  <2>3. /\ after \in GateType /\ after.primed
        /\ after.activeStreak = gate.activeStreak + 1 /\ after.quietStreak = 0
        /\ after.lastActive = ts
        /\ after.backdate = IF gate.activeStreak = 0 THEN ts ELSE gate.backdate
        /\ IF OpensNow
           THEN after.segmentCount = gate.segmentCount + 1 /\ after.openId = gate.segmentCount + 1
           ELSE after.segmentCount = gate.segmentCount /\ after.openId = gate.openId
    <3>1. UpdatedActive(gate, ts, after)
      <4>1. ts \in Nat
        BY <1>2 DEF ts
      <4> QED
        BY <1>2, <2>2, <4>1, ActiveUpdate
    <3> QED
      BY <3>1 DEF UpdatedActive, OpensNow
  <2>4. CloseEvent(before, after) = {}
    BY <1>2, <2>1, <2>3, GateFields DEF CloseEvent, Closes, IsOpen, NoSegment, OpensNow
  <2>5. OpenEvent(before, after) =
          IF OpensNow THEN {Event(after.openId, after.backdate)} ELSE {}
    BY <1>2, <2>1, <2>3, GateFields DEF OpenEvent, Opens, IsOpen, NoSegment, OpensNow
  <2> QED
    BY <1>1, <1>2, <1>4, <2>1, <2>3, <2>4, <2>5 DEF FrameMoved
<1>5. CASE ~ discontinuity /\ ~ (gate.primed /\ moving)
  <2>1. before = gate /\ CloseEvent(gate, before) = {}
    BY <1>5 DEF CloseEvent, Closes
  <2>2. after = [ OnQuiet(gate) EXCEPT !.primed = TRUE ]
    BY <1>5, <2>1 DEF Update, IsActive
  <2> HIDE DEF before, after
  <2>3. /\ after \in GateType /\ after.primed
        /\ after.activeStreak = 0 /\ after.lastActive = gate.lastActive
        /\ after.segmentCount = gate.segmentCount
        /\ IF ClosesNow(FALSE)
           THEN after.openId = NoSegment
           ELSE after.openId = gate.openId /\ (IsOpen(gate) => after.quietStreak = gate.quietStreak + 1)
    <3>1. UpdatedQuiet(gate, after)
      BY <1>2, <2>2, QuietUpdate
    <3> QED
      BY <3>1 DEF UpdatedQuiet, ClosesNow
  <2>4. CloseEvent(before, after) =
          IF ClosesNow(FALSE) THEN {Event(gate.openId, gate.lastActive)} ELSE {}
    BY <2>1, <2>3 DEF CloseEvent, Closes, IsOpen, ClosesNow
  <2>5. OpenEvent(before, after) = {}
    BY <2>1, <2>3 DEF OpenEvent, Opens, IsOpen, ClosesNow
  <2> QED
    BY <1>1, <1>2, <1>5, <2>1, <2>3, <2>4, <2>5 DEF FrameRested
<1> QED
  BY <1>3, <1>4, <1>5

-----------------------------------------------------------------------------
(* How far the open segment and the last run reach.                        *)
LEMMA OpenReaches ==
  ASSUME Grown, NEW o \in Int, 1 <= o, NEW a \in Int, Spans(o, a),
         Seen - a < QuietFrames, \A k \in (o + 1) .. Seen : ~ history[k].mark,
         Active(Seen)', ~ history'[Seen'].mark
  PROVE  Connected(o, Seen)'
<1>1. a \in Int /\ o <= a /\ a <= Seen /\ Active(a) /\ Connected(o, a) /\ Seen' = Seen + 1 /\ Seen \in Int
  BY DEF Spans, Grown
<1>2. ASSUME NEW k \in (o + 1) .. Seen' PROVE ~ history'[k].mark
  <2>1. k = Seen' \/ (k \in 1 .. Seen /\ k \in (o + 1) .. Seen)
    BY <1>1
  <2> QED
    BY <2>1 DEF Grown
<1>3. ASSUME NEW k \in o .. (Seen' - QuietFrames + 1)
      PROVE  \E m \in k .. (k + QuietFrames - 1) : Active(m)'
  <2>1. k \in Int /\ o <= k /\ k + QuietFrames - 1 <= Seen'
    BY <1>1, Debounces
  <2>2. CASE k + QuietFrames - 1 <= a
    <3>1. PICK m \in k .. (k + QuietFrames - 1) : Active(m)
      BY <1>1, <2>1, <2>2, Debounces DEF Connected
    <3>2. m \in 1 .. Seen
      BY <1>1, <2>1, <2>2, Debounces
    <3> QED
      BY <3>1, <3>2 DEF Grown
  <2>3. CASE k <= a /\ a < k + QuietFrames - 1
    <3>1. a \in k .. (k + QuietFrames - 1) /\ a \in 1 .. Seen
      BY <1>1, <2>1, <2>3, Debounces
    <3> QED
      BY <1>1, <3>1 DEF Grown
  <2>4. CASE a < k
    <3>1. Seen' \in k .. (k + QuietFrames - 1)
      BY <1>1, <2>1, <2>4, Debounces
    <3> QED
      BY <3>1
  <2> QED
    BY <1>1, <2>1, <2>2, <2>3, <2>4, Debounces
<1> QED
  BY <1>2, <1>3 DEF Connected

LEMMA StreakConnects ==
  ASSUME NEW o \in Int, NEW j \in Int, \A i \in o .. j : Active(i)'
  PROVE  Connected(o, j)'
<1>1. \A k \in (o + 1) .. j : ~ history'[k].mark
  BY DEF Active
<1>2. \A k \in o .. (j - QuietFrames + 1) : k \in k .. (k + QuietFrames - 1) /\ Active(k)'
  BY Debounces
<1> QED
  BY <1>1, <1>2 DEF Connected

LEMMA ShorterAfter ==
  ASSUME NEW i \in Int, NEW j \in Int, NEW k \in Int, k <= j, Connected(i, j)'
  PROVE  Connected(i, k)'
  BY Debounces DEF Connected

(* The open segment's start, which is one run before the last.             *)
LEMMA OpenStart ==
  ASSUME GateInv, ~ flushed, NEW o \in opened
  PROVE  /\ o.ts \in Int /\ 1 <= o.ts /\ o.ts <= Seen /\ o.ts + OpenFrames - 1 <= Seen
         /\ RunStart(o.ts) /\ Seen \in Nat
<1>1. Seen \in Nat
  BY DEF GateInv, GateTyped, Seen
<1>2. o.ts \in Starts
  BY DEF GateInv, OpensFit
<1> QED
  BY <1>1, <1>2, StartsAreRuns

LEMMA OpenHasStart ==
  ASSUME GateInv, IsOpen(gate)
  PROVE  \E o \in opened : o.id = gate.openId
  BY GateFields DEF GateInv, GateTyped, IdsFit, IsOpen, NoSegment

(* A run cannot be completed unnoticed.                                    *)
LEMMA NoRunNow ==
  ASSUME GateInv, ~ flushed, FrameMoved, ~ IsOpen(gate), ~ OpensNow
  PROVE  ~ RunStart(LastRun)'
<1> SUFFICES ASSUME RunStart(LastRun)' PROVE FALSE
  OBVIOUS
<1> DEFINE s == gate.activeStreak
<1>1. Seen \in Nat /\ Seen' = Seen + 1 /\ s \in Nat /\ s + 1 < OpenFrames /\ s <= Seen
  BY Debounces, GateFields DEF GateInv, GateTyped, StreakFits, FrameMoved, Grown, OpensNow
<1>2. LastRun' = Seen + 1 - OpenFrames + 1 /\ LastRun' \in Int
  BY <1>1, Debounces DEF LastRun
<1>3. \A i \in LastRun' .. (LastRun' + OpenFrames - 1) : Active(i)'
  BY DEF RunStart
<1>4. LastRun' > 1
  BY <1>2, <1>3, Debounces DEF Active
<1>5. Seen - s \in LastRun' .. (LastRun' + OpenFrames - 1) /\ Seen - s \in 1 .. Seen /\ s < Seen
  BY <1>1, <1>2, <1>4, Debounces
<1>6. ~ Active(Seen - s)
  BY <1>5 DEF GateInv, StreakFits
<1> QED
  BY <1>3, <1>5, <1>6 DEF FrameMoved, Grown

LEMMA RunNow ==
  ASSUME GateInv, ~ flushed, FrameMoved, OpensNow
  PROVE  /\ LastRun' \in Int /\ LastRun' >= 1 /\ RunStart(LastRun)'
         /\ LastRun' = gate'.backdate /\ LastRun' <= Seen'
         /\ \A i \in LastRun' .. Seen' : Active(i)'
<1> DEFINE s == gate.activeStreak
<1>1. Seen \in Nat /\ Seen' = Seen + 1 /\ s \in Nat /\ s + 1 = OpenFrames /\ s <= Seen
  BY Debounces, GateFields DEF GateInv, GateTyped, StreakFits, FrameMoved, Grown, OpensNow
<1>2. LastRun' = Seen - s + 1 /\ LastRun' + OpenFrames - 1 = Seen + 1
  BY <1>1, Debounces DEF LastRun
<1>3. ASSUME NEW i \in LastRun' .. Seen' PROVE Active(i)'
  <2>1. i = Seen' \/ (i \in (Seen - s + 1) .. Seen /\ i \in 1 .. Seen)
    BY <1>1, <1>2
  <2> QED
    BY <2>1 DEF GateInv, StreakFits, FrameMoved, Grown
<1>4. LastRun' > 1 => ~ Active(LastRun - 1)'
  <2>1. LastRun' > 1 => s < Seen /\ Seen - s \in 1 .. Seen /\ LastRun' - 1 = Seen - s
    BY <1>1, <1>2
  <2>2. s < Seen => ~ Active(Seen - s)
    BY DEF GateInv, StreakFits
  <2> QED
    BY <2>1, <2>2 DEF FrameMoved, Grown
<1>5. LastRun' = gate'.backdate
  BY <1>1, <1>2 DEF GateInv, StreakFits, FrameMoved
<1>6. RunStart(LastRun)'
  <2>1. LastRun' + OpenFrames - 1 <= Len(history)'
    BY <1>1, <1>2 DEF Seen
  <2>2. \A i \in LastRun' .. (LastRun' + OpenFrames - 1) : Active(i)'
    BY <1>1, <1>2, <1>3
  <2> QED
    BY <1>4, <2>1, <2>2 DEF RunStart
<1> QED
  BY <1>1, <1>2, <1>3, <1>5, <1>6

-----------------------------------------------------------------------------
(* The segments of the stream and the events, frame by frame.              *)
LEMMA MovedStarts ==
  ASSUME GateInv, ~ flushed, FrameMoved
  PROVE  OpensFit'
<1>0. Grown /\ Seen \in Nat /\ Seen' = Seen + 1 /\ LastRun \in Int /\ LastRun' = LastRun + 1
      /\ LastRun = Seen - OpenFrames + 1
  BY Debounces DEF FrameMoved, Grown, LastRun
<1>1. CASE OpensNow
  <2>1. LastRun' \in Int /\ LastRun' >= 1 /\ RunStart(LastRun)' /\ LastRun' = gate'.backdate
        /\ \A i \in LastRun' .. Seen' : Active(i)'
    BY <1>1, RunNow
  <2>2. ASSUME NEW p \in 1 .. (LastRun' - 1), RunStart(p) PROVE ~ Connected(p, LastRun)'
    <3>1. p \in Int /\ 1 <= p /\ p <= Seen
      BY <1>0, Debounces
    <3>2. PICK b \in 1 .. Seen : Cut(p, b)
      BY <1>1, <2>2, <3>1 DEF GateInv, NothingReachesHere, OpensNow
    <3>3. ~ Active(b)' /\ b \in Int /\ b <= Seen'
      BY <1>0, <3>2 DEF Cut, Grown
    <3>4. b <= LastRun'
      BY <2>1, <3>3, <1>0
    <3> QED
      BY <1>0, <2>1, <3>1, <3>2, <3>3, <3>4, CutSeparates
  <2>3. Starts' = Starts \cup {LastRun'}
    BY <1>0, <2>1, <2>2, StartsGrow
  <2>4. opened' = opened \cup {Event(gate'.openId, gate'.backdate)}
    BY <1>1 DEF FrameMoved
  <2>5. { e.ts : e \in opened' } = { e.ts : e \in opened } \cup {gate'.backdate}
    <3>1. PICK e : e = Event(gate'.openId, gate'.backdate)
      OBVIOUS
    <3>2. e.ts = gate'.backdate
      BY <3>1 DEF Event
    <3> QED
      BY <2>4, <3>1, <3>2
  <2> QED
    BY <2>1, <2>3, <2>5 DEF GateInv, OpensFit
<1>2. CASE ~ OpensNow
  <2>1. RunStart(LastRun)' => \E p \in 1 .. (LastRun' - 1) : RunStart(p) /\ Connected(p, LastRun)'
    <3>1. CASE ~ IsOpen(gate)
      BY <1>2, <3>1, NoRunNow
    <3>2. CASE IsOpen(gate)
      <4>1. PICK o \in opened : o.id = gate.openId
        BY <3>2, OpenHasStart
      <4>2. o.ts \in Int /\ 1 <= o.ts /\ o.ts + OpenFrames - 1 <= Seen /\ RunStart(o.ts)
        BY OpenStart
      <4>3. /\ Spans(o.ts, gate.lastActive) /\ gate.lastActive \in Int
            /\ Seen - gate.lastActive < QuietFrames
            /\ \A k \in (o.ts + 1) .. Seen : ~ history[k].mark
        BY <3>2, <4>1, GateFields DEF GateInv, GateTyped, OpenFits
      <4>4. Connected(o.ts, Seen)'
        <5>1. Active(Seen)' /\ ~ history'[Seen'].mark
          BY DEF FrameMoved
        <5>2. PICK t \in Int, a \in Int : t = o.ts /\ a = gate.lastActive
          BY <4>2, <4>3
        <5> QED
          BY <1>0, <4>2, <4>3, <5>1, <5>2, OpenReaches
      <4>5. Connected(o.ts, LastRun)'
        BY <1>0, <4>2, <4>4, ShorterAfter, Debounces
      <4>6. o.ts \in 1 .. (LastRun' - 1)
        BY <1>0, <4>2, Debounces
      <4> QED
        BY <4>2, <4>5, <4>6
    <3> QED
      BY <3>1, <3>2
  <2>2. Starts' = Starts
    BY <1>0, <2>1, StartsKept
  <2> QED
    BY <1>2, <2>2 DEF GateInv, OpensFit, FrameMoved
<1> QED
  BY <1>1, <1>2

LEMMA RestedRuns ==
  ASSUME FrameRested, NEW o \in Int, RunStart(o)'
  PROVE  o + OpenFrames - 1 <= Seen /\ o <= Seen
<1>1. Seen \in Nat /\ Seen' = Seen + 1 /\ ~ Active(Seen)'
  BY DEF FrameRested, Grown
<1>2. o + OpenFrames - 1 <= Seen' /\ \A i \in o .. (o + OpenFrames - 1) : Active(i)'
  BY DEF RunStart, Seen
<1>3. o + OpenFrames - 1 # Seen'
  <2> SUFFICES ASSUME o + OpenFrames - 1 = Seen' PROVE FALSE
    OBVIOUS
  <2>1. Seen' \in o .. (o + OpenFrames - 1)
    BY <1>1, Debounces
  <2> QED
    BY <1>1, <1>2, <2>1
<1> QED
  BY <1>1, <1>2, <1>3, Debounces

LEMMA RestedStarts ==
  ASSUME GateInv, ~ flushed, FrameRested
  PROVE  OpensFit'
<1>1. Grown /\ LastRun' \in Int /\ ~ LastRun' + OpenFrames - 1 <= Seen
  BY Debounces DEF FrameRested, Grown, LastRun
<1>2. ~ RunStart(LastRun)'
  BY <1>1, RestedRuns
<1>3. Starts' = Starts
  BY <1>1, <1>2, StartsKept
<1> QED
  BY <1>3 DEF GateInv, OpensFit, FrameRested

LEMMA StartsOfOpened ==
  ASSUME GateInv, NEW o \in opened
  PROVE  o.ts \in Int /\ 1 <= o.ts
<1>1. Seen \in Nat /\ o.ts \in Starts
  BY DEF GateInv, GateTyped, OpensFit, Seen
<1> QED
  BY <1>1, StartsAreRuns

(* A closed segment stays as it is.                                        *)
LEMMA ClosedKept ==
  ASSUME GateInv, ~ flushed, Grown, NEW o \in opened, NEW c \in closed, o.id = c.id
  PROVE  Spans(o.ts, c.ts)' /\ \E b \in 1 .. Seen' : Ended(c.ts, b)'
<1>1. Spans(o.ts, c.ts) /\ \E b \in 1 .. Seen : Ended(c.ts, b)
  BY DEF GateInv, ClosesFit
<1>2. PICK b \in 1 .. Seen : Ended(c.ts, b)
  BY <1>1
<1>3. PICK t \in Int, a \in Int : t = o.ts /\ a = c.ts /\ 1 <= t
  BY StartsOfOpened DEF GateInv, GateTyped
<1>4. t <= a /\ Seen \in Nat /\ Seen' = Seen + 1
  BY <1>1, <1>3 DEF Spans, Grown
<1>5. ~ Connected(t, Seen)'
  BY <1>2, <1>3, <1>4, EndedEnds
<1>6. Spans(t, a)'
  BY <1>1, <1>3, <1>5, SpansKept
<1>7. Ended(a, b)' /\ b \in 1 .. Seen'
  BY <1>2, <1>3, <1>4, EndedKept
<1> QED
  BY <1>3, <1>6, <1>7

LEMMA MovedCloses ==
  ASSUME GateInv, ~ flushed, FrameMoved
  PROVE  ClosesFit'
<1>1. Grown /\ closed' = closed
  BY DEF FrameMoved
<1>2. ASSUME NEW o \in opened', NEW c \in closed', o.id = c.id
      PROVE  o \in opened
  <2>1. c.id \in 1 .. gate.segmentCount
    BY <1>1 DEF GateInv, GateTyped, IdsFit, IdsOf
  <2>2. CASE OpensNow
    <3>1. PICK e : e = Event(gate'.openId, gate'.backdate)
      OBVIOUS
    <3>2. opened' = opened \cup {e} /\ e.id = gate.segmentCount + 1
      BY <2>2, <3>1 DEF FrameMoved, Event
    <3>3. e.id # c.id
      BY <2>1, <3>2, GateFields DEF GateInv, GateTyped
    <3> QED
      BY <1>2, <3>2, <3>3
  <2>3. CASE ~ OpensNow
    BY <2>3 DEF FrameMoved
  <2> QED
    BY <2>2, <2>3
<1> QED
  BY <1>1, <1>2, ClosedKept DEF ClosesFit

LEMMA RestedCloses ==
  ASSUME GateInv, ~ flushed, FrameRested
  PROVE  ClosesFit'
<1> DEFINE mark == history'[Seen'].mark
<1>1. Grown /\ opened' = opened /\ ~ Active(Seen)' /\ Seen \in Nat /\ Seen' = Seen + 1
  BY DEF FrameRested, Grown
<1>2. CASE ClosesNow(mark)
  <2>1. PICK e : e = Event(gate.openId, gate.lastActive)
    OBVIOUS
  <2>2. closed' = closed \cup {e} /\ e.id = gate.openId /\ e.ts = gate.lastActive
    BY <1>2, <2>1 DEF FrameRested, Event
  <2>3. ASSUME NEW o \in opened, o.id = e.id
        PROVE  Spans(o.ts, e.ts)' /\ \E b \in 1 .. Seen' : Ended(e.ts, b)'
    <3>1. PICK t \in Int, a \in Int : t = o.ts /\ a = e.ts /\ 1 <= t
      BY <2>2, StartsOfOpened, GateFields DEF GateInv, GateTyped
    <3>2. /\ Spans(t, a) /\ \A c \in (a + 1) .. Seen : ~ Active(c)
          /\ gate.quietStreak = Seen - a
      BY <1>2, <2>2, <2>3, <3>1 DEF GateInv, OpenFits, ClosesNow
    <3>3. Spans(t, a)'
      BY <1>1, <3>1, <3>2, SpansKept
    <3>4. t <= a /\ a <= Seen
      BY <1>1, <3>2 DEF Spans
    <3>5. ASSUME NEW c \in (a + 1) .. Seen' PROVE ~ Active(c)'
      <4>1. c = Seen' \/ (c \in (a + 1) .. Seen /\ c \in 1 .. Seen)
        BY <1>1, <3>1, <3>4
      <4> QED
        BY <1>1, <3>2, <4>1 DEF Grown
    <3>6. mark \/ Seen' - a >= QuietFrames
      BY <1>1, <1>2, <3>2, Debounces DEF ClosesNow
    <3>7. Seen' \in (a + 1) .. Seen' /\ Seen' \in 1 .. Seen'
      BY <1>1, <3>1, <3>4
    <3>8. Ended(a, Seen)'
      BY <3>5, <3>6, <3>7 DEF Ended
    <3> QED
      BY <3>1, <3>3, <3>7, <3>8
  <2> QED
    BY <1>1, <2>2, <2>3, ClosedKept DEF ClosesFit
<1>3. CASE ~ ClosesNow(mark)
  <2>1. closed' = closed
    BY <1>3 DEF FrameRested
  <2> QED
    BY <1>1, <2>1, ClosedKept DEF ClosesFit
<1> QED
  BY <1>2, <1>3

LEMMA MovedOpen ==
  ASSUME GateInv, ~ flushed, FrameMoved
  PROVE  OpenFits'
<1>1. /\ Grown /\ Active(Seen)' /\ ~ history'[Seen'].mark /\ Seen \in Nat /\ Seen' = Seen + 1
      /\ gate'.lastActive = Seen' /\ gate'.quietStreak = 0
  BY DEF FrameMoved, Grown
<1> SUFFICES ASSUME IsOpen(gate)', NEW o \in opened', o.id = gate'.openId
             PROVE  /\ Spans(o.ts, Seen)'
                    /\ \A k \in (o.ts + 1) .. Seen' : ~ history'[k].mark
  BY <1>1, Debounces DEF OpenFits
<1>2. CASE OpensNow
  <2>1. LastRun' \in Int /\ LastRun' >= 1 /\ LastRun' = gate'.backdate /\ LastRun' <= Seen'
        /\ \A i \in LastRun' .. Seen' : Active(i)'
    BY <1>2, RunNow
  <2>2. PICK e : e = Event(gate'.openId, gate'.backdate)
    OBVIOUS
  <2>3. opened' = opened \cup {e} /\ e.ts = LastRun' /\ gate'.openId = gate.segmentCount + 1
    BY <1>2, <2>1, <2>2 DEF FrameMoved, Event
  <2>4. o \notin opened
    BY <2>3, GateFields DEF GateInv, GateTyped, IdsFit
  <2>5. PICK t \in Int : t = LastRun'
    BY <2>1
  <2>6. o.ts = t /\ 1 <= t /\ t <= Seen' /\ \A i \in t .. Seen' : Active(i)'
    BY <2>1, <2>3, <2>4, <2>5
  <2>7. Connected(t, Seen)'
    BY <1>1, <2>6, StreakConnects
  <2>8. Spans(t, Seen)'
    BY <1>1, <2>6, <2>7 DEF Spans
  <2>9. \A k \in (t + 1) .. Seen' : ~ history'[k].mark
    BY <2>6 DEF Active
  <2> QED
    BY <2>6, <2>8, <2>9
<1>3. CASE ~ OpensNow
  <2>1. opened' = opened /\ gate'.openId = gate.openId /\ IsOpen(gate)
    BY <1>3 DEF FrameMoved, IsOpen
  <2>2. PICK t \in Int, a \in Int : t = o.ts /\ a = gate.lastActive /\ 1 <= t /\ t <= Seen
    BY <2>1, OpenStart, GateFields DEF GateInv, GateTyped
  <2>3. /\ Spans(t, a) /\ Seen - a < QuietFrames
        /\ \A k \in (t + 1) .. Seen : ~ history[k].mark
    BY <2>1, <2>2 DEF GateInv, OpenFits
  <2>4. Connected(t, Seen)'
    BY <1>1, <2>2, <2>3, OpenReaches
  <2>5. Spans(t, Seen)'
    BY <1>1, <2>2, <2>4 DEF Spans
  <2>6. ASSUME NEW k \in (t + 1) .. Seen' PROVE ~ history'[k].mark
    <3>1. k = Seen' \/ (k \in (t + 1) .. Seen /\ k \in 1 .. Seen)
      BY <1>1, <2>2
    <3> QED
      BY <1>1, <2>3, <3>1 DEF Grown
  <2> QED
    BY <2>2, <2>5, <2>6
<1> QED
  BY <1>2, <1>3

LEMMA RestedOpen ==
  ASSUME GateInv, ~ flushed, FrameRested
  PROVE  OpenFits'
<1> DEFINE mark == history'[Seen'].mark
<1>1. Grown /\ opened' = opened /\ ~ Active(Seen)' /\ Seen \in Nat /\ Seen' = Seen + 1
  BY DEF FrameRested, Grown
<1> SUFFICES ASSUME IsOpen(gate)', NEW o \in opened, o.id = gate'.openId
             PROVE  /\ Spans(o.ts, gate.lastActive)'
                    /\ \A c \in (gate'.lastActive + 1) .. Seen' : ~ Active(c)'
                    /\ \A k \in (o.ts + 1) .. Seen' : ~ history'[k].mark
                    /\ gate'.quietStreak = Seen' - gate'.lastActive
                    /\ gate'.quietStreak < QuietFrames
  BY <1>1 DEF OpenFits
<1>2. ~ ClosesNow(mark) /\ gate'.openId = gate.openId /\ IsOpen(gate)
  BY DEF FrameRested, IsOpen, NoSegment
<1>3. gate'.quietStreak = gate.quietStreak + 1 /\ gate'.lastActive = gate.lastActive /\ ~ mark
  BY <1>2 DEF FrameRested
<1>4. PICK t \in Int, a \in Int : t = o.ts /\ a = gate.lastActive /\ 1 <= t /\ t <= Seen
  BY OpenStart, GateFields DEF GateInv, GateTyped
<1>5. /\ Spans(t, a) /\ \A c \in (a + 1) .. Seen : ~ Active(c)
      /\ \A k \in (t + 1) .. Seen : ~ history[k].mark
      /\ gate.quietStreak = Seen - a
  BY <1>2, <1>4 DEF GateInv, OpenFits
<1>6. Spans(t, a)' /\ t <= a
  BY <1>1, <1>4, <1>5, SpansKept DEF Spans
<1>7. ASSUME NEW c \in (a + 1) .. Seen' PROVE ~ Active(c)'
  <2>1. c = Seen' \/ (c \in (a + 1) .. Seen /\ c \in 1 .. Seen)
    BY <1>1, <1>4, <1>6
  <2> QED
    BY <1>1, <1>5, <2>1 DEF Grown
<1>8. ASSUME NEW k \in (t + 1) .. Seen' PROVE ~ history'[k].mark
  <2>1. k = Seen' \/ (k \in (t + 1) .. Seen /\ k \in 1 .. Seen)
    BY <1>1, <1>4
  <2> QED
    BY <1>1, <1>3, <1>5, <2>1 DEF Grown
<1>9. gate.quietStreak + 1 < QuietFrames
  BY <1>1, <1>2, <1>4, <1>5, Debounces DEF ClosesNow
<1>10. gate'.quietStreak = Seen' - a /\ gate'.quietStreak < QuietFrames
  BY <1>1, <1>3, <1>4, <1>5, <1>9
<1> QED
  BY <1>3, <1>4, <1>6, <1>7, <1>8, <1>10

LEMMA StreakKept ==
  ASSUME GateInv, ~ flushed, FrameMoved \/ FrameRested
  PROVE  StreakFits'
<1> DEFINE s == gate.activeStreak
<1>1. /\ Seen \in Nat /\ Seen' = Seen + 1 /\ s \in Nat /\ s <= Seen
      /\ \A i \in 1 .. Seen : Active(i)' <=> Active(i)
      /\ \A i \in (Seen - s + 1) .. Seen : Active(i)
      /\ s < Seen => ~ Active(Seen - s)
      /\ s > 0 => gate.backdate = Seen - s + 1
      /\ ~ IsOpen(gate) => s < OpenFrames
  BY GateFields DEF GateInv, GateTyped, StreakFits, FrameMoved, FrameRested, Grown
<1>2. CASE FrameMoved
  <2>1. gate'.activeStreak = s + 1 /\ Active(Seen)'
    BY <1>2 DEF FrameMoved
  <2>2. ASSUME NEW i \in (Seen' - (s + 1) + 1) .. Seen' PROVE Active(i)'
    <3>1. i = Seen' \/ (i \in (Seen - s + 1) .. Seen /\ i \in 1 .. Seen)
      BY <1>1
    <3> QED
      BY <1>1, <2>1, <3>1
  <2>3. s + 1 < Seen' => ~ Active(Seen - gate.activeStreak)'
    <3> SUFFICES ASSUME s + 1 < Seen' PROVE ~ Active(Seen - gate.activeStreak)'
      OBVIOUS
    <3>1. Seen' - (s + 1) = Seen - s /\ Seen - s \in 1 .. Seen /\ s < Seen
      BY <1>1
    <3>2. Seen' - gate'.activeStreak = Seen - s
      BY <2>1, <3>1
    <3> QED
      BY <1>1, <3>1, <3>2
  <2>4. gate'.backdate = Seen' - (s + 1) + 1
    BY <1>1, <1>2 DEF FrameMoved
  <2>5. ~ IsOpen(gate)' => s + 1 < OpenFrames
    BY <1>1, <1>2, Debounces, GateFields
      DEF FrameMoved, OpensNow, IsOpen, NoSegment, GateInv, GateTyped
  <2> QED
    BY <1>1, <2>1, <2>2, <2>3, <2>4, <2>5 DEF StreakFits
<1>3. CASE FrameRested
  <2>1. gate'.activeStreak = 0 /\ ~ Active(Seen)'
    BY <1>3 DEF FrameRested
  <2> QED
    BY <1>1, <2>1, Debounces DEF StreakFits
<1> QED
  BY <1>2, <1>3

LEMMA OldCut ==
  ASSUME GateInv, ~ flushed, Grown, ~ IsOpen(gate), NEW p \in Int, 1 <= p,
         RunStart(p)', p + OpenFrames - 1 <= Seen
  PROVE  \E b \in 1 .. Seen' : Cut(p, b)'
<1>1. RunStart(p) /\ p <= Seen /\ Seen \in Nat /\ Seen' = Seen + 1
  BY RunStartKept, Debounces DEF Grown
<1>2. PICK b \in 1 .. Seen : Cut(p, b)
  BY <1>1 DEF GateInv, NothingReachesHere
<1>3. Cut(p, b)'
  BY <1>2, CutKept
<1> QED
  BY <1>1, <1>2, <1>3

LEMMA MovedReach ==
  ASSUME GateInv, ~ flushed, FrameMoved
  PROVE  NothingReachesHere'
<1> SUFFICES ASSUME ~ IsOpen(gate)', NEW p \in 1 .. Seen', RunStart(p)'
             PROVE  \E b \in 1 .. Seen' : Cut(p, b)'
  BY DEF NothingReachesHere
<1>1. Grown /\ Seen \in Nat /\ Seen' = Seen + 1
  BY DEF FrameMoved, Grown
<1>2. ~ IsOpen(gate) /\ ~ OpensNow
  BY GateFields DEF FrameMoved, OpensNow, IsOpen, NoSegment, GateInv, GateTyped
<1>3. p + OpenFrames - 1 <= Seen'
  BY DEF RunStart, Seen
<1>4. CASE p + OpenFrames - 1 = Seen'
  <2>1. p = LastRun'
    BY <1>1, <1>4, Debounces DEF LastRun
  <2> QED
    BY <1>2, <2>1, NoRunNow
<1>5. CASE p + OpenFrames - 1 <= Seen
  BY <1>1, <1>2, <1>5, OldCut
<1> QED
  BY <1>1, <1>3, <1>4, <1>5, Debounces

LEMMA RestedReach ==
  ASSUME GateInv, ~ flushed, FrameRested
  PROVE  NothingReachesHere'
<1> SUFFICES ASSUME ~ IsOpen(gate)', NEW p \in 1 .. Seen', RunStart(p)'
             PROVE  \E b \in 1 .. Seen' : Cut(p, b)'
  BY DEF NothingReachesHere
<1> DEFINE mark == history'[Seen'].mark
<1>1. Grown /\ Seen \in Nat /\ Seen' = Seen + 1 /\ ~ Active(Seen)'
  BY DEF FrameRested, Grown
<1>2. p + OpenFrames - 1 <= Seen /\ p <= Seen /\ p \in Int /\ 1 <= p
  BY <1>1, RestedRuns
<1>3. CASE ~ IsOpen(gate)
  BY <1>1, <1>2, <1>3, OldCut
<1>4. CASE IsOpen(gate)
  <2>1. ClosesNow(mark)
    BY <1>4 DEF FrameRested, IsOpen
  <2>2. Seen' \in (p + 1) .. Seen' /\ Seen' \in 1 .. Seen'
    BY <1>1, <1>2
  <2>3. CASE mark
    <3>1. Cut(p, Seen)'
      BY <1>1, <2>2, <2>3 DEF Cut
    <3> QED
      BY <2>2, <3>1
  <2>4. CASE ~ mark
    <3>1. PICK o \in opened : o.id = gate.openId
      BY <1>4, OpenHasStart
    <3>2. PICK a \in Int : a = gate.lastActive
      BY GateFields DEF GateInv, GateTyped
    <3>3. /\ \A c \in (a + 1) .. Seen : ~ Active(c)
          /\ gate.quietStreak = Seen - a /\ gate.quietStreak < QuietFrames
          /\ a <= Seen
      BY <1>1, <1>4, <3>1, <3>2 DEF GateInv, OpenFits, Spans
    <3>4. Seen' - QuietFrames + 1 = a + 1
      BY <1>1, <2>1, <2>4, <3>2, <3>3, Debounces DEF ClosesNow
    <3>5. Active(p)
      <4>1. p \in p .. (p + OpenFrames - 1)
        BY <1>2, Debounces
      <4>2. Active(p)'
        BY <4>1 DEF RunStart
      <4> QED
        BY <1>1, <1>2, <4>2 DEF Grown
    <3>6. p <= a
      BY <1>1, <1>2, <3>2, <3>3, <3>5
    <3>7. ASSUME NEW c \in (a + 1) .. Seen' PROVE ~ Active(c)'
      <4>1. c = Seen' \/ (c \in (a + 1) .. Seen /\ c \in 1 .. Seen)
        BY <1>1, <1>2, <3>2, <3>6
      <4> QED
        BY <1>1, <3>3, <4>1 DEF Grown
    <3>8. Seen' - QuietFrames + 1 >= p
      BY <1>2, <3>2, <3>4, <3>6
    <3>9. \A c \in (Seen' - QuietFrames + 1) .. Seen' : ~ Active(c)'
      BY <3>4, <3>7
    <3>10. Cut(p, Seen)'
      BY <1>1, <2>2, <3>8, <3>9 DEF Cut
    <3> QED
      BY <2>2, <3>10
  <2> QED
    BY <2>3, <2>4
<1> QED
  BY <1>3, <1>4

(* The ids: an OPEN gives the next, a CLOSE ends the open one.             *)
LEMMA IdsMoved ==
  ASSUME GateInv, FrameMoved
  PROVE  IdsFit' /\ opened' \subseteq [ id : Nat, ts : Nat ] /\ closed' \subseteq [ id : Nat, ts : Nat ]
<1>1. gate.segmentCount \in Nat /\ gate.openId \in Nat /\ gate' \in GateType /\ closed' = closed
  BY GateFields DEF GateInv, GateTyped, FrameMoved
<1>2. CASE OpensNow
  <2>1. PICK e : e = Event(gate'.openId, gate'.backdate)
    OBVIOUS
  <2>2. /\ gate'.segmentCount = gate.segmentCount + 1 /\ gate'.openId = gate.segmentCount + 1
        /\ opened' = opened \cup {e} /\ e.id = gate.segmentCount + 1
    BY <1>2, <2>1 DEF FrameMoved, Event
  <2>3. e \in [ id : Nat, ts : Nat ]
    BY <1>1, <2>1, <2>2, GateFields DEF Event
  <2>4. gate.openId = NoSegment
    BY <1>2 DEF OpensNow, IsOpen
  <2>5. \A o \in opened : o.id \in 1 .. gate.segmentCount
    BY DEF GateInv, IdsFit
  <2>6. \A i \in Nat : i \in IdsOf(closed) <=> i \in 1 .. gate.segmentCount
    BY <2>4 DEF GateInv, IdsFit, NoSegment
  <2>7. gate'.openId \in {NoSegment, gate'.segmentCount}
    BY <2>2
  <2>8. \A o \in opened' : o.id \in 1 .. gate'.segmentCount
    BY <1>1, <2>2, <2>5
  <2>9. \A i \in 1 .. gate'.segmentCount : \E o \in opened' : o.id = i
    <3>1. \A i \in 1 .. gate.segmentCount : \E o \in opened : o.id = i
      BY DEF GateInv, IdsFit
    <3> QED
      BY <1>1, <2>2, <3>1
  <2>10. \A o, f \in opened' : o.id = f.id => o = f
    <3>1. \A o \in opened : o.id # e.id
      BY <1>1, <2>2, <2>5
    <3> QED
      BY <2>2, <3>1 DEF GateInv, IdsFit
  <2>11. \A i \in Nat : i \in IdsOf(closed)' <=> i \in 1 .. gate'.segmentCount /\ i # gate'.openId
    <3>1. IdsOf(closed)' = IdsOf(closed)
      BY <1>1 DEF IdsOf
    <3> QED
      BY <1>1, <2>2, <2>6, <3>1
  <2> QED
    BY <1>1, <2>2, <2>3, <2>7, <2>8, <2>9, <2>10, <2>11 DEF IdsFit, GateInv, GateTyped
<1>3. CASE ~ OpensNow
  BY <1>1, <1>3 DEF FrameMoved, GateInv, GateTyped, IdsFit, IdsOf
<1> QED
  BY <1>2, <1>3

(* The gate has closed its open segment, if it had one.                    *)
Shut ==
  /\ gate'.openId = NoSegment /\ gate'.segmentCount = gate.segmentCount /\ opened' = opened
  /\ closed' = closed \cup IF IsOpen(gate) THEN {Event(gate.openId, gate.lastActive)} ELSE {}

LEMMA IdsShut ==
  ASSUME GateTyped, IdsFit, Shut
  PROVE  IdsFit' /\ closed' \subseteq [ id : Nat, ts : Nat ]
<1>1. /\ gate.segmentCount \in Nat /\ gate.openId \in Nat /\ gate.lastActive \in Nat
      /\ gate'.openId = NoSegment /\ gate'.segmentCount = gate.segmentCount /\ opened' = opened
  BY GateFields DEF GateTyped, Shut
<1>2. CASE IsOpen(gate)
  <2>1. PICK e : e = Event(gate.openId, gate.lastActive)
    OBVIOUS
  <2>2. closed' = closed \cup {e} /\ e.id = gate.openId /\ e \in [ id : Nat, ts : Nat ]
    BY <1>1, <1>2, <2>1 DEF Shut, Event
  <2>3. IdsOf(closed)' = IdsOf(closed) \cup {gate.openId}
    BY <2>2 DEF IdsOf
  <2>4. gate.openId = gate.segmentCount /\ gate.segmentCount \in 1 .. gate.segmentCount
    BY <1>1, <1>2 DEF IsOpen, NoSegment, IdsFit
  <2>5. gate.openId \notin IdsOf(closed)
    BY <1>1, <2>4 DEF IdsFit
  <2>6. \A i \in Nat : i \in IdsOf(closed)' <=> i \in 1 .. gate'.segmentCount /\ i # gate'.openId
    BY <1>1, <2>3, <2>4 DEF IdsFit, NoSegment
  <2>7. \A c \in closed : c.id # e.id
    BY <2>2, <2>5 DEF IdsOf
  <2>8. \A c, d \in closed' : c.id = d.id => c = d
    BY <2>2, <2>7 DEF IdsFit
  <2> QED
    BY <1>1, <2>2, <2>6, <2>8 DEF IdsFit, GateTyped
<1>3. CASE ~ IsOpen(gate)
  <2>1. closed' = closed /\ gate.openId = gate'.openId
    BY <1>1, <1>3 DEF Shut, IsOpen
  <2> QED
    BY <1>1, <2>1 DEF IdsFit, IdsOf, GateTyped
<1> QED
  BY <1>2, <1>3

LEMMA IdsRested ==
  ASSUME GateInv, FrameRested
  PROVE  IdsFit' /\ closed' \subseteq [ id : Nat, ts : Nat ]
<1> DEFINE mark == history'[Seen'].mark
<1>1. CASE ClosesNow(mark)
  BY <1>1, IdsShut DEF FrameRested, GateInv, Shut, ClosesNow
<1>2. CASE ~ ClosesNow(mark)
  BY <1>2 DEF FrameRested, GateInv, GateTyped, IdsFit, IdsOf
<1> QED
  BY <1>1, <1>2

-----------------------------------------------------------------------------
LEMMA InitGateInv == GateInit => GateInv
<1> SUFFICES ASSUME GateInit PROVE GateInv
  OBVIOUS
<1>1. /\ gate \in GateType /\ gate.openId = 0 /\ gate.segmentCount = 0 /\ gate.activeStreak = 0
      /\ gate.primed = FALSE
  BY DEF GateInit, NewGate, NoSegment, GateType
<1>2. history = <<>> /\ opened = {} /\ closed = {} /\ flushed = FALSE /\ Seen = 0
  BY DEF GateInit, Seen
<1>3. GateTyped
  <2>1. history \in Seq(FrameSeen)
    BY <1>2
  <2>2. opened \subseteq [ id : Nat, ts : Nat ] /\ closed \subseteq [ id : Nat, ts : Nat ]
    BY <1>2
  <2>3. gate.primed <=> history # <<>>
    BY <1>1, <1>2
  <2>4. flushed \in BOOLEAN
    BY <1>2
  <2> QED
    BY <1>1, <2>1, <2>2, <2>3, <2>4 DEF GateTyped
<1>4. IdsFit
  BY <1>1, <1>2 DEF IdsFit, NoSegment, IdsOf
<1>5. OpensFit /\ ClosesFit
  BY <1>2 DEF OpensFit, ClosesFit, Starts, Seen
<1>6. OpenFits /\ StreakFits /\ NothingReachesHere
  BY <1>1, <1>2, Debounces DEF OpenFits, StreakFits, NothingReachesHere, IsOpen, NoSegment
<1> QED
  BY <1>1, <1>2, <1>3, <1>4, <1>5, <1>6 DEF GateInv

LEMMA DeliverKeeps ==
  ASSUME GateInv, NEW moving \in BOOLEAN, NEW discontinuity \in BOOLEAN,
         Deliver(moving, discontinuity)
  PROVE  GateInv'
<1>1. ~ flushed /\ flushed' = flushed
  BY DEF Deliver
<1>2. (FrameMoved \/ FrameRested) /\ gate'.primed
  BY DeliverCases DEF GateInv
<1>3. history' \in Seq(FrameSeen) /\ history' # <<>>
  BY DeliverGrows DEF GateInv
<1>4. CASE FrameMoved
  <2>1. gate' \in GateType
    BY <1>4 DEF FrameMoved
  <2>2. GateTyped' /\ IdsFit'
    BY <1>1, <1>2, <1>3, <1>4, <2>1, IdsMoved DEF GateTyped, GateInv
  <2> QED
    BY <1>1, <1>4, <2>2, MovedStarts, MovedCloses, MovedOpen, StreakKept, MovedReach DEF GateInv
<1>5. CASE FrameRested
  <2>1. gate' \in GateType /\ opened' = opened
    BY <1>5 DEF FrameRested
  <2>2. GateTyped' /\ IdsFit'
    BY <1>1, <1>2, <1>3, <1>5, <2>1, IdsRested DEF GateTyped, GateInv
  <2> QED
    BY <1>1, <1>5, <2>2, RestedStarts, RestedCloses, RestedOpen, StreakKept, RestedReach DEF GateInv
<1> QED
  BY <1>2, <1>4, <1>5

LEMMA EndOfStreamKeeps ==
  ASSUME GateInv, EndOfStream
  PROVE  GateInv'
<1>1. ~ flushed /\ flushed' = TRUE /\ history' = history /\ opened' = opened
      /\ gate' = Flush(gate) /\ closed' = closed \cup CloseEvent(gate, Flush(gate))
  BY DEF EndOfStream
<1>2. /\ gate' \in GateType /\ gate'.primed = gate.primed /\ gate'.openId = NoSegment
      /\ gate'.segmentCount = gate.segmentCount
  BY <1>1, Flushed DEF GateInv, GateTyped
<1>3. CloseEvent(gate, gate') =
        IF IsOpen(gate) THEN {Event(gate.openId, gate.lastActive)} ELSE {}
  BY <1>2 DEF CloseEvent, Closes, IsOpen
<1>4. Shut
  BY <1>1, <1>2, <1>3 DEF Shut
<1>5. IdsFit' /\ GateTyped'
  BY <1>1, <1>2, <1>4, IdsShut DEF GateInv, GateTyped
<1>6. OpensFit' /\ ~ IsOpen(gate)'
  BY <1>1, <1>2 DEF GateInv, OpensFit, Starts, RunStart, Connected, Active, IsOpen
<1>7. ClosesFit'
  <2>1. ASSUME NEW o \in opened, NEW c \in closed', o.id = c.id PROVE Spans(o.ts, c.ts)'
    <3>1. Spans(o.ts, c.ts)
      <4>1. CASE c \in closed
        BY <2>1, <4>1 DEF GateInv, ClosesFit
      <4>2. CASE c \notin closed
        <5>1. IsOpen(gate) /\ c = Event(gate.openId, gate.lastActive)
          BY <1>4, <4>2 DEF Shut
        <5>2. c.id = gate.openId /\ c.ts = gate.lastActive
          BY <5>1 DEF Event
        <5> QED
          BY <1>1, <2>1, <5>1, <5>2 DEF GateInv, OpenFits
      <4> QED
        BY <4>1, <4>2
    <3> QED
      BY <1>1, <3>1 DEF Spans, Connected, Active, Seen
  <2> QED
    BY <1>1, <2>1 DEF ClosesFit
<1> QED
  BY <1>1, <1>5, <1>6, <1>7 DEF GateInv

LEMMA StepGateInv == GateInv /\ [GateNext]_gateVars => GateInv'
<1> SUFFICES ASSUME GateInv, [GateNext]_gateVars PROVE GateInv'
  OBVIOUS
<1>1. CASE UNCHANGED gateVars
  <2>1. UNCHANGED <<gate, history, opened, closed, flushed>>
    BY <1>1 DEF gateVars
  <2>2. GateTyped' /\ IdsFit' /\ OpensFit'
    BY <2>1 DEF GateInv, GateTyped, IdsFit, IdsOf, OpensFit, Starts, RunStart, Connected, Active
  <2>3. ClosesFit'
    BY <2>1 DEF GateInv, ClosesFit, Spans, Ended, Connected, Active, Seen
  <2>4. ~ flushed => OpenFits' /\ StreakFits'
    BY <2>1 DEF GateInv, OpenFits, StreakFits, Spans, Connected, Active, Seen, IsOpen
  <2>5. ~ flushed => NothingReachesHere'
    BY <2>1 DEF GateInv, NothingReachesHere, RunStart, Cut, Active, Seen, IsOpen
  <2>6. flushed' => ~ IsOpen(gate)'
    BY <2>1 DEF GateInv, IsOpen
  <2> QED
    BY <2>1, <2>2, <2>3, <2>4, <2>5, <2>6 DEF GateInv
<1> QED
  BY <1>1, DeliverKeeps, EndOfStreamKeeps DEF GateNext

(* The gate with its counters finds the segments that the definition over  *)
(* the whole stream names: for any debounce and any stream, however long.  *)
LEMMA ReportedIsReference ==
  ASSUME GateInv
  PROVE  SegmentsMatchReference
<1>1. Seen \in Nat /\ Seen = Len(history)
  BY DEF GateInv, GateTyped, Seen
<1> DEFINE LastOf(o) == Max({ c \in o .. Seen : Active(c) /\ Connected(o, c) })
<1>2. ASSUME NEW o \in opened, NEW a, Spans(o.ts, a) PROVE LastOf(o.ts) = a
  BY <1>1, <1>2, StartsOfOpened, SpansIsMax
<1> HIDE DEF LastOf
<1>3. ASSUME NEW o \in opened
      PROVE  \/ \E c \in closed : c.id = o.id /\ c.ts = LastOf(o.ts)
             \/ o.id \notin IdsOf(closed) /\ gate.lastActive = LastOf(o.ts)
  <2>1. CASE o.id \in IdsOf(closed)
    <3>1. PICK c \in closed : c.id = o.id
      BY <2>1 DEF IdsOf
    <3>2. Spans(o.ts, c.ts)
      BY <3>1 DEF GateInv, ClosesFit
    <3> QED
      BY <1>2, <3>1, <3>2
  <2>2. CASE o.id \notin IdsOf(closed)
    <3>1. o.id = gate.openId /\ IsOpen(gate)
      BY <2>2, GateFields DEF GateInv, GateTyped, IdsFit, IsOpen, NoSegment
    <3>2. Spans(o.ts, gate.lastActive)
      BY <3>1 DEF GateInv, OpenFits
    <3> QED
      BY <1>2, <2>2, <3>2
  <2> QED
    BY <2>1, <2>2
<1>4. ASSUME NEW o \in opened, NEW c \in closed, c.id = o.id PROVE c.ts = LastOf(o.ts)
  BY <1>2, <1>4 DEF GateInv, ClosesFit
<1>5. ASSUME NEW o \in opened, o.id \notin IdsOf(closed) PROVE gate.lastActive = LastOf(o.ts)
  BY <1>3, <1>5 DEF IdsOf
<1>6. Reported = { <<o.ts, LastOf(o.ts)>> : o \in opened }
  BY <1>3, <1>4, <1>5 DEF Reported
<1>7. Reference = { <<o, LastOf(o)>> : o \in Starts }
  BY <1>1 DEF Reference, LastOf
<1>8. Starts = { o.ts : o \in opened }
  BY DEF GateInv, OpensFit
<1>9. Reported = Reference
  BY <1>6, <1>7, <1>8
<1>10. flushed => IdsOf(closed) = IdsOf(opened)
  BY GateFields DEF GateInv, GateTyped, IdsFit, IdsOf, IsOpen, NoSegment
<1> QED
  BY <1>9, <1>10 DEF SegmentsMatchReference

THEOREM SegmentsAreExact == GateSpec => []SegmentsMatchReference
  BY InitGateInv, StepGateInv, ReportedIsReference, PTL DEF GateSpec
=============================================================================
