----------------------------- MODULE PipelineProofs -----------------------------
(***************************************************************************)
(* Theorems about the pipeline, for every value of the constants.          *)
(*                                                                         *)
(* Part 1: types, the account of every segment, and that Pipeline          *)
(* implements SegmentLedger.  The invariant behind them is that the gate   *)
(* and the tracker never disagree about which segment is open.             *)
(*                                                                         *)
(* Part 2: no event spans a discontinuity, each burst holds the frames it  *)
(* should, a miss is emitted when it is due, and passes keep the dedup     *)
(* window.  The invariant behind them orders the times of everything the   *)
(* gate and the tracker hold against each other and against the clock.     *)
(***************************************************************************)
EXTENDS Pipeline, TrackerProofs

-----------------------------------------------------------------------------
(* Part 1.  Types, the account of segments, the ledger.                    *)

-----------------------------------------------------------------------------
(* The gate.                                                               *)

GateOK(g) == g \in GateType /\ (IsOpen(g) => g.openId = g.segmentCount)

LEMMA CloseSegmentType ==
  ASSUME NEW g, GateOK(g)
  PROVE  /\ GateOK(CloseSegment(g)) /\ ~ IsOpen(CloseSegment(g))
         /\ CloseSegment(g).segmentCount = g.segmentCount
BY DEF GateOK, CloseSegment, GateType, IsOpen, NoSegment

LEMMA FlushGate ==
  ASSUME NEW g, GateOK(g)
  PROVE  /\ GateOK(Flush(g)) /\ ~ IsOpen(Flush(g))
         /\ Flush(g).segmentCount = g.segmentCount
BY CloseSegmentType DEF Flush

LEMMA BreakGate ==
  ASSUME NEW g, GateOK(g)
  PROVE  /\ GateOK(BreakSegment(g)) /\ ~ IsOpen(BreakSegment(g))
         /\ BreakSegment(g).segmentCount = g.segmentCount
<1> DEFINE f == Flush(g)
<1>1. GateOK(f) /\ ~ IsOpen(f) /\ f.segmentCount = g.segmentCount /\ f \in GateType
  BY FlushGate DEF GateOK
<1> HIDE DEF f
<1>2. BreakSegment(g) = [ f EXCEPT !.activeStreak = 0, !.quietStreak = 0,
                            !.backdate = 0, !.lastActive = 0, !.primed = FALSE ]
  BY DEF BreakSegment, f
<1>3. BreakSegment(g) \in GateType
  <2> DEFINE still == [ f EXCEPT !.activeStreak = 0, !.quietStreak = 0 ]
  <2>1. still \in GateType
    BY <1>1 DEF GateType
  <2> DEFINE blank == [ still EXCEPT !.backdate = 0, !.lastActive = 0 ]
  <2>2. blank \in GateType
    <3> HIDE DEF still
    <3> QED
      BY <2>1 DEF GateType
  <2>3. BreakSegment(g) = [ blank EXCEPT !.primed = FALSE ]
    BY <1>1, <1>2 DEF GateType
  <2> HIDE DEF blank
  <2> QED
    BY <2>2, <2>3 DEF GateType
<1>4. /\ BreakSegment(g).openId = f.openId
      /\ BreakSegment(g).segmentCount = f.segmentCount
  BY <1>1, <1>2 DEF GateOK, GateType
<1> QED
  BY <1>1, <1>3, <1>4 DEF GateOK, IsOpen

(* A frame opens the next segment, or none.                                *)
LEMMA UpdateGate ==
  ASSUME NEW g, GateOK(g), NEW ts \in Nat, NEW moving
  PROVE  LET h == Update(g, ts, moving)
         IN  /\ GateOK(h)
             /\ Opens(g, h) => h.segmentCount = g.segmentCount + 1
             /\ ~ Opens(g, h) => h.segmentCount = g.segmentCount
<1> DEFINE h == Update(g, ts, moving)
<1>1. CASE IsActive(g, moving)
  <2> DEFINE a == OnActive(g, ts)
             streak == g.activeStreak + 1
             opens  == ~ IsOpen(g) /\ streak >= OpenFrames
  <2> DEFINE back  == IF streak = 1 THEN ts ELSE g.backdate
             count == IF opens THEN g.segmentCount + 1 ELSE g.segmentCount
             id    == IF opens THEN g.segmentCount + 1 ELSE g.openId
  <2>1. a \in GateType
    <3>1. streak \in Nat /\ back \in Nat /\ count \in Nat /\ id \in Nat
      BY DEF GateOK, GateType
    <3>2. a = [ g EXCEPT !.activeStreak = streak, !.quietStreak = 0, !.backdate = back,
                         !.lastActive = ts, !.segmentCount = count, !.openId = id ]
      BY DEF OnActive
    <3> HIDE DEF streak, back, count, id, a
    <3> QED
      BY <3>1, <3>2 DEF GateOK, GateType
  <2>2. CASE opens
    <3>1. a.segmentCount = g.segmentCount + 1 /\ a.openId = g.segmentCount + 1
      BY <2>2 DEF GateOK, GateType, OnActive
    <3>2. h = [ a EXCEPT !.primed = TRUE ]
      BY <1>1 DEF Update
    <3> HIDE DEF a, h
    <3>3. h \in GateType /\ h.segmentCount = a.segmentCount /\ h.openId = a.openId
      BY <2>1, <3>2 DEF GateType
    <3>4. Opens(g, h)
      BY <2>2, <3>1, <3>3 DEF Opens, IsOpen, NoSegment, GateOK, GateType
    <3> QED
      BY <3>1, <3>3, <3>4 DEF GateOK, h
  <2>3. CASE ~ opens
    <3>1. a.segmentCount = g.segmentCount /\ a.openId = g.openId
      BY <2>3 DEF GateOK, GateType, OnActive
    <3>2. h = [ a EXCEPT !.primed = TRUE ]
      BY <1>1 DEF Update
    <3> HIDE DEF a, h
    <3>3. h \in GateType /\ h.segmentCount = a.segmentCount /\ h.openId = a.openId
      BY <2>1, <3>2 DEF GateType
    <3> QED
      BY <3>1, <3>3 DEF GateOK, Opens, IsOpen, h
  <2> QED
    BY <2>2, <2>3
<1>2. CASE ~ IsActive(g, moving)
  <2> DEFINE q == OnQuiet(g)
             quieter == [ g EXCEPT !.activeStreak = 0, !.quietStreak = @ + 1 ]
  <2>1. GateOK(quieter) /\ quieter.segmentCount = g.segmentCount
        /\ quieter.openId = g.openId
    <3> DEFINE still == g.quietStreak + 1
    <3>0. g \in GateType /\ still \in Nat
      BY DEF GateOK, GateType
    <3>1. quieter \in GateType
      <4>1. quieter = [ g EXCEPT !.activeStreak = 0, !.quietStreak = still ]
        OBVIOUS
      <4> HIDE DEF still, quieter
      <4> QED
        BY <3>0, <4>1 DEF GateType
    <3>2. quieter.segmentCount = g.segmentCount /\ quieter.openId = g.openId
      BY DEF GateOK, GateType
    <3> HIDE DEF quieter
    <3> QED
      BY <3>1, <3>2 DEF GateOK, IsOpen
  <2>2. GateOK([ g EXCEPT !.activeStreak = 0 ])
        /\ [ g EXCEPT !.activeStreak = 0 ].segmentCount = g.segmentCount
        /\ [ g EXCEPT !.activeStreak = 0 ].openId = g.openId
    BY DEF GateOK, GateType, IsOpen
  <2>3. GateOK(q) /\ q.segmentCount = g.segmentCount /\ (~ IsOpen(g) => ~ IsOpen(q))
    BY <2>1, <2>2, CloseSegmentType DEF OnQuiet, IsOpen
  <2>4. h = [ q EXCEPT !.primed = TRUE ]
    BY <1>2 DEF Update
  <2> HIDE DEF q, h
  <2>5. h \in GateType /\ h.segmentCount = q.segmentCount /\ h.openId = q.openId
    BY <2>3, <2>4 DEF GateOK, GateType
  <2> QED
    BY <2>3, <2>5 DEF GateOK, Opens, IsOpen, h
<1> QED
  BY <1>1, <1>2

-----------------------------------------------------------------------------
(* Gate and tracker together.                                              *)

(* The tracker has open exactly the segment the gate has open.             *)
Agrees(g, t) == OpenIds(t) = IF IsOpen(g) THEN {g.openId} ELSE {}

Consistent(g, t) == GateOK(g) /\ Accounted(t, g.segmentCount) /\ Agrees(g, t)

LEMMA CloseIfClosedConsistent ==
  ASSUME NEW g, NEW h, NEW t, Consistent(g, t), GateOK(h), ~ IsOpen(h),
         h.segmentCount = g.segmentCount
  PROVE  LET f == CloseIfClosed(t, g, h)
         IN  Consistent(h, f) /\ Settles(t, f)
<1> DEFINE f == CloseIfClosed(t, g, h)
           n == g.segmentCount
<1>1. n \in Nat /\ g.lastActive \in Nat
  BY DEF Consistent, GateOK, GateType
<1>2. CASE Closes(g, h)
  <2>1. f = OnSegmentClose(t, g.openId, g.lastActive)
    BY <1>2 DEF CloseIfClosed
  <2>2. Accounted(f, n) /\ OpenIds(f) = OpenIds(t) \ {g.openId} /\ Settles(t, f)
    BY <1>1, <2>1, OnSegmentCloseAccounts DEF Consistent
  <2>3. OpenIds(f) = {}
    BY <1>2, <2>2 DEF Consistent, Agrees, Closes
  <2> QED
    BY <2>2, <2>3 DEF Consistent, Agrees
<1>3. CASE ~ Closes(g, h)
  <2>1. f = t /\ ~ IsOpen(g)
    BY <1>3 DEF CloseIfClosed, Closes
  <2> QED
    BY <2>1 DEF Consistent, Agrees, Settles
<1> QED
  BY <1>2, <1>3

(* What one active or still frame does to both, decoded or not.            *)
LEMMA OpenIfOpenedConsistent ==
  ASSUME NEW g, NEW t, Consistent(g, t), NEW ts \in Nat, NEW moving,
         NEW b \in SUBSET Nat, IsFiniteSet(b)
  PROVE  LET h == Update(g, ts, moving)
             f == OpenIfOpened(t, g, h, b)
         IN  /\ GateOK(h) /\ Accounted(f, h.segmentCount) /\ Settles(t, f)
             /\ OpenIds(f) = IF IsOpen(h) THEN {h.openId}
                             ELSE IF IsOpen(g) THEN {g.openId} ELSE {}
<1> DEFINE h == Update(g, ts, moving)
           f == OpenIfOpened(t, g, h, b)
           n == g.segmentCount
<1>1. /\ GateOK(h)
      /\ Opens(g, h) => h.segmentCount = n + 1
      /\ ~ Opens(g, h) => h.segmentCount = n
  BY UpdateGate DEF Consistent
<1>2. n \in Nat /\ h.backdate \in Nat
  BY <1>1 DEF Consistent, GateOK, GateType
<1> HIDE DEF h
<1>3. CASE Opens(g, h)
  <2>1. h.openId = n + 1 /\ h.segmentCount = n + 1
    BY <1>1, <1>3 DEF GateOK, Opens
  <2>2. f = OnSegmentOpen(t, n + 1, h.backdate, b)
    BY <1>3, <2>1 DEF OpenIfOpened
  <2>3. Accounted(t, n)
    BY DEF Consistent
  <2> HIDE DEF n, f
  <2>4. Accounted(f, n + 1) /\ OpenIds(f) = OpenIds(t) \cup {n + 1} /\ Settles(t, f)
    BY <1>2, <2>2, <2>3, OnSegmentOpenAccounts
  <2> QED
    BY <1>1, <1>3, <2>1, <2>4 DEF Consistent, Agrees, Opens, h, f
<1>4. CASE ~ Opens(g, h)
  <2>1. f = t /\ h.segmentCount = n
    BY <1>1, <1>4 DEF OpenIfOpened
  <2>2. IsOpen(h) => IsOpen(g) /\ h.openId = g.openId
    BY <1>1, <1>4, <2>1 DEF Opens, GateOK, Consistent
  <2> QED
    BY <1>1, <2>1, <2>2 DEF Consistent, Agrees, Settles, h
<1> QED
  BY <1>3, <1>4

-----------------------------------------------------------------------------
(* The invariant.                                                          *)

IInv ==
  /\ TypeOK
  /\ Consistent(gate, tracker)
  /\ IsFiniteSet(buffer)
  /\ done => ~ IsOpen(gate) /\ PendingIds(tracker) = {}

LEMMA AtBoundaryConsistent ==
  ASSUME IInv, NEW mark
  PROVE  LET at == AtBoundary(mark)
         IN  Consistent(at.gate, at.tracker) /\ Settles(tracker, at.tracker)
             /\ at.gate.segmentCount = gate.segmentCount
<1> DEFINE broken == BreakSegment(gate)
           closed == CloseIfClosed(tracker, gate, broken)
           at     == AtBoundary(mark)
<1>1. CASE mark
  <2>1. GateOK(broken) /\ ~ IsOpen(broken) /\ broken.segmentCount = gate.segmentCount
    BY BreakGate DEF IInv, Consistent
  <2>2. Consistent(broken, closed) /\ Settles(tracker, closed)
    BY <2>1, CloseIfClosedConsistent DEF IInv
  <2>3. buffer \in SUBSET Nat /\ broken.segmentCount \in Nat
    BY <2>1 DEF IInv, TypeOK, GateOK, GateType
  <2>4. at.gate = broken /\ at.tracker = FlushPending(closed, buffer)
    BY <1>1 DEF AtBoundary
  <2> HIDE DEF broken, closed, at
  <2>5. LET f == FlushPending(closed, buffer)
        IN  Accounted(f, broken.segmentCount) /\ OpenIds(f) = OpenIds(closed)
            /\ PendingIds(f) = {} /\ Settles(closed, f)
    BY <2>2, <2>3, FlushPendingAccounts DEF Consistent
  <2> QED
    BY <2>1, <2>2, <2>4, <2>5, SettlesTransitive DEF Consistent, Agrees, at
<1>2. CASE ~ mark
  <2>1. at.gate = gate /\ at.tracker = tracker
    BY <1>2 DEF AtBoundary
  <2> QED
    BY <2>1 DEF IInv, Settles
<1> QED
  BY <1>1, <1>2

(* One frame, however far its processing gets.                             *)
LEMMA ProcessFrameConsistent ==
  ASSUME IInv, NEW step \in Nat, NEW mark, NEW moving,
         NEW read, NEW fault, ProcessFrame(step, mark, moving, read, fault)
  PROVE  /\ Consistent(gate', tracker') /\ Settles(tracker, tracker')
         /\ gate.segmentCount <= gate'.segmentCount
         /\ \A id \in (gate.segmentCount + 1) .. gate'.segmentCount : id \in OpenIds(tracker')
<1> DEFINE ts      == now + step
           at      == AtBoundary(mark)
           clocked == AdvanceClock(at.tracker, ts)
           filled  == Buffered(buffer, ts)
           after   == Update(at.gate, ts, moving)
           opened  == OpenIfOpened(clocked, at.gate, after, filled)
           decoded == DecodeIfActive(opened, at.gate, after, moving, read)
           n       == gate.segmentCount
<1>1. /\ n \in Nat /\ ts \in Nat /\ buffer \in SUBSET Nat
      /\ filled \in SUBSET Nat /\ IsFiniteSet(filled)
  <2>1. gate \in GateType /\ now \in Nat /\ buffer \in SUBSET Nat /\ IsFiniteSet(buffer)
    BY DEF IInv, TypeOK
  <2>2. n \in Nat /\ ts \in Nat
    BY <2>1 DEF GateType
  <2> QED
    BY <2>1, <2>2, AppendedType DEF Buffered
<1>2. Consistent(at.gate, at.tracker) /\ Settles(tracker, at.tracker)
      /\ at.gate.segmentCount = n
  BY AtBoundaryConsistent
<1>3. Consistent(at.gate, clocked) /\ Settles(at.tracker, clocked)
  <2>1. clocked = OnFrame(at.tracker, ts, buffer)
    BY DEF AdvanceClock
  <2> QED
    BY <1>1, <1>2, <2>1, OnFrameAccounts DEF Consistent, Agrees
<1> HIDE DEF ts, at, clocked, filled
<1>4. /\ GateOK(after) /\ Accounted(opened, after.segmentCount) /\ Settles(clocked, opened)
      /\ OpenIds(opened) = IF IsOpen(after) THEN {after.openId}
                           ELSE IF IsOpen(at.gate) THEN {at.gate.openId} ELSE {}
  BY <1>1, <1>3, OpenIfOpenedConsistent
<1>5. /\ n <= after.segmentCount
      /\ \A id \in (n + 1) .. after.segmentCount : IsOpen(after) /\ id = after.openId
  <2>0. GateOK(at.gate)
    BY <1>3 DEF Consistent
  <2>1. /\ Opens(at.gate, after) => after.segmentCount = n + 1
        /\ ~ Opens(at.gate, after) => after.segmentCount = n
    BY <1>1, <1>2, <2>0, UpdateGate
  <2>2. CASE Opens(at.gate, after)
    BY <1>1, <1>4, <2>1, <2>2 DEF Opens, GateOK
  <2>3. CASE ~ Opens(at.gate, after)
    BY <1>1, <2>1, <2>3
  <2> QED
    BY <2>2, <2>3
<1>6. after.segmentCount \in Nat
  BY <1>4 DEF GateOK, GateType
<1> HIDE DEF after, opened
<1>7. /\ Accounted(decoded, after.segmentCount) /\ Settles(opened, decoded)
      /\ OpenIds(decoded) = OpenIds(opened)
  <2>1. CASE decoded = opened
    BY <1>4, <2>1 DEF Settles
  <2>2. CASE decoded = OnDecode(opened, after.openId, read)
    BY <1>4, <1>6, <2>2, OnDecodeAccounts
  <2> QED
    BY <2>1, <2>2 DEF DecodeIfActive
<1> HIDE DEF decoded
<1>8. /\ \/ fault = "gate" /\ gate' = at.gate /\ tracker' = clocked
         \/ fault = "decode" /\ IsActive(at.gate, moving) /\ gate' = after /\ tracker' = opened
         \/ fault = "none" /\ gate' = after /\ tracker' = CloseIfClosed(decoded, at.gate, after)
  BY DEF ProcessFrame, ts, at, clocked, filled, after, opened, decoded
<1>9. CASE gate' = at.gate /\ tracker' = clocked
  BY <1>1, <1>2, <1>3, <1>9, SettlesTransitive
<1>10. CASE IsActive(at.gate, moving) /\ gate' = after /\ tracker' = opened
  <2>1. IsOpen(at.gate) => IsOpen(after)
    BY <1>10, <1>2 DEF after, Update, OnActive, IsOpen, Consistent, GateOK, GateType, NoSegment
  <2>2. Consistent(after, opened)
    BY <1>4, <2>1 DEF Consistent, Agrees
  <2>3. Settles(tracker, opened)
    BY <1>2, <1>3, <1>4, SettlesTransitive
  <2> QED
    BY <1>4, <1>5, <1>10, <2>2, <2>3
<1>11. CASE gate' = after /\ tracker' = CloseIfClosed(decoded, at.gate, after)
  <2>1. Settles(tracker, decoded)
    BY <1>2, <1>3, <1>4, <1>7, SettlesTransitive
  <2>2. CASE Closes(at.gate, after)
    <3>1. Accounted(decoded, after.segmentCount)
          /\ OpenIds(decoded) = {at.gate.openId} /\ ~ IsOpen(after)
      BY <1>4, <1>7, <2>2 DEF Closes
    <3>2. at.gate.lastActive \in Nat
      BY <1>2 DEF Consistent, GateOK, GateType
    <3>3. tracker' = OnSegmentClose(decoded, at.gate.openId, at.gate.lastActive)
      BY <1>11, <2>2 DEF CloseIfClosed
    <3>4. /\ Accounted(tracker', after.segmentCount) /\ Settles(decoded, tracker')
          /\ OpenIds(tracker') = OpenIds(decoded) \ {at.gate.openId}
      BY <1>6, <3>1, <3>2, <3>3, OnSegmentCloseAccounts
    <3>5. Consistent(after, tracker')
      BY <1>4, <3>1, <3>4 DEF Consistent, Agrees
    <3>6. Settles(tracker, tracker')
      BY <2>1, <3>4, SettlesTransitive
    <3>7. \A id \in (n + 1) .. after.segmentCount : FALSE
      BY <1>5, <3>1
    <3> QED
      BY <1>5, <1>11, <3>5, <3>6, <3>7
  <2>3. CASE ~ Closes(at.gate, after)
    <3>1. tracker' = decoded
      BY <1>11, <2>3 DEF CloseIfClosed
    <3>2. Consistent(after, decoded)
      BY <1>4, <1>7, <2>3 DEF Consistent, Agrees, Closes
    <3>3. \A id \in (n + 1) .. after.segmentCount : id \in OpenIds(decoded)
      BY <1>4, <1>5, <1>7
    <3> QED
      BY <1>5, <1>11, <2>1, <3>1, <3>2, <3>3
  <2> QED
    BY <2>2, <2>3
<1> QED
  BY <1>8, <1>9, <1>10, <1>11

(* The end of the stream settles every segment.                            *)
LEMMA EndOfStreamConsistent ==
  ASSUME IInv, EndOfStream
  PROVE  /\ Consistent(gate', tracker') /\ Settles(tracker, tracker')
         /\ gate'.segmentCount = gate.segmentCount
         /\ ~ IsOpen(gate') /\ PendingIds(tracker') = {}
<1> DEFINE flushed == Flush(gate)
           closed  == CloseIfClosed(tracker, gate, flushed)
<1>1. GateOK(flushed) /\ ~ IsOpen(flushed) /\ flushed.segmentCount = gate.segmentCount
  BY FlushGate DEF IInv, Consistent
<1>2. Consistent(flushed, closed) /\ Settles(tracker, closed)
  BY <1>1, CloseIfClosedConsistent DEF IInv
<1>3. buffer \in SUBSET Nat /\ flushed.segmentCount \in Nat
  BY <1>1 DEF IInv, TypeOK, GateOK, GateType
<1>4. gate' = flushed /\ tracker' = FlushPending(closed, buffer)
  BY DEF EndOfStream
<1> HIDE DEF flushed, closed
<1>5. /\ Accounted(tracker', flushed.segmentCount) /\ OpenIds(tracker') = OpenIds(closed)
      /\ PendingIds(tracker') = {} /\ Settles(closed, tracker')
  BY <1>2, <1>3, <1>4, FlushPendingAccounts DEF Consistent
<1> QED
  BY <1>1, <1>2, <1>4, <1>5, SettlesTransitive DEF Consistent, Agrees

-----------------------------------------------------------------------------
LEMMA InitIInv == Init => IInv
<1> SUFFICES ASSUME Init PROVE IInv
  OBVIOUS
<1>1. gate \in GateType /\ ~ IsOpen(gate) /\ gate.segmentCount = 0
  BY DEF Init, NewGate, GateType, IsOpen, NoSegment
<1>2. IsWindow(seeds)
  BY PipelineAssumption DEF Init
<1>3. /\ tracker.open = {} /\ tracker.recent = seeds /\ tracker.pending = <<>>
      /\ tracker.passes = {} /\ tracker.merged = {} /\ tracker.misses = {}
  BY DEF Init, NewTracker
<1>4. IsTracker(tracker)
  BY <1>2, <1>3 DEF Init, NewTracker, IsTracker
<1>5. /\ OpenIds(tracker) = {} /\ PendingIds(tracker) = {}
      /\ ReadIds(tracker) = {} /\ MissedIds(tracker) = {}
  BY <1>3 DEF OpenIds, PendingIds, ReadIds, MissedIds
<1>6. AccountsFor(tracker, 0) /\ NoDoubleMiss(tracker)
  BY <1>3, <1>5 DEF AccountsFor, NoDoubleMiss
<1>7. TypeOK
  BY <1>1, <1>2, <1>4 DEF Init, TypeOK
<1>8. IsFiniteSet(buffer)
  BY FS_EmptySet DEF Init
<1> QED
  BY <1>1, <1>4, <1>5, <1>6, <1>7, <1>8 DEF IInv, Consistent, GateOK, Accounted, Agrees

LEMMA StepIInv == IInv /\ [Next]_vars => IInv'
<1> SUFFICES ASSUME IInv, [Next]_vars PROVE IInv'
  OBVIOUS
<1>1. ASSUME NEW step \in Nat, NEW mark, NEW moving, NEW read, NEW fault,
             ProcessFrame(step, mark, moving, read, fault)
      PROVE  IInv'
  <2>1. Consistent(gate', tracker')
    BY <1>1, ProcessFrameConsistent
  <2>2. /\ now' = now + step /\ seen' = seen \cup {now'}
        /\ marks' = (IF mark THEN marks \cup {now'} ELSE marks)
        /\ buffer' = Buffered(buffer, now') /\ seeds' = seeds /\ done' = done /\ ~ done
    BY <1>1 DEF ProcessFrame
  <2>3. /\ now \in Nat /\ seen \in SUBSET Nat /\ marks \in SUBSET Nat
        /\ buffer \in SUBSET Nat /\ IsFiniteSet(buffer) /\ IsWindow(seeds) /\ done \in BOOLEAN
    BY DEF IInv, TypeOK
  <2>4. now' \in Nat
    BY <1>1, <2>2, <2>3
  <2>5. buffer' \in SUBSET Nat /\ IsFiniteSet(buffer')
    BY <2>2, <2>3, <2>4, AppendedType DEF Buffered
  <2>6. seen' \in SUBSET Nat /\ marks' \in SUBSET Nat
    BY <2>2, <2>3, <2>4
  <2>7. gate' \in GateType /\ IsTracker(tracker')
    BY <2>1 DEF Consistent, GateOK, Accounted
  <2>8. TypeOK'
    BY <2>2, <2>3, <2>4, <2>5, <2>6, <2>7 DEF TypeOK
  <2> QED
    BY <2>1, <2>2, <2>5, <2>8 DEF IInv
<1>2. ASSUME EndOfStream
      PROVE  IInv'
  <2>1. Consistent(gate', tracker') /\ ~ IsOpen(gate') /\ PendingIds(tracker') = {}
    BY <1>2, EndOfStreamConsistent
  <2>2. UNCHANGED <<buffer, now, seen, marks, seeds>> /\ done' = TRUE
    BY <1>2 DEF EndOfStream
  <2>3. TypeOK'
    BY <2>1, <2>2 DEF IInv, TypeOK, Consistent, GateOK, Accounted
  <2> QED
    BY <2>1, <2>2, <2>3 DEF IInv
<1>3. CASE UNCHANGED vars
  BY <1>3 DEF vars, IInv, TypeOK
<1> QED
  BY <1>1, <1>2, <1>3, PipelineAssumption DEF Next

THEOREM Invariance == Spec => []IInv
BY InitIInv, StepIInv, PTL DEF Spec

(* The types of the pipeline's state.                                      *)
THEOREM TypeCorrect == Spec => []TypeOK
<1>1. IInv => TypeOK
  BY DEF IInv
<1> QED
  BY <1>1, Invariance, PTL

(* No segment is lost and none is counted twice, whatever the debounce,    *)
(* the windows, the frame times, the discontinuities and the failures.     *)
THEOREM SegmentsAccounted == Spec => []EverySegmentAccounted
<1>1. IInv => EverySegmentAccounted
  BY DEF IInv, Consistent, Accounted, Agrees, EverySegmentAccounted
<1> QED
  BY <1>1, Invariance, PTL

-----------------------------------------------------------------------------
(* The pipeline implements the segment ledger.                             *)

LedgerNow == [ id \in 1 .. gate.segmentCount |-> StatusOf(id) ]

LEMMA LedgerInit == Init => Ledger!Init
<1> SUFFICES ASSUME Init PROVE Ledger!Init
  OBVIOUS
<1>1. 1 .. gate.segmentCount = {}
  BY DEF Init, NewGate
<1> QED
  BY <1>1 DEF Init, Ledger!Init

(* The status of a segment, one step apart.                                *)
LEMMA StatusSuccessor ==
  ASSUME IInv, IInv', Settles(tracker, tracker'),
         gate.segmentCount <= gate'.segmentCount,
         NEW id \in 1 .. gate.segmentCount
  PROVE  StatusOf(id)' \in Ledger!Successors(StatusOf(id))
<1>1. gate.segmentCount \in Nat /\ gate'.segmentCount \in Nat
  BY DEF IInv, TypeOK, GateType
<1>2. id \in 1 .. gate'.segmentCount
  BY <1>1
<1>3. AccountsFor(tracker, gate.segmentCount) /\ AccountsFor(tracker', gate'.segmentCount)
  BY DEF IInv, Consistent, Accounted
<1>4. CASE id \in OpenIds(tracker)
  BY <1>4 DEF StatusOf, Ledger!Successors, Ledger!Outcomes
<1>5. CASE id \in PendingIds(tracker)
  <2>1. StatusOf(id) = "waiting"
    BY <1>3, <1>5 DEF StatusOf, AccountsFor
  <2>2. StatusOf(id)' \in {"waiting", "missed"}
    BY <1>3, <1>5 DEF StatusOf, AccountsFor, Settles
  <2> QED
    BY <2>1, <2>2 DEF Ledger!Successors
<1>6. CASE id \in ReadIds(tracker)
  <2>1. StatusOf(id) = "read"
    BY <1>3, <1>6 DEF StatusOf, AccountsFor
  <2>2. StatusOf(id)' = "read"
    BY <1>3, <1>6 DEF StatusOf, AccountsFor, Settles
  <2> QED
    BY <2>1, <2>2 DEF Ledger!Successors
<1>7. CASE id \in MissedIds(tracker)
  <2>1. StatusOf(id) = "missed"
    BY <1>3, <1>7 DEF StatusOf, AccountsFor
  <2>2. StatusOf(id)' = "missed"
    BY <1>3, <1>7 DEF StatusOf, AccountsFor, Settles
  <2> QED
    BY <2>1, <2>2 DEF Ledger!Successors
<1> QED
  BY <1>3, <1>4, <1>5, <1>6, <1>7 DEF AccountsFor

LEMMA LedgerAdvance ==
  ASSUME IInv, IInv', Settles(tracker, tracker'),
         gate.segmentCount <= gate'.segmentCount,
         \A id \in (gate.segmentCount + 1) .. gate'.segmentCount : id \in OpenIds(tracker')
  PROVE  Ledger!Advance
<1> DEFINE n == gate.segmentCount
           m == gate'.segmentCount
<1>1. n \in Nat /\ m \in Nat
  BY DEF IInv, TypeOK, GateType
<1>2. 1 .. n \subseteq 1 .. m
  BY <1>1
<1>3. \A id \in 1 .. n : StatusOf(id)' \in Ledger!Successors(StatusOf(id))
  BY StatusSuccessor
<1>4. \A id \in (1 .. m) \ (1 .. n) : StatusOf(id)' = "open"
  <2> SUFFICES ASSUME NEW id \in (1 .. m) \ (1 .. n)
               PROVE  StatusOf(id)' = "open"
    OBVIOUS
  <2>1. id \in (n + 1) .. m
    BY <1>1
  <2> QED
    BY <2>1 DEF StatusOf
<1>5. /\ DOMAIN LedgerNow = 1 .. n /\ DOMAIN LedgerNow' = 1 .. m
      /\ \A id \in 1 .. n : LedgerNow[id] = StatusOf(id)
      /\ \A id \in 1 .. m : LedgerNow'[id] = StatusOf(id)'
  BY DEF LedgerNow
<1>6. Ledger!Advance = ( /\ DOMAIN LedgerNow \subseteq DOMAIN LedgerNow'
                         /\ \A id \in DOMAIN LedgerNow :
                              LedgerNow'[id] \in Ledger!Successors(LedgerNow[id])
                         /\ \A id \in DOMAIN LedgerNow' \ DOMAIN LedgerNow :
                              LedgerNow'[id] = "open" )
  BY DEF Ledger!Advance, LedgerNow
<1> HIDE DEF n, m
<1> QED
  BY <1>2, <1>3, <1>4, <1>5, <1>6

LEMMA LedgerStep ==
  IInv /\ IInv' /\ [Next]_vars => [Ledger!Frame \/ Ledger!Finish]_<<LedgerNow, done>>
<1> SUFFICES ASSUME IInv, IInv', [Next]_vars
             PROVE  [Ledger!Frame \/ Ledger!Finish]_<<LedgerNow, done>>
  OBVIOUS
<1>1. ASSUME NEW step \in Nat, NEW mark, NEW moving, NEW read, NEW fault,
             ProcessFrame(step, mark, moving, read, fault)
      PROVE  Ledger!Frame
  <2>1. ~ done /\ UNCHANGED done
    BY <1>1 DEF ProcessFrame
  <2>2. Ledger!Advance
    BY <1>1, ProcessFrameConsistent, LedgerAdvance
  <2> QED
    BY <2>1, <2>2 DEF Ledger!Frame
<1>2. ASSUME EndOfStream
      PROVE  Ledger!Finish
  <2>1. /\ Settles(tracker, tracker') /\ gate'.segmentCount = gate.segmentCount
        /\ ~ IsOpen(gate') /\ PendingIds(tracker') = {}
        /\ Consistent(gate', tracker')
    BY <1>2, EndOfStreamConsistent
  <2>2. gate.segmentCount \in Nat
    BY DEF IInv, TypeOK, GateType
  <2>3. Ledger!Advance
    BY <2>1, <2>2, LedgerAdvance
  <2>4. \A id \in 1 .. gate.segmentCount : StatusOf(id)' \in Ledger!Outcomes
    BY <2>1 DEF Consistent, Agrees, StatusOf, Ledger!Outcomes
  <2>5. /\ DOMAIN LedgerNow = 1 .. gate.segmentCount
        /\ DOMAIN LedgerNow' = 1 .. gate.segmentCount
        /\ \A id \in 1 .. gate.segmentCount : LedgerNow'[id] = StatusOf(id)'
    BY <2>1 DEF LedgerNow
  <2>6. ~ done /\ done'
    BY <1>2 DEF EndOfStream
  <2> QED
    BY <2>3, <2>4, <2>5, <2>6 DEF Ledger!Finish, LedgerNow
<1>3. CASE UNCHANGED vars
  BY <1>3 DEF vars, LedgerNow, StatusOf
<1> QED
  BY <1>1, <1>2, <1>3, PipelineAssumption DEF Next

(* Every step of the pipeline is a step of the ledger or leaves it alone:  *)
(* an outcome, once given, is never revised, and the end settles all.      *)
THEOREM LedgerImplemented == Spec => ImplementsLedger
<1>1. Init => Ledger!Init
  BY LedgerInit
<1>2. IInv /\ IInv' /\ [Next]_vars => [Ledger!Frame \/ Ledger!Finish]_<<LedgerNow, done>>
  BY LedgerStep
<1> QED
  BY <1>1, <1>2, Invariance, PTL DEF Spec, ImplementsLedger, Ledger!Spec, LedgerNow

-----------------------------------------------------------------------------
(* Part 2.  Times, evidence and the dedup window.                          *)

-----------------------------------------------------------------------------
(* The invariant, in the moment at, with the frames S and the              *)
(* discontinuities D there have been until then.                           *)

Unbroken(D, from, to) == ~ \E d \in D : from < d /\ d <= to

(* No segment closes before this any more: the open one at its last active *)
(* frame, later ones after the present.                                    *)
Since(g, at) == IF IsOpen(g) THEN g.lastActive ELSE at

GateTimely(g, at, D) ==
  /\ g.lastActive <= at
  /\ g.activeStreak > 0 => g.backdate <= g.lastActive /\ Unbroken(D, g.backdate, at)

(* An open segment is of the present connection and was fed every frame    *)
(* since its last active one.                                              *)
OpenTimely(s, g, at, S, D) ==
  /\ s.open <= g.lastActive /\ Unbroken(D, s.open, at)
  /\ \A f \in Fed(s) : f <= at
  /\ \A f \in S : g.lastActive <= f => f \in Fed(s)

(* A waiting miss is of the present connection too, and was fed every      *)
(* frame since its close, or is not due and can still take it from the     *)
(* buffer.                                                                 *)
WaitingTimely(p, g, at, S, D) ==
  /\ p.deadline = p.close + PostRoll
  /\ p.open <= p.close /\ p.close <= Since(g, at)
  /\ Unbroken(D, p.open, at)
  /\ \A f \in Fed(p) : f <= at
  /\ \A f \in S : p.close <= f => f \in Fed(p) \/ (p.close < f /\ at < p.deadline)

ReadTimely(e, g, at, D) == Unbroken(D, e.open, e.close) /\ e.close <= Since(g, at)

Shown(m, f, S) == f \in m.frames \/ Thinned(m.evidence, f) \/ Crowded(S, f, Horizon)

MissTimely(m, at, S, D) ==
  /\ Unbroken(D, m.open, m.close) /\ m.close <= at
  /\ \A f \in m.frames : f <= at /\ (m.close < f => Unbroken(D, m.close, f))
  /\ \A f \in S : m.close <= f /\ f < m.close + PostRoll /\ Unbroken(D, m.close, f)
                    => Shown(m, f, S)

EventsTimely(g, t, at, S, D) ==
  /\ \A e \in t.passes \cup t.merged : ReadTimely(e, g, at, D)
  /\ \A m \in t.misses : MissTimely(m, at, S, D)

ListTimely(g, t, at, S, D) ==
  /\ \A i \in DOMAIN t.pending : WaitingTimely(t.pending[i], g, at, S, D)
  /\ \A i, j \in DOMAIN t.pending : i <= j => t.pending[i].close <= t.pending[j].close

Timely(g, t, at, S, D) ==
  /\ GateTimely(g, at, D)
  /\ \A s \in t.open : OpenTimely(s, g, at, S, D)
  /\ ListTimely(g, t, at, S, D)
  /\ EventsTimely(g, t, at, S, D)

(* Nothing that comes later belongs to the evidence of this miss.          *)
Complete(m, at, D) == m.close + PostRoll <= at \/ \E d \in D : m.close < d /\ d <= at

LEMMA HorizonType == Horizon \in Nat /\ PostRoll <= Horizon
BY TrackerAssumption, PipelineAssumption DEF Horizon

-----------------------------------------------------------------------------
(* The gate alone.                                                         *)

LEMMA UpdateTimely ==
  ASSUME NEW g, GateOK(g), NEW ts \in Nat, NEW moving, NEW D \in SUBSET Nat,
         GateTimely(g, ts, D)
  PROVE  LET h == Update(g, ts, moving)
         IN  /\ GateTimely(h, ts, D) /\ g.lastActive <= h.lastActive
             /\ h.lastActive = g.lastActive \/ h.lastActive = ts
             /\ Closes(g, h) => h.lastActive = g.lastActive /\ ~ IsActive(g, moving)
             /\ Opens(g, h) => h.lastActive = ts /\ h.backdate <= ts
                                 /\ Unbroken(D, h.backdate, ts)
<1> DEFINE h == Update(g, ts, moving)
<1>0. g \in GateType
  BY DEF GateOK
<1>1. CASE IsActive(g, moving)
  <2> DEFINE streak == g.activeStreak + 1
             back   == IF streak = 1 THEN ts ELSE g.backdate
             opens  == ~ IsOpen(g) /\ streak >= OpenFrames
             count  == IF opens THEN g.segmentCount + 1 ELSE g.segmentCount
             id     == IF opens THEN g.segmentCount + 1 ELSE g.openId
             a      == [ g EXCEPT !.activeStreak = streak, !.quietStreak = 0, !.backdate = back,
                                  !.lastActive = ts, !.segmentCount = count, !.openId = id ]
  <2>1. h = [ a EXCEPT !.primed = TRUE ]
    BY <1>1 DEF Update, OnActive
  <2>2. streak \in Nat /\ streak > 0 /\ back \in Nat /\ (streak = 1 \/ g.activeStreak > 0)
    BY <1>0 DEF GateType
  <2>3. back <= ts /\ Unbroken(D, back, ts)
    <3>1. CASE streak = 1
      BY <3>1 DEF Unbroken
    <3>2. CASE streak # 1
      <4>1. g.activeStreak > 0 /\ back = g.backdate
        BY <2>2, <3>2
      <4>2. g.lastActive \in Nat /\ g.backdate \in Nat
        BY <1>0 DEF GateType
      <4>3. g.backdate <= g.lastActive /\ g.lastActive <= ts /\ Unbroken(D, g.backdate, ts)
        BY <4>1 DEF GateTimely
      <4> HIDE DEF back
      <4> QED
        BY <4>1, <4>2, <4>3
    <3> QED
      BY <3>1, <3>2
  <2>4. id \in Nat /\ (IsOpen(g) => id = g.openId)
    BY <1>0 DEF GateType
  <2> HIDE DEF streak, back, opens, count, id
  <2>5. h.activeStreak = streak /\ h.backdate = back /\ h.lastActive = ts /\ h.openId = id
    BY <1>0, <2>1 DEF GateType
  <2> HIDE DEF a, h
  <2>6. ~ Closes(g, h)
    BY <2>4, <2>5 DEF Closes, IsOpen
  <2>7. g.lastActive <= ts
    BY DEF GateTimely
  <2> QED
    BY <2>2, <2>3, <2>5, <2>6, <2>7 DEF GateTimely, h
<1>2. CASE ~ IsActive(g, moving)
  <2> DEFINE q == OnQuiet(g)
             quieter == [ g EXCEPT !.activeStreak = 0, !.quietStreak = @ + 1 ]
  <2>1. /\ quieter.activeStreak = 0 /\ quieter.lastActive = g.lastActive
        /\ quieter.openId = g.openId /\ quieter \in GateType
    <3> DEFINE still == g.quietStreak + 1
    <3>1. quieter = [ g EXCEPT !.activeStreak = 0, !.quietStreak = still ] /\ still \in Nat
      BY <1>0 DEF GateType
    <3> HIDE DEF still
    <3> QED
      BY <1>0, <3>1 DEF GateType
  <2> HIDE DEF quieter
  <2>2. CloseSegment(quieter).activeStreak = 0 /\ CloseSegment(quieter).lastActive = g.lastActive
        /\ CloseSegment(quieter) \in GateType
    BY <2>1 DEF CloseSegment, GateType, NoSegment
  <2>3. LET calm == [ g EXCEPT !.activeStreak = 0 ]
        IN  calm.activeStreak = 0 /\ calm.lastActive = g.lastActive
              /\ calm.openId = g.openId /\ calm \in GateType
    BY <1>0 DEF GateType
  <2>4. q.activeStreak = 0 /\ q.lastActive = g.lastActive /\ q \in GateType
        /\ (~ IsOpen(g) => ~ IsOpen(q))
    BY <2>1, <2>2, <2>3 DEF OnQuiet, quieter, IsOpen
  <2>5. h = [ q EXCEPT !.primed = TRUE ]
    BY <1>2 DEF Update
  <2> HIDE DEF q, h
  <2>6. h.activeStreak = 0 /\ h.lastActive = g.lastActive /\ h.openId = q.openId
    BY <2>4, <2>5 DEF GateType
  <2>7. ~ Opens(g, h)
    BY <2>4, <2>6 DEF Opens, IsOpen
  <2>8. g.lastActive \in Nat
    BY <1>0 DEF GateType
  <2> QED
    BY <1>2, <2>6, <2>7, <2>8 DEF GateTimely, h
<1> QED
  BY <1>1, <1>2

LEMMA FlushGateTimely ==
  ASSUME NEW g, GateOK(g), NEW at \in Nat, NEW D, GateTimely(g, at, D)
  PROVE  GateTimely(Flush(g), at, D)
<1>1. CASE IsOpen(g)
  <2>1. Flush(g).activeStreak = 0 /\ Flush(g).lastActive = g.lastActive
    BY <1>1 DEF Flush, CloseSegment, GateOK, GateType
  <2> QED
    BY <2>1 DEF GateTimely
<1>2. CASE ~ IsOpen(g)
  BY <1>2 DEF Flush
<1> QED
  BY <1>1, <1>2

LEMMA BreakGateTimely ==
  ASSUME NEW g, GateOK(g), NEW at \in Nat, NEW D
  PROVE  /\ GateTimely(BreakSegment(g), at, D)
         /\ BreakSegment(g).activeStreak = 0
         /\ ~ BreakSegment(g).primed
<1>1. Flush(g) \in GateType
  BY FlushGate DEF GateOK
<1>2. /\ BreakSegment(g).activeStreak = 0 /\ BreakSegment(g).lastActive = 0
      /\ BreakSegment(g).primed = FALSE
  BY <1>1 DEF BreakSegment, GateType
<1> QED
  BY <1>2 DEF GateTimely

-----------------------------------------------------------------------------
(* The tracker.                                                            *)

(* A later bound on the closes to come is a weaker one.                    *)
LEMMA SinceGrows ==
  ASSUME NEW g, NEW h, NEW t, IsTracker(t), NEW at \in Nat, NEW S \in SUBSET Nat, NEW D,
         Since(g, at) \in Nat, Since(h, at) \in Nat, Since(g, at) <= Since(h, at),
         ListTimely(g, t, at, S, D), EventsTimely(g, t, at, S, D)
  PROVE  ListTimely(h, t, at, S, D) /\ EventsTimely(h, t, at, S, D)
<1>1. ASSUME NEW i \in DOMAIN t.pending
      PROVE  WaitingTimely(t.pending[i], h, at, S, D)
  <2>1. t.pending[i] \in Waiting
    BY TrackerFields
  <2>2. t.pending[i].close \in Nat
    BY <2>1 DEF Waiting
  <2> QED
    BY <2>2 DEF ListTimely, WaitingTimely
<1>2. ASSUME NEW e \in t.passes \cup t.merged
      PROVE  ReadTimely(e, h, at, D)
  <2>1. e.close \in Nat
    BY TrackerFields DEF Sighted
  <2> QED
    BY <2>1 DEF EventsTimely, ReadTimely
<1> QED
  BY <1>1, <1>2 DEF ListTimely, EventsTimely

LEMMA CloseTimely ==
  ASSUME NEW g, NEW h, NEW t, GateOK(g), IsTracker(t),
         NEW at \in Nat, NEW S \in SUBSET Nat, NEW D \in SUBSET Nat,
         Timely(g, t, at, S, D), GateTimely(h, at, D),
         Closes(g, h), OpenIds(t) = {g.openId}
  PROVE  LET f == OnSegmentClose(t, g.openId, g.lastActive)
         IN  f.open = {} /\ Timely(h, f, at, S, D)
<1> DEFINE f     == OnSegmentClose(t, g.openId, g.lastActive)
           close == g.lastActive
           L     == Len(t.pending)
<1>1. close \in Nat /\ close <= at /\ g.openId \in OpenIds(t)
  BY DEF GateOK, GateType, Timely, GateTimely
<1>2. Since(g, at) = close /\ Since(h, at) = at
  BY DEF Since, Closes
<1>0. CloseEffect(t, f, g.openId, close)
  BY <1>1, OnSegmentCloseEffect
<1> HIDE DEF f
<1>3. PICK seg \in t.open :
        /\ seg.id = g.openId
        /\ f.open = { s \in t.open : s.id # g.openId } /\ f.misses = t.misses
        /\ \/ /\ f.pending = Append(t.pending, PendingMiss(seg, close))
              /\ f.passes = t.passes /\ f.merged = t.merged /\ f.recent = t.recent
           \/ /\ f.pending = t.pending
              /\ \E emit \in SUBSET Payloads, rest \in SUBSET Payloads :
                   /\ \A p \in emit : ~ IsRepeat(t, p, close)
                   /\ \A p \in rest : IsRepeat(t, p, close)
                   /\ f.passes = t.passes \cup { Sighting(seg, p, close) : p \in emit }
                   /\ f.merged = t.merged \cup { Sighting(seg, p, close) : p \in rest }
                   /\ f.recent = Refresh(t.recent, emit, close)
  BY <1>0 DEF CloseEffect
<1>4. f.open = {}
  <2>1. \A s \in t.open : s.id = g.openId
    BY DEF OpenIds
  <2> QED
    BY <1>3, <2>1
<1>5. ListTimely(h, t, at, S, D) /\ EventsTimely(h, t, at, S, D)
  BY <1>1, <1>2, SinceGrows DEF Timely
<1>6. OpenTimely(seg, g, at, S, D) /\ seg \in Segment
  BY TrackerFields DEF Timely
<1>7. /\ seg.open \in Nat
      /\ seg.open <= close /\ Unbroken(D, seg.open, at)
      /\ \A x \in Fed(seg) : x <= at
      /\ \A x \in S : close <= x => x \in Fed(seg)
  BY <1>6 DEF Segment, OpenTimely
<1>8. CASE /\ f.pending = Append(t.pending, PendingMiss(seg, close))
           /\ f.passes = t.passes /\ f.merged = t.merged
  <2> DEFINE w == PendingMiss(seg, close)
  <2>1. /\ w.open = seg.open /\ w.close = close /\ Fed(w) = Fed(seg)
        /\ w.deadline = close + PostRoll /\ w \in Waiting
    BY <1>1, <1>6, PendingMissType DEF PendingMiss, Fed
  <2>2. WaitingTimely(w, h, at, S, D)
    BY <1>1, <1>2, <1>7, <2>1 DEF WaitingTimely
  <2>3. t.pending \in Seq(Waiting) /\ L \in Nat /\ DOMAIN t.pending = 1 .. L
    BY TrackerFields
  <2> HIDE DEF w
  <2>4. /\ DOMAIN f.pending = 1 .. L + 1 /\ f.pending[L + 1] = w
        /\ \A i \in 1 .. L : f.pending[i] = t.pending[i]
    BY <1>8, <2>1, <2>3 DEF w
  <2>5. \A i \in 1 .. L : t.pending[i].close <= close /\ t.pending[i].close \in Nat
    <3> SUFFICES ASSUME NEW i \in 1 .. L
                 PROVE  t.pending[i].close <= close /\ t.pending[i].close \in Nat
      OBVIOUS
    <3>1. WaitingTimely(t.pending[i], g, at, S, D) /\ t.pending[i] \in Waiting
      BY <2>3, TrackerFields DEF Timely, ListTimely
    <3> QED
      BY <1>2, <3>1 DEF WaitingTimely, Waiting
  <2>6. ListTimely(h, f, at, S, D)
    <3>1. \A i \in 1 .. L + 1 : WaitingTimely(f.pending[i], h, at, S, D)
      <4> SUFFICES ASSUME NEW i \in 1 .. L + 1
                   PROVE  WaitingTimely(f.pending[i], h, at, S, D)
        OBVIOUS
      <4>1. i \in 1 .. L \/ i = L + 1
        BY <2>3
      <4> QED
        BY <1>5, <2>2, <2>3, <2>4, <4>1 DEF ListTimely
    <3>2. ASSUME NEW i \in 1 .. L + 1, NEW j \in 1 .. L + 1, i <= j
          PROVE  f.pending[i].close <= f.pending[j].close
      <4>1. CASE j \in 1 .. L
        <5>1. i \in 1 .. L
          BY <2>3, <3>2, <4>1
        <5> QED
          BY <1>5, <2>3, <2>4, <3>2, <4>1, <5>1 DEF ListTimely
      <4>2. CASE j = L + 1 /\ i \in 1 .. L
        BY <2>1, <2>4, <2>5, <4>2
      <4>3. CASE j = L + 1 /\ i = L + 1
        BY <1>1, <2>1, <2>4, <4>3
      <4> QED
        BY <2>3, <4>1, <4>2, <4>3
    <3> QED
      BY <2>4, <3>1, <3>2 DEF ListTimely
  <2>7. EventsTimely(h, f, at, S, D)
    BY <1>3, <1>5, <1>8 DEF EventsTimely
  <2> QED
    BY <1>4, <2>6, <2>7 DEF Timely, f
<1>9. ASSUME f.pending = t.pending, NEW emit, NEW rest,
             f.passes = t.passes \cup { Sighting(seg, p, close) : p \in emit },
             f.merged = t.merged \cup { Sighting(seg, p, close) : p \in rest }
      PROVE  Timely(h, f, at, S, D)
  <2>1. ListTimely(h, f, at, S, D)
    BY <1>5, <1>9 DEF ListTimely
  <2>2. \A p : ReadTimely(Sighting(seg, p, close), h, at, D)
    BY <1>1, <1>2, <1>7 DEF ReadTimely, Sighting, Unbroken
  <2>3. EventsTimely(h, f, at, S, D)
    BY <1>3, <1>5, <1>9, <2>2 DEF EventsTimely
  <2> QED
    BY <1>4, <2>1, <2>3 DEF Timely
<1> QED
  BY <1>3, <1>4, <1>8, <1>9 DEF f


(* Emitting the first k waiting misses: the burst has what the segment     *)
(* held, and from the buffer what a miss that is not due has still to get. *)
LEMMA FinalizeTimely ==
  ASSUME NEW g, NEW t, GateOK(g), IsTracker(t), NEW at \in Nat,
         NEW S \in SUBSET Nat, \A f \in S : f <= at, NEW D \in SUBSET Nat,
         Timely(g, t, at, S, D), NEW k \in 0 .. Len(t.pending),
         NEW b \in SUBSET Nat, b = Held(S, at, Horizon)
  PROVE  Timely(g, FinalizeFirst(t, k, b), at, S, D)
<1> DEFINE e == FinalizeFirst(t, k, b)
           L == Len(t.pending)
<1>1. L \in Nat /\ DOMAIN t.pending = 1 .. L /\ k \in 0 .. L
  BY TrackerFields
<1>3. /\ e.open = t.open /\ e.passes = t.passes /\ e.merged = t.merged
      /\ e.misses = t.misses \cup { Miss(t.pending[i], b) : i \in 1 .. k }
      /\ e.pending = SubSeq(t.pending, k + 1, L)
  BY FinalizeFirstType
<1>4. DOMAIN e.pending = 1 .. (L - k) /\ \A i \in 1 .. (L - k) : e.pending[i] = t.pending[i + k]
  <2>1. t.pending \in Seq(Waiting)
    BY TrackerFields
  <2> HIDE DEF e
  <2> QED
    BY <1>1, <1>3, <2>1
<1>5. \A i \in 1 .. (L - k) : i + k \in 1 .. L
  BY <1>1
<1>6. g.lastActive \in Nat /\ Since(g, at) \in Nat /\ Since(g, at) <= at
  BY DEF GateOK, GateType, Timely, GateTimely, Since
<1> HIDE DEF e, L
<1>7. ListTimely(g, e, at, S, D)
  <2>1. ListTimely(g, t, at, S, D)
    BY DEF Timely
  <2>2. \A i \in 1 .. (L - k) : WaitingTimely(e.pending[i], g, at, S, D)
    BY <1>1, <1>4, <1>5, <2>1 DEF ListTimely
  <2>3. ASSUME NEW i \in 1 .. (L - k), NEW j \in 1 .. (L - k), i <= j
        PROVE  e.pending[i].close <= e.pending[j].close
    <3>1. i + k <= j + k
      BY <1>1, <2>3
    <3> QED
      BY <1>1, <1>4, <1>5, <2>1, <3>1 DEF ListTimely
  <2> QED
    BY <1>4, <2>2, <2>3 DEF ListTimely
<1>8. ASSUME NEW i \in 1 .. k
      PROVE  MissTimely(Miss(t.pending[i], b), at, S, D)
  <2> DEFINE p == t.pending[i]
             m == Miss(p, b)
  <2>1. i \in 1 .. L
    BY <1>1
  <2>2. p \in Waiting /\ WaitingTimely(p, g, at, S, D)
    BY <1>1, <2>1, TrackerFields DEF Timely, ListTimely, L
  <2> HIDE DEF p
  <2>3. /\ m.open = p.open /\ m.close = p.close /\ m.evidence = p.evidence
        /\ m.frames = Range(p.evidence.frames)
                        \cup { f \in b : p.close < f /\ f <= p.close + PostRoll }
    BY <2>2, MissType
  <2>12. /\ p.evidence \in Reservoir
         /\ Fed(p) \in SUBSET Nat /\ Range(p.evidence.frames) \subseteq Fed(p)
         /\ \A f \in Fed(p) : f \in Range(p.evidence.frames) \/ Thinned(p.evidence, f)
    <3>1. p.evidence \in Reservoir
      BY <2>2 DEF Waiting
    <3>2. /\ Range(p.evidence.fed) \in SUBSET Nat
          /\ Range(p.evidence.frames) \subseteq Range(p.evidence.fed)
          /\ ~ (Len(p.evidence.fed) > ReservoirCap)
               => Range(p.evidence.frames) = Range(p.evidence.fed)
      BY <3>1, ReservoirShows
    <3> QED
      BY <3>1, <3>2 DEF Fed, Thinned
  <2> HIDE DEF m
  <2>4. PICK open \in Nat, close \in Nat, deadline \in Nat :
          /\ p.open = open /\ p.close = close /\ p.deadline = deadline
          /\ deadline = close + PostRoll
    BY <2>2 DEF Waiting, WaitingTimely
  <2>5. /\ open <= close /\ close <= at /\ Unbroken(D, open, at)
        /\ \A f \in Fed(p) : f <= at /\ f \in Nat
        /\ \A f \in S : close <= f => f \in Fed(p) \/ (close < f /\ at < deadline)
    BY <1>6, <2>2, <2>4, <2>12 DEF WaitingTimely, Waiting
  <2>6. \A from \in Nat, to \in Nat :
          open <= from /\ to <= at => Unbroken(D, from, to)
    BY <2>4, <2>5 DEF Unbroken
  <2>7. \A f \in m.frames : f <= at /\ f \in Nat
    <3>1. \A f \in b : f <= at /\ f \in Nat
      BY HeldInside
    <3> QED
      BY <2>3, <2>5, <2>12, <3>1
  <2>8. PICK horizon \in Nat : Horizon = horizon /\ PostRoll <= horizon
    BY HorizonType
  <2>9. ASSUME NEW f \in S, close <= f, f < close + PostRoll
        PROVE  Shown(m, f, S)
    <3>1. CASE f \in Fed(p)
      BY <2>3, <2>12, <3>1 DEF Shown
    <3>2. CASE f \notin Fed(p)
      <4>1. close < f /\ at < close + PostRoll
        BY <2>4, <2>5, <2>9, <3>2
      <4>2. f \in Nat /\ PostRoll \in Nat
        BY TrackerAssumption
      <4>3. f >= at - horizon /\ f <= close + PostRoll
        BY <2>8, <2>9, <4>1, <4>2
      <4>4. f \in b \/ Crowded(S, f, Horizon)
        BY <2>8, <4>3, FiniteFrames, HeldUnlessCrowded
      <4> QED
        BY <2>3, <2>4, <4>1, <4>3, <4>4 DEF Shown
    <3> QED
      BY <3>1, <3>2
  <2>10. \A f \in m.frames : f <= at /\ (close < f => Unbroken(D, close, f))
    BY <2>4, <2>5, <2>6, <2>7
  <2>11. Unbroken(D, open, close)
    BY <2>4, <2>5, <2>6
  <2> QED
    BY <2>3, <2>4, <2>5, <2>9, <2>10, <2>11 DEF MissTimely, p, m
<1>9. EventsTimely(g, e, at, S, D)
  BY <1>3, <1>8 DEF Timely, EventsTimely
<1> QED
  BY <1>3, <1>7, <1>9 DEF Timely, e

(* A boundary at the new frame breaks nothing that ended before it.        *)
LEMMA UnbrokenGoesOn ==
  ASSUME NEW at \in Nat, NEW ts \in Nat, at < ts,
         NEW D \in SUBSET Nat, \A d \in D : d <= at,
         NEW E \in SUBSET Nat, E \subseteq D \cup {ts}
  PROVE  /\ \A from, to \in Nat : to <= at /\ Unbroken(D, from, to) => Unbroken(E, from, to)
         /\ \A from \in Nat : ts \notin E /\ Unbroken(D, from, at) => Unbroken(E, from, ts)
<1>1. ASSUME NEW from \in Nat, NEW to \in Nat, to <= at, Unbroken(D, from, to)
      PROVE  Unbroken(E, from, to)
  <2>1. \A d \in E : d \in D \/ ~ (d <= to)
    BY <1>1
  <2> QED
    BY <1>1, <2>1 DEF Unbroken
<1>2. ASSUME NEW from \in Nat, ts \notin E, Unbroken(D, from, at)
      PROVE  Unbroken(E, from, ts)
  <2>1. \A d \in E : d \in D /\ d <= at
    BY <1>2
  <2> QED
    BY <1>2, <2>1 DEF Unbroken
<1> QED
  BY <1>1, <1>2

(* A frame: the clock advances to it, it becomes evidence of what is open, *)
(* and the misses that are due are emitted.                                *)
LEMMA AdvanceTimely ==
  ASSUME NEW g, NEW t, GateOK(g), IsTracker(t), NEW at \in Nat, NEW ts \in Nat, at < ts,
         NEW S \in SUBSET Nat, \A f \in S : f <= at,
         NEW D \in SUBSET Nat, \A d \in D : d <= at,
         NEW E \in SUBSET Nat, D \subseteq E, E \subseteq D \cup {ts},
         ts \in E => t.open = {} /\ t.pending = <<>> /\ g.activeStreak = 0,
         Timely(g, t, at, S, D), NEW b \in SUBSET Nat, b = Held(S, at, Horizon),
         \A m \in t.misses : Complete(m, at, D) \/ ts \in E
  PROVE  LET f == OnFrame(t, ts, b)
         IN  /\ Timely(g, f, ts, S \cup {ts}, E)
             /\ \A m \in f.misses : Complete(m, ts, E)
             /\ \A i \in DOMAIN t.pending : t.pending[i].deadline <= ts
                  => t.pending[i].id \in MissedIds(f)
<1> DEFINE f == OnFrame(t, ts, b)
           k == DueCount(t.pending, ts)
           v == FinalizeFirst(t, k, b)
           L == Len(t.pending)
<1>1. k \in 0 .. L /\ t.pending \in Seq(Waiting) /\ L \in Nat /\ DOMAIN t.pending = 1 .. L
  BY DueCountInRange, TrackerFields
<1>2. /\ v.open = t.open /\ v.passes = t.passes /\ v.merged = t.merged
      /\ v.misses = t.misses \cup { Miss(t.pending[i], b) : i \in 1 .. k }
      /\ v.pending = SubSeq(t.pending, k + 1, L) /\ IsTracker(v)
  BY <1>1, FinalizeFirstType
<1>3. Timely(g, v, at, S, D)
  BY <1>1, FinalizeTimely
<1>4. /\ f.open = { [ s EXCEPT !.evidence = AddFrame(@, ts) ] : s \in t.open }
      /\ f.pending = v.pending /\ f.misses = v.misses
      /\ f.passes = v.passes /\ f.merged = v.merged
  BY <1>2, OnFrameFields
<1>5. /\ \A i \in 1 .. k : t.pending[i].deadline <= ts
      /\ \A n \in 1 .. L : (\A i \in 1 .. n : t.pending[i].deadline <= ts) => n <= k
  BY <1>1, DueCountIsDue
<1> HIDE DEF f, k, v, L
<1>6. g.lastActive \in Nat /\ Since(g, at) \in Nat /\ Since(g, at) <= at
      /\ Since(g, ts) \in Nat /\ Since(g, at) <= Since(g, ts)
  BY DEF GateOK, GateType, Timely, GateTimely, Since
<1>7. \A from, to \in Nat : to <= at /\ Unbroken(D, from, to) => Unbroken(E, from, to)
  BY UnbrokenGoesOn
<1>8. \A from \in Nat : ts \notin E /\ Unbroken(D, from, at) => Unbroken(E, from, ts)
  BY UnbrokenGoesOn
(* Of the waiting misses, sorted by close, the due ones are a prefix.      *)
<1>9. ASSUME NEW i \in 1 .. L, t.pending[i].deadline <= ts
      PROVE  i \in 1 .. k
  <2>1. ASSUME NEW j \in 1 .. i
        PROVE  t.pending[j].deadline <= ts
    <3>1. j \in 1 .. L /\ j <= i
      BY <1>1
    <3>2. t.pending[i] \in Waiting /\ t.pending[j] \in Waiting
      BY <1>1, <3>1
    <3>3. /\ t.pending[j].close <= t.pending[i].close
          /\ t.pending[i].deadline = t.pending[i].close + PostRoll
          /\ t.pending[j].deadline = t.pending[j].close + PostRoll
      BY <1>1, <3>1 DEF Timely, ListTimely, WaitingTimely
    <3>4. PostRoll \in Nat /\ t.pending[i].close \in Nat /\ t.pending[j].close \in Nat
      BY <3>2, TrackerAssumption DEF Waiting
    <3> QED
      BY <1>9, <3>3, <3>4
  <2>2. i <= k
    BY <1>5, <2>1
  <2> QED
    BY <1>1, <2>2
<1>10. \A i \in DOMAIN t.pending : t.pending[i].deadline <= ts => t.pending[i].id \in MissedIds(f)
  <2>1. \A i \in 1 .. k : Miss(t.pending[i], b).id = t.pending[i].id
    BY DEF Miss
  <2> QED
    BY <1>1, <1>2, <1>4, <1>9, <2>1 DEF MissedIds
(* What is still waiting is not due.                                       *)
<1>11. ASSUME NEW i \in DOMAIN v.pending
       PROVE  ts < v.pending[i].deadline
  <2>1. i \in 1 .. (L - k) /\ v.pending[i] = t.pending[i + k]
    BY <1>1, <1>2
  <2>2. PICK j \in 1 .. L : j = i + k /\ j \notin 1 .. k
    BY <1>1, <2>1
  <2>3. ~ (t.pending[j].deadline <= ts)
    BY <1>9, <2>2
  <2>4. t.pending[j] \in Waiting
    BY <1>1
  <2> QED
    BY <2>1, <2>2, <2>3, <2>4 DEF Waiting
<1>12. GateTimely(g, ts, E)
  <2>1. g.backdate \in Nat
    BY DEF GateOK, GateType
  <2> QED
    BY <1>6, <1>8, <2>1 DEF Timely, GateTimely, GateOK, GateType
<1>13. ASSUME NEW s \in f.open
       PROVE  OpenTimely(s, g, ts, S \cup {ts}, E)
  <2>1. PICK o \in t.open : s = [ o EXCEPT !.evidence = AddFrame(@, ts) ]
    BY <1>4
  <2>2. o \in Segment /\ OpenTimely(o, g, at, S, D) /\ ts \notin E
    BY TrackerFields DEF Timely
  <2>3. s.open = o.open /\ Fed(s) = Fed(o) \cup {ts} /\ o.open \in Nat
    BY <2>1, <2>2, SegmentFed DEF Segment
  <2>4. \A x \in Fed(s) : x <= ts
    <3>1. \A x \in Fed(o) : x \in Nat /\ x <= at
      <4>1. o.evidence \in Reservoir
        BY <2>2 DEF Segment
      <4>2. Range(o.evidence.fed) \in SUBSET Nat
        BY <4>1, ReservoirShows
      <4> QED
        BY <2>2, <4>2 DEF Fed, OpenTimely
    <3> QED
      BY <2>3, <3>1
  <2> QED
    BY <1>6, <1>8, <2>2, <2>3, <2>4 DEF OpenTimely
<1>14. ASSUME NEW i \in DOMAIN v.pending
       PROVE  WaitingTimely(v.pending[i], g, ts, S \cup {ts}, E)
  <2>1. v.pending[i] \in Waiting /\ WaitingTimely(v.pending[i], g, at, S, D) /\ ts < v.pending[i].deadline
    BY <1>2, <1>3, <1>11, TrackerFields DEF Timely, ListTimely
  <2>2. ts \notin E
    <3> SUFFICES ASSUME ts \in E PROVE FALSE
      OBVIOUS
    <3>1. L = 0
      BY DEF L
    <3> QED
      BY <1>1, <1>2, <3>1
  <2>3. \A x \in Fed(v.pending[i]) : x \in Nat
    <3>1. v.pending[i].evidence \in Reservoir
      BY <2>1 DEF Waiting
    <3>2. Range(v.pending[i].evidence.fed) \in SUBSET Nat
      BY <3>1, ReservoirShows
    <3> QED
      BY <3>2 DEF Fed
  <2> QED
    BY <1>6, <1>8, <2>1, <2>2, <2>3 DEF WaitingTimely, Waiting
<1>15. ListTimely(g, f, ts, S \cup {ts}, E)
  BY <1>3, <1>4, <1>14 DEF Timely, ListTimely
<1>16. ASSUME NEW e \in v.passes \cup v.merged
       PROVE  ReadTimely(e, g, ts, E)
  <2>1. e.open \in Nat /\ e.close \in Nat /\ ReadTimely(e, g, at, D)
    BY <1>2, <1>3, TrackerFields DEF Timely, EventsTimely, Sighted
  <2> QED
    BY <1>6, <1>7, <2>1 DEF ReadTimely
<1>17. ASSUME NEW m \in v.misses
       PROVE  MissTimely(m, ts, S \cup {ts}, E) /\ Complete(m, ts, E)
  <2>1. m \in Lost /\ MissTimely(m, at, S, D)
    BY <1>2, <1>3, TrackerFields DEF Timely, EventsTimely
  <2>2. PICK open \in Nat, close \in Nat, frames \in SUBSET Nat :
          m.open = open /\ m.close = close /\ m.frames = frames
    BY <2>1 DEF Lost
  <2>3. close <= at
    BY <2>1, <2>2 DEF MissTimely
  <2>4. PostRoll \in Nat
    BY TrackerAssumption
  <2>7. \A x : Shown(m, x, S) => Shown(m, x, S \cup {ts})
    <3>1. IsFiniteSet(S \cup {ts})
      BY FiniteFrames, FS_AddElement
    <3>2. \A x : Crowded(S, x, Horizon) => Crowded(S \cup {ts}, x, Horizon)
      BY <3>1, CrowdedStays
    <3> QED
      BY <3>2 DEF Shown
  <2>8. \A x \in S : close <= x /\ x < close + PostRoll /\ Unbroken(D, close, x)
                     => Shown(m, x, S \cup {ts})
    BY <2>1, <2>2, <2>7 DEF MissTimely
  <2>10. close <= ts /\ \A x \in frames : x <= at => x <= ts
    BY <2>3
  <2>9. ASSUME NEW F, close <= ts, Unbroken(F, open, close),
               \A x \in frames : x <= ts /\ (close < x => Unbroken(F, close, x)),
               \A x \in S \cup {ts} : close <= x /\ x < close + PostRoll /\ Unbroken(F, close, x)
                                      => Shown(m, x, S \cup {ts})
        PROVE  MissTimely(m, ts, S \cup {ts}, F)
    BY <2>2, <2>9 DEF MissTimely
  <2>5. CASE ts \in E
    <3>1. Complete(m, ts, E)
      BY <2>2, <2>3, <2>5 DEF Complete
    <3>2. ~ Unbroken(E, close, ts)
      BY <2>3, <2>5 DEF Unbroken
    <3>3. Unbroken(E, open, close) /\ \A x \in frames : x <= at /\ (close < x => Unbroken(E, close, x))
      BY <1>7, <2>1, <2>2, <2>3 DEF MissTimely
    <3>4. \A x \in S : Unbroken(E, close, x) => Unbroken(D, close, x)
      BY DEF Unbroken
    <3>5. \A x \in S \cup {ts} : close <= x /\ x < close + PostRoll /\ Unbroken(E, close, x)
                                   => Shown(m, x, S \cup {ts})
      BY <2>8, <3>2, <3>4
    <3>6. close <= ts /\ \A x \in frames : x <= ts
      BY <2>10, <3>3
    <3> QED
      BY <2>2, <2>9, <3>1, <3>3, <3>5, <3>6
  <2>6. CASE ts \notin E
    <3>1. E = D
      BY <2>6
    <3>2. CASE m \in t.misses
      <4>1. Complete(m, at, D)
        BY <2>6, <3>2
      <4>2. Complete(m, ts, E) /\ (close + PostRoll <= at \/ ~ Unbroken(D, close, ts))
        BY <2>2, <2>4, <3>1, <4>1 DEF Complete, Unbroken
      <4>3. \A x \in S \cup {ts} : close <= x /\ x < close + PostRoll /\ Unbroken(D, close, x)
                                     => Shown(m, x, S \cup {ts})
        <5>1. ~ (ts < close + PostRoll /\ Unbroken(D, close, ts))
          BY <2>3, <2>4, <4>2
        <5> QED
          BY <2>8, <5>1
      <4>4. /\ Unbroken(D, open, close)
            /\ \A x \in frames : x <= at /\ (close < x => Unbroken(D, close, x))
        BY <2>1, <2>2 DEF MissTimely
      <4>5. close <= ts /\ \A x \in frames : x <= ts
        BY <2>10, <4>4
      <4> QED
        BY <2>9, <3>1, <4>2, <4>3, <4>4, <4>5
    <3>3. CASE m \notin t.misses
      <4>1. PICK i \in 1 .. k : m = Miss(t.pending[i], b)
        BY <1>2, <3>3
      <4>2. i \in 1 .. L
        BY <1>1
      <4>3. t.pending[i].deadline = t.pending[i].close + PostRoll /\ m.close = t.pending[i].close
        BY <1>1, <4>1, <4>2 DEF Timely, ListTimely, WaitingTimely, Miss
      <4>4. close + PostRoll <= ts
        BY <1>5, <2>2, <4>3
      <4>5. Complete(m, ts, E)
        BY <2>2, <4>4 DEF Complete
      <4>6. ~ (ts < close + PostRoll)
        BY <2>4, <4>4
      <4>7. /\ Unbroken(D, open, close)
            /\ \A x \in frames : x <= at /\ (close < x => Unbroken(D, close, x))
            /\ \A x \in S : close <= x /\ x < close + PostRoll /\ Unbroken(D, close, x)
                              => Shown(m, x, S \cup {ts})
        BY <2>1, <2>2, <2>8 DEF MissTimely
      <4>8. close <= ts /\ \A x \in frames : x <= ts
        BY <2>10, <4>7
      <4>9. \A x \in S \cup {ts} : close <= x /\ x < close + PostRoll /\ Unbroken(D, close, x)
                                     => Shown(m, x, S \cup {ts})
        BY <4>6, <4>7
      <4> QED
        BY <2>9, <3>1, <4>5, <4>7, <4>8, <4>9
    <3> QED
      BY <3>2, <3>3
  <2> QED
    BY <2>5, <2>6
<1>18. EventsTimely(g, f, ts, S \cup {ts}, E)
  BY <1>4, <1>16, <1>17 DEF EventsTimely
<1> QED
  BY <1>4, <1>10, <1>12, <1>13, <1>15, <1>17, <1>18 DEF Timely, f

(* The gate goes on without closing, and the tracker has not heard yet.    *)
LEMMA FollowTimely ==
  ASSUME NEW g, NEW h, NEW t, GateOK(g), GateOK(h), IsTracker(t),
         NEW at \in Nat, NEW S \in SUBSET Nat, NEW D \in SUBSET Nat,
         Timely(g, t, at, S, D), GateTimely(h, at, D),
         ~ Closes(g, h), g.lastActive <= h.lastActive,
         Opens(g, h) => h.lastActive = at
  PROVE  Timely(h, t, at, S, D) /\ Since(g, at) <= Since(h, at)
<1>1. g.lastActive \in Nat /\ h.lastActive \in Nat /\ g.lastActive <= at /\ h.lastActive <= at
  BY DEF GateOK, GateType, Timely, GateTimely
<1>2. Since(g, at) \in Nat /\ Since(h, at) \in Nat /\ Since(g, at) <= Since(h, at)
  BY <1>1 DEF Since, Closes, Opens
<1>3. ListTimely(h, t, at, S, D) /\ EventsTimely(h, t, at, S, D)
  BY <1>2, SinceGrows DEF Timely
<1>4. ASSUME NEW s \in t.open
      PROVE  OpenTimely(s, h, at, S, D)
  <2>1. OpenTimely(s, g, at, S, D) /\ s.open \in Nat
    BY TrackerFields DEF Timely, Segment
  <2>2. PICK o \in Nat, x \in Nat, y \in Nat :
          o = s.open /\ x = g.lastActive /\ y = h.lastActive
    BY <1>1, <2>1
  <2>3. o <= x /\ x <= y
    BY <2>1, <2>2 DEF OpenTimely
  <2>4. o <= y /\ \A f \in S : y <= f => x <= f
    <3>1. \A f \in Nat : y <= f => x <= f
      BY <2>3
    <3> QED
      BY <2>3, <3>1
  <2>5. s.open <= h.lastActive /\ \A f \in S : h.lastActive <= f => g.lastActive <= f
    BY <2>2, <2>4
  <2> QED
    BY <2>1, <2>5 DEF OpenTimely
<1> QED
  BY <1>2, <1>3, <1>4 DEF Timely

LEMMA OnDecodeTimely ==
  ASSUME NEW g, NEW t, IsTracker(t), NEW at, NEW S, NEW D,
         Timely(g, t, at, S, D), NEW id, NEW read
  PROVE  Timely(g, OnDecode(t, id, read), at, S, D)
<1> DEFINE f == OnDecode(t, id, read)
<1>1. /\ f.pending = t.pending /\ f.misses = t.misses
      /\ f.passes = t.passes /\ f.merged = t.merged
      /\ \A s \in f.open : \E o \in t.open :
           s.id = o.id /\ s.open = o.open /\ s.evidence = o.evidence
  BY OnDecodeFields
<1> HIDE DEF f
<1>2. \A s \in f.open : OpenTimely(s, g, at, S, D)
  BY <1>1 DEF Timely, OpenTimely, Fed
<1>3. ListTimely(g, f, at, S, D) /\ EventsTimely(g, f, at, S, D)
  BY <1>1 DEF Timely, ListTimely, EventsTimely
<1> QED
  BY <1>2, <1>3 DEF Timely, f

(* What is left of the frames b from a time on.                            *)
FromOn(b, from) == { x \in b : x >= from }

(* The segment a frame opens, with nothing else open: its pre-roll is what *)
(* the buffer has of it.                                                   *)
OpenEffect(t, f, id, open, b) ==
  /\ f.pending = t.pending /\ f.misses = t.misses /\ f.recent = t.recent
  /\ f.passes = t.passes /\ f.merged = t.merged
  /\ \A s \in f.open :
       s.id = id /\ s.open = open /\ Fed(s) = FromOn(b, open - PreRoll)

LEMMA OnSegmentOpenFields ==
  ASSUME NEW t, IsTracker(t), t.open = {}, NEW id, NEW open \in Nat,
         NEW b \in SUBSET Nat, IsFiniteSet(b)
  PROVE  OpenEffect(t, OnSegmentOpen(t, id, open, b), id, open, b)
<1>1. OnSegmentClose(t, id, open) = t
  BY DEF OnSegmentClose
<1> DEFINE seg == [ id |-> id, open |-> open,
                    reads    |-> [ p \in Payloads |-> 0 ],
                    evidence |-> PreRolled(b, open - PreRoll) ]
           f   == OnSegmentOpen(t, id, open, b)
<1>2. f = [ t EXCEPT !.open = @ \cup {seg} ]
  BY <1>1 DEF OnSegmentOpen
<1>3. seg.id = id /\ seg.open = open /\ Fed(seg) = FromOn(b, open - PreRoll)
  <2>1. open - PreRoll \in Int
    BY TrackerAssumption
  <2>2. Range(PreRolled(b, open - PreRoll).fed) = { x \in b : x >= open - PreRoll }
    BY <2>1, PreRolledType
  <2>3. seg.evidence = PreRolled(b, open - PreRoll)
    OBVIOUS
  <2> HIDE DEF seg
  <2>4. Fed(seg) = FromOn(b, open - PreRoll)
    BY <2>2, <2>3 DEF Fed, FromOn
  <2> QED
    BY <2>4 DEF seg
<1> HIDE DEF f, seg
<1>4. /\ f.pending = t.pending /\ f.misses = t.misses /\ f.recent = t.recent
      /\ f.passes = t.passes /\ f.merged = t.merged /\ f.open = t.open \cup {seg}
  BY <1>2 DEF IsTracker
<1> QED
  BY <1>3, <1>4 DEF f, OpenEffect

LEMMA OnSegmentOpenTimely ==
  ASSUME NEW h, NEW t, GateOK(h), IsTracker(t), t.open = {}, NEW at \in Nat,
         NEW S \in SUBSET Nat, at \in S, \A f \in S : f <= at, NEW D \in SUBSET Nat,
         Timely(h, t, at, S, D), NEW b \in SUBSET Nat, b = Held(S, at, Horizon),
         h.lastActive = at, NEW open \in Nat, open <= at, Unbroken(D, open, at), NEW id
  PROVE  Timely(h, OnSegmentOpen(t, id, open, b), at, S, D)
<1> DEFINE f == OnSegmentOpen(t, id, open, b)
<1>1. /\ f.pending = t.pending /\ f.misses = t.misses
      /\ f.passes = t.passes /\ f.merged = t.merged
      /\ \A s \in f.open :
           s.id = id /\ s.open = open /\ Fed(s) = FromOn(b, open - PreRoll)
  <2>1. IsFiniteSet(b)
    BY FiniteFrames, HeldInside, FiniteNewer
  <2>2. OpenEffect(t, OnSegmentOpen(t, id, open, b), id, open, b)
    BY <2>1, OnSegmentOpenFields
  <2> QED
    BY <2>2 DEF OpenEffect
<1> HIDE DEF f
<1>2. at \in b /\ \A x \in b : x \in S
  <2>1. Horizon \in Nat
    BY HorizonType
  <2>2. Newer(S, at) = {}
    <3>1. \A x \in S : ~ (at < x)
      OBVIOUS
    <3> QED
      BY <3>1 DEF Newer
  <2>3. Cardinality(Newer(S, at)) < MaxLen
    BY <2>2, FS_EmptySet, BufferAssumption
  <2> QED
    BY <2>1, <2>3 DEF Held
<1>3. at >= open - PreRoll
  BY TrackerAssumption
<1>4. ASSUME NEW s \in f.open
      PROVE  OpenTimely(s, h, at, S, D)
  <2>1. s.open = open /\ at \in Fed(s) /\ \A x \in Fed(s) : x \in S
    BY <1>1, <1>2, <1>3 DEF FromOn
  <2>2. \A x \in S : at <= x => x = at
    OBVIOUS
  <2>3. (\A x \in Fed(s) : x <= at) /\ (\A x \in S : at <= x => x \in Fed(s))
    BY <2>1, <2>2
  <2> QED
    BY <2>1, <2>3 DEF OpenTimely
<1>5. ListTimely(h, f, at, S, D) /\ EventsTimely(h, f, at, S, D)
  BY <1>1 DEF Timely, ListTimely, EventsTimely
<1> QED
  BY <1>4, <1>5 DEF Timely, f

-----------------------------------------------------------------------------
(* The dedup window.                                                       *)

(* The payload is still remembered, for this sighting or a later one.      *)
Remembered(r, p, when) == p \in DOMAIN r /\ when <= r[p]

(* From both sides, for the closes there have been: passes are apart from  *)
(* each other and from the seeds, merged sightings near one of them.       *)
Spaced(t, from) ==
  /\ \A a, b \in t.passes :
       a.payload = b.payload /\ a.close <= b.close /\ a # b => b.close - a.close > Window
  /\ \A a \in t.passes : a.payload \in DOMAIN from => a.close - from[a.payload] > Window
  /\ \A s \in t.merged :
       \/ \E a \in t.passes :
            a.payload = s.payload /\ a.close <= s.close /\ s.close - a.close <= Window
       \/ s.payload \in DOMAIN from /\ s.close - from[s.payload] <= Window

(* A pass or a seed is remembered, or so old that no close to come, none   *)
(* of which is before since, can be within the window of it; and what is   *)
(* remembered was emitted or seeded.                                       *)
WindowKept(t, from, since) ==
  /\ Spaced(t, from)
  /\ \A a \in t.passes :
       a.close <= since
         /\ (Remembered(t.recent, a.payload, a.close) \/ a.close + Window < since)
  /\ \A p \in DOMAIN from :
       Remembered(t.recent, p, from[p]) \/ from[p] + Window < since
  /\ \A p \in DOMAIN t.recent :
       \/ \E a \in t.passes : a.payload = p /\ a.close = t.recent[p]
       \/ p \in DOMAIN from /\ from[p] = t.recent[p]

LEMMA WindowLater ==
  ASSUME NEW t, IsTracker(t), NEW from, IsWindow(from), NEW since \in Nat, NEW later \in Nat,
         since <= later, WindowKept(t, from, since)
  PROVE  WindowKept(t, from, later)
<1>1. \A a \in t.passes : a.close \in Nat
  BY TrackerFields DEF Sighted
<1>2. Window \in Nat /\ \A p \in DOMAIN from : from[p] \in Int
  BY TrackerAssumption DEF IsWindow
<1>3. \A x \in Int : x + Window < since => x + Window < later
  BY <1>2
<1>4. \A a \in t.passes : a.close <= since => a.close <= later
  BY <1>1
<1> QED
  BY <1>1, <1>2, <1>3, <1>4 DEF WindowKept

LEMMA WindowUntouched ==
  ASSUME NEW t, NEW f, f.passes = t.passes, f.merged = t.merged, f.recent = t.recent,
         NEW from, NEW since, WindowKept(t, from, since)
  PROVE  WindowKept(f, from, since)
BY DEF WindowKept, Spaced

(* Closing a segment no earlier than any close before it.                  *)
LEMMA WindowClose ==
  ASSUME NEW t, IsTracker(t), NEW from, IsWindow(from), NEW close \in Nat, NEW id, NEW f,
         WindowKept(t, from, close), CloseEffect(t, f, id, close)
  PROVE  WindowKept(f, from, close)
<1>1. PICK seg \in t.open :
    /\ seg.id = id
    /\ f.open = { s \in t.open : s.id # id } /\ f.misses = t.misses
    /\ \/ /\ f.pending = Append(t.pending, PendingMiss(seg, close))
          /\ f.passes = t.passes /\ f.merged = t.merged /\ f.recent = t.recent
       \/ /\ f.pending = t.pending
          /\ \E emit \in SUBSET Payloads, rest \in SUBSET Payloads :
               /\ \A p \in emit : ~ IsRepeat(t, p, close)
               /\ \A p \in rest : IsRepeat(t, p, close)
               /\ f.passes = t.passes \cup { Sighting(seg, p, close) : p \in emit }
               /\ f.merged = t.merged \cup { Sighting(seg, p, close) : p \in rest }
               /\ f.recent = Refresh(t.recent, emit, close)
  BY DEF CloseEffect
<1>2. CASE f.passes = t.passes /\ f.merged = t.merged /\ f.recent = t.recent
  BY <1>2, WindowUntouched
<1>3. ASSUME NEW emit \in SUBSET Payloads, NEW rest \in SUBSET Payloads,
             \A p \in emit : ~ IsRepeat(t, p, close),
             \A p \in rest : IsRepeat(t, p, close),
             f.passes = t.passes \cup { Sighting(seg, p, close) : p \in emit },
             f.merged = t.merged \cup { Sighting(seg, p, close) : p \in rest },
             f.recent = Refresh(t.recent, emit, close)
      PROVE  WindowKept(f, from, close)
  <2>1. PICK W \in Nat : W = Window
    BY TrackerAssumption
  <2>2. /\ \A a \in t.passes \cup t.merged : a.close \in Nat
        /\ \A p \in DOMAIN t.recent : t.recent[p] \in Int
        /\ \A p \in DOMAIN from : from[p] \in Int
    <3>1. t.passes \subseteq Sighted /\ t.merged \subseteq Sighted /\ IsWindow(t.recent)
      BY TrackerFields
    <3>2. \A a \in Sighted : a.close \in Nat
      BY DEF Sighted
    <3> QED
      BY <3>1, <3>2 DEF IsWindow
  <2>3. \A p : /\ Sighting(seg, p, close).payload = p
               /\ Sighting(seg, p, close).close = close
    BY DEF Sighting
  <2>4. \A x \in t.passes : x.close <= close
          /\ (Remembered(t.recent, x.payload, x.close) \/ x.close + W < close)
    BY <2>1 DEF WindowKept
  <2>5. \A p \in DOMAIN from : Remembered(t.recent, p, from[p]) \/ from[p] + W < close
    BY <2>1 DEF WindowKept
(* An emitted payload is apart from whatever the window has ever known.    *)
  <2>6. \A p \in emit : p \in DOMAIN t.recent => close - t.recent[p] > W
    BY <1>3, <2>1, <2>2 DEF IsRepeat
  <2>7. \A p \in emit : \A x \in t.passes : x.payload = p => close - x.close > W
    BY <2>2, <2>4, <2>6 DEF Remembered
  <2>8. \A p \in emit : p \in DOMAIN from => close - from[p] > W
    BY <2>2, <2>5, <2>6 DEF Remembered
  <2>9. Spaced(f, from)
    <3>1. ASSUME NEW a \in f.passes, NEW b \in f.passes,
                 a.payload = b.payload, a.close <= b.close, a # b
          PROVE  b.close - a.close > Window
      <4>1. CASE a \in t.passes /\ b \in t.passes
        BY <3>1, <4>1 DEF WindowKept, Spaced
      <4>2. CASE b \notin t.passes
        <5>1. PICK p \in emit : b = Sighting(seg, p, close)
          BY <1>3, <4>2
        <5>2. a \in t.passes
          BY <1>3, <2>3, <3>1, <5>1
        <5> QED
          BY <2>1, <2>3, <2>7, <3>1, <5>1, <5>2
      <4>3. CASE a \notin t.passes /\ b \in t.passes
        <5>1. PICK p \in emit : a = Sighting(seg, p, close)
          BY <1>3, <4>3
        <5>2. close - b.close > W /\ close <= b.close /\ b.close \in Nat
          BY <2>2, <2>3, <2>7, <3>1, <4>3, <5>1
        <5> QED
          BY <5>2
      <4> QED
        BY <4>1, <4>2, <4>3
    <3>2. ASSUME NEW a \in f.passes, a.payload \in DOMAIN from
          PROVE  a.close - from[a.payload] > Window
      <4>1. CASE a \in t.passes
        BY <3>2, <4>1 DEF WindowKept, Spaced
      <4>2. CASE a \notin t.passes
        BY <1>3, <2>1, <2>3, <2>8, <3>2, <4>2
      <4> QED
        BY <4>1, <4>2
    <3>3. ASSUME NEW s \in f.merged
          PROVE  \/ \E a \in f.passes : a.payload = s.payload /\ a.close <= s.close
                                          /\ s.close - a.close <= Window
                 \/ s.payload \in DOMAIN from /\ s.close - from[s.payload] <= Window
      <4>1. CASE s \in t.merged
        BY <1>3, <4>1 DEF WindowKept, Spaced
      <4>2. CASE s \notin t.merged
        <5>1. PICK p \in rest : s = Sighting(seg, p, close)
          BY <1>3, <4>2
        <5>2. p \in DOMAIN t.recent /\ close - t.recent[p] <= Window
          BY <1>3 DEF IsRepeat
        <5>3. \/ \E a \in t.passes : a.payload = p /\ a.close = t.recent[p]
              \/ p \in DOMAIN from /\ from[p] = t.recent[p]
          BY <5>2 DEF WindowKept
        <5>4. CASE \E a \in t.passes : a.payload = p /\ a.close = t.recent[p]
          BY <1>3, <2>3, <2>4, <5>1, <5>2, <5>4
        <5> QED
          BY <2>3, <5>1, <5>2, <5>3, <5>4
      <4> QED
        BY <4>1, <4>2
    <3> QED
      BY <3>1, <3>2, <3>3 DEF Spaced
(* An entry is overwritten by a later one, or dropped when it is too old.  *)
  <2>10. /\ DOMAIN f.recent = { q \in DOMAIN t.recent \cup emit :
                                  q \in emit \/ t.recent[q] >= close - W }
         /\ \A p \in DOMAIN f.recent : f.recent[p] = IF p \in emit THEN close ELSE t.recent[p]
    BY <1>3, <2>1 DEF Refresh
  <2>11. \A p : \A x \in Int : Remembered(t.recent, p, x) /\ x <= close
                             => Remembered(f.recent, p, x) \/ x + W < close
    <3> SUFFICES ASSUME NEW p, NEW x \in Int, Remembered(t.recent, p, x), x <= close
                 PROVE  Remembered(f.recent, p, x) \/ x + W < close
      OBVIOUS
    <3>1. p \in DOMAIN t.recent /\ x <= t.recent[p] /\ t.recent[p] \in Int
      BY <2>2 DEF Remembered
    <3>2. CASE p \in emit
      BY <2>10, <3>2 DEF Remembered
    <3>3. CASE p \notin emit /\ t.recent[p] >= close - W
      BY <2>10, <3>1, <3>3 DEF Remembered
    <3>4. CASE t.recent[p] < close - W
      BY <3>1, <3>4
    <3> QED
      BY <3>1, <3>2, <3>3, <3>4
  <2>12. ASSUME NEW a \in f.passes
         PROVE  a.close <= close
                  /\ (Remembered(f.recent, a.payload, a.close) \/ a.close + Window < close)
    <3>1. CASE a \in t.passes
      BY <2>1, <2>2, <2>4, <2>11, <3>1
    <3>2. CASE a \notin t.passes
      <4>1. PICK p \in emit : a = Sighting(seg, p, close)
        BY <1>3, <3>2
      <4> QED
        BY <2>3, <2>10, <4>1 DEF Remembered
    <3> QED
      BY <3>1, <3>2
  <2>13. ASSUME NEW p \in DOMAIN from
         PROVE  Remembered(f.recent, p, from[p]) \/ from[p] + Window < close
    <3>1. from[p] \in Int /\ (Remembered(t.recent, p, from[p]) \/ from[p] + W < close)
      BY <2>2, <2>5
    <3>2. CASE from[p] <= close
      BY <2>1, <2>11, <3>1, <3>2
    <3>3. CASE p \in emit
      BY <2>1, <2>2, <2>8, <3>1, <3>3
    <3>4. CASE close < from[p] /\ p \notin emit
      BY <2>1, <2>2, <2>10, <3>1, <3>4 DEF Remembered
    <3> QED
      BY <3>1, <3>2, <3>3, <3>4
  <2>14. ASSUME NEW p \in DOMAIN f.recent
         PROVE  \/ \E a \in f.passes : a.payload = p /\ a.close = f.recent[p]
                \/ p \in DOMAIN from /\ from[p] = f.recent[p]
    <3>1. CASE p \in emit
      BY <1>3, <2>3, <2>10, <3>1
    <3>2. CASE p \notin emit
      BY <1>3, <2>10, <3>2 DEF WindowKept
    <3> QED
      BY <3>1, <3>2
  <2> QED
    BY <2>9, <2>12, <2>13, <2>14 DEF WindowKept
<1> QED
  BY <1>1, <1>2, <1>3

-----------------------------------------------------------------------------
(* The invariant of the pipeline.                                          *)

TimesInv ==
  /\ \A f \in seen \cup marks : f <= now
  /\ buffer = Held(seen, now, Horizon)
  /\ Timely(gate, tracker, now, seen, marks)
  /\ done \/ \A m \in tracker.misses : Complete(m, now, marks)
  /\ WindowKept(tracker, seeds, Since(gate, now))

LEMMA InitTimes == Init => TimesInv
<1> SUFFICES ASSUME Init PROVE TimesInv
  OBVIOUS
<1>1. /\ tracker.open = {} /\ tracker.pending = <<>> /\ tracker.recent = seeds
      /\ tracker.passes = {} /\ tracker.merged = {} /\ tracker.misses = {}
  BY DEF Init, NewTracker
<1>2. gate.lastActive = 0 /\ gate.activeStreak = 0 /\ ~ IsOpen(gate)
  BY DEF Init, NewGate, IsOpen, NoSegment
<1>3. seen = {} /\ marks = {} /\ buffer = {} /\ now = 0
  BY DEF Init
<1>4. buffer = Held(seen, now, Horizon)
  BY <1>3 DEF Held
<1>5. Timely(gate, tracker, now, seen, marks)
  BY <1>1, <1>2, <1>3 DEF Timely, GateTimely, ListTimely, EventsTimely
<1>6. Since(gate, now) = 0
  BY <1>2, <1>3 DEF Since
<1>7. IsWindow(seeds) /\ \A p \in DOMAIN seeds : seeds[p] <= 0
  BY PipelineAssumption DEF Init
<1>8. WindowKept(tracker, seeds, Since(gate, now))
  <2>1. \A p \in DOMAIN seeds : seeds[p] <= seeds[p]
    BY <1>7 DEF IsWindow
  <2> QED
    BY <1>1, <2>1 DEF WindowKept, Spaced, Remembered
<1> QED
  BY <1>1, <1>3, <1>4, <1>5, <1>8 DEF TimesInv

(* Closing what the gate closes, or nothing.                               *)
LEMMA CloseIfClosedTimely ==
  ASSUME NEW g, NEW h, NEW t, Consistent(g, t), GateOK(h),
         NEW at \in Nat, NEW S \in SUBSET Nat, NEW D \in SUBSET Nat,
         Timely(g, t, at, S, D), GateTimely(h, at, D), ~ IsOpen(h),
         NEW from, IsWindow(from), WindowKept(t, from, Since(g, at))
  PROVE  LET f == CloseIfClosed(t, g, h)
         IN  /\ f.open = {} /\ Timely(h, f, at, S, D)
             /\ WindowKept(f, from, Since(h, at))
<1> DEFINE f == CloseIfClosed(t, g, h)
<1>1. GateOK(g) /\ IsTracker(t) /\ Agrees(g, t)
  BY DEF Consistent, Accounted
<1>2. Since(h, at) = at /\ Since(g, at) \in Nat /\ Since(g, at) <= at
  BY <1>1 DEF Since, GateOK, GateType, Timely, GateTimely
<1>3. CASE IsOpen(g)
  <2>1. Closes(g, h) /\ OpenIds(t) = {g.openId} /\ Since(g, at) = g.lastActive
    BY <1>1, <1>3 DEF Closes, Agrees, Since
  <2>2. f = OnSegmentClose(t, g.openId, g.lastActive)
    BY <2>1 DEF CloseIfClosed
  <2> HIDE DEF f
  <2>3. f.open = {} /\ Timely(h, f, at, S, D)
    BY <1>1, <2>1, <2>2, CloseTimely
  <2>4. CloseEffect(t, f, g.openId, g.lastActive)
    <3>1. g.openId \in OpenIds(t) /\ g.lastActive \in Nat
      BY <1>2, <2>1
    <3> QED
      BY <1>1, <2>2, <3>1, OnSegmentCloseEffect
  <2>5. WindowKept(f, from, Since(g, at))
    BY <1>1, <1>2, <2>1, <2>4, WindowClose
  <2>6. IsTracker(f)
    <3>1. g.segmentCount \in Nat /\ g.lastActive \in Nat
      BY <1>1 DEF GateOK, GateType
    <3> QED
      BY <2>2, <3>1, OnSegmentCloseAccounts DEF Consistent, Accounted
  <2>7. WindowKept(f, from, at)
    BY <1>2, <2>5, <2>6, WindowLater
  <2> QED
    BY <1>2, <2>3, <2>7 DEF f
<1>4. CASE ~ IsOpen(g)
  <2>1. f = t /\ OpenIds(t) = {} /\ Since(g, at) = at
    BY <1>1, <1>4 DEF CloseIfClosed, Closes, Agrees, Since
  <2>2. t.open = {}
    BY <2>1 DEF OpenIds
  <2>3. Timely(h, t, at, S, D)
    BY <1>2, <2>1, <2>2, <1>1, SinceGrows DEF Timely
  <2> QED
    BY <1>2, <2>1, <2>2, <2>3
<1> QED
  BY <1>3, <1>4

(* Emitting whatever is waiting.                                           *)
LEMMA FlushPendingTimely ==
  ASSUME NEW g, NEW t, GateOK(g), IsTracker(t), NEW at \in Nat,
         NEW S \in SUBSET Nat, \A f \in S : f <= at, NEW D \in SUBSET Nat,
         Timely(g, t, at, S, D), NEW b \in SUBSET Nat, b = Held(S, at, Horizon),
         NEW from, NEW since, WindowKept(t, from, since)
  PROVE  LET f == FlushPending(t, b)
         IN  /\ f.open = t.open /\ f.pending = <<>>
             /\ Timely(g, f, at, S, D) /\ WindowKept(f, from, since)
<1> DEFINE k == Len(t.pending)
           f == FinalizeFirst(t, k, b)
<1>1. k \in 0 .. Len(t.pending) /\ t.pending \in Seq(Waiting)
  BY TrackerFields
<1>2. /\ f.open = t.open /\ f.recent = t.recent
      /\ f.passes = t.passes /\ f.merged = t.merged
      /\ f.pending = SubSeq(t.pending, k + 1, Len(t.pending))
  BY <1>1, FinalizeFirstType
<1>3. SubSeq(t.pending, k + 1, Len(t.pending)) = <<>>
  BY <1>1
<1>4. Timely(g, f, at, S, D)
  BY <1>1, FinalizeTimely
<1> HIDE DEF f
<1>5. WindowKept(f, from, since)
  BY <1>2, WindowUntouched
<1> QED
  BY <1>2, <1>3, <1>4, <1>5 DEF f, FlushPending

(* A marked frame leaves nothing open, waiting or half counted behind.     *)
LEMMA AtBoundaryTimely ==
  ASSUME IInv, TimesInv, ~ done, NEW mark
  PROVE  LET at == AtBoundary(mark)
         IN  /\ Timely(at.gate, at.tracker, now, seen, marks)
             /\ WindowKept(at.tracker, seeds, Since(at.gate, now))
             /\ mark => at.tracker.open = {} /\ at.tracker.pending = <<>>
                          /\ at.gate.activeStreak = 0
             /\ ~ mark => at.gate = gate /\ at.tracker = tracker
<1> DEFINE broken == BreakSegment(gate)
           closed == CloseIfClosed(tracker, gate, broken)
           at     == AtBoundary(mark)
<1>1. CASE mark
  <2>0. /\ Consistent(gate, tracker) /\ GateOK(gate)
        /\ now \in Nat /\ seen \in SUBSET Nat /\ marks \in SUBSET Nat /\ buffer \in SUBSET Nat
        /\ IsWindow(seeds)
    BY DEF IInv, TypeOK, Consistent
  <2>1. /\ GateOK(broken) /\ ~ IsOpen(broken) /\ GateTimely(broken, now, marks)
        /\ broken.activeStreak = 0 /\ broken.segmentCount = gate.segmentCount
    BY <2>0, BreakGate, BreakGateTimely
  <2>2. at.gate = broken /\ at.tracker = FlushPending(closed, buffer)
    BY <1>1 DEF AtBoundary
  <2>3. Consistent(broken, closed)
    BY <2>0, <2>1, CloseIfClosedConsistent
  <2> HIDE DEF at, broken
  <2>4. /\ closed.open = {} /\ Timely(broken, closed, now, seen, marks)
        /\ WindowKept(closed, seeds, Since(broken, now))
    BY <2>0, <2>1, CloseIfClosedTimely DEF TimesInv
  <2> HIDE DEF closed
  <2>5. LET f == FlushPending(closed, buffer)
        IN  /\ f.open = closed.open /\ f.pending = <<>>
            /\ Timely(broken, f, now, seen, marks)
            /\ WindowKept(f, seeds, Since(broken, now))
    <3>1. GateOK(broken) /\ IsTracker(closed) /\ buffer = Held(seen, now, Horizon) /\ \A f \in seen : f <= now
      BY <2>3 DEF Consistent, Accounted, TimesInv
    <3> HIDE DEF TimesInv, IInv
    <3>2. /\ FlushPending(closed, buffer).open = closed.open
          /\ FlushPending(closed, buffer).pending = <<>>
      BY <2>0, <2>4, <3>1, FlushPendingTimely
    <3>3. Timely(broken, FlushPending(closed, buffer), now, seen, marks)
      BY <2>0, <2>4, <3>1, FlushPendingTimely
    <3>4. WindowKept(FlushPending(closed, buffer), seeds, Since(broken, now))
      BY <2>0, <2>4, <3>1, FlushPendingTimely
    <3> QED
      BY <3>2, <3>3, <3>4
  <2> QED
    BY <1>1, <2>1, <2>2, <2>4, <2>5 DEF at
<1>2. CASE ~ mark
  <2>1. at.gate = gate /\ at.tracker = tracker
    BY <1>2 DEF AtBoundary
  <2> QED
    BY <1>2, <2>1 DEF TimesInv
<1> QED
  BY <1>1, <1>2

(* Whatever else a step does, the misses it adds are waiting ones with     *)
(* what the buffer has of their post-roll.                                 *)
OnlyMisses(t, f, b) ==
  \A m \in f.misses \ t.misses : \E w \in Waiting : m = Miss(w, b)

LEMMA FinalizeFirstOnly ==
  ASSUME NEW t, IsTracker(t), NEW k \in 0 .. Len(t.pending), NEW b \in SUBSET Nat
  PROVE  OnlyMisses(t, FinalizeFirst(t, k, b), b)
<1>1. FinalizeFirst(t, k, b).misses = t.misses \cup { Miss(t.pending[i], b) : i \in 1 .. k }
  BY FinalizeFirstType
<1>2. \A i \in 1 .. k : t.pending[i] \in Waiting
  BY TrackerFields
<1> QED
  BY <1>1, <1>2 DEF OnlyMisses

LEMMA CloseIfClosedMisses ==
  ASSUME NEW g, NEW h, NEW t, Consistent(g, t)
  PROVE  CloseIfClosed(t, g, h).misses = t.misses
<1>1. CASE Closes(g, h)
  <2>1. g.openId \in OpenIds(t) /\ g.lastActive \in Nat /\ IsTracker(t)
    BY <1>1 DEF Closes, Consistent, Agrees, Accounted, GateOK, GateType
  <2>2. CloseEffect(t, OnSegmentClose(t, g.openId, g.lastActive), g.openId, g.lastActive)
    BY <2>1, OnSegmentCloseEffect
  <2> QED
    BY <1>1, <2>2 DEF CloseEffect, CloseIfClosed
<1>2. CASE ~ Closes(g, h)
  BY <1>2 DEF CloseIfClosed
<1> QED
  BY <1>1, <1>2

LEMMA CloseAndFlushOnly ==
  ASSUME IInv, NEW h, GateOK(h), ~ IsOpen(h), h.segmentCount = gate.segmentCount
  PROVE  OnlyMisses(tracker, FlushPending(CloseIfClosed(tracker, gate, h), buffer), buffer)
<1> DEFINE closed == CloseIfClosed(tracker, gate, h)
<1>1. Consistent(gate, tracker) /\ buffer \in SUBSET Nat
  BY DEF IInv, TypeOK
<1>2. closed.misses = tracker.misses
  BY <1>1, CloseIfClosedMisses
<1>3. IsTracker(closed)
  BY <1>1, CloseIfClosedConsistent DEF Consistent, Accounted
<1> HIDE DEF closed
<1>4. Len(closed.pending) \in 0 .. Len(closed.pending)
  BY <1>3, TrackerFields
<1>5. OnlyMisses(closed, FlushPending(closed, buffer), buffer)
  BY <1>1, <1>3, <1>4, FinalizeFirstOnly DEF FlushPending
<1> QED
  BY <1>2, <1>5 DEF OnlyMisses, closed

LEMMA AtBoundaryOnly ==
  ASSUME IInv, NEW mark
  PROVE  OnlyMisses(tracker, AtBoundary(mark).tracker, buffer)
<1>1. CASE mark
  <2>1. /\ GateOK(BreakSegment(gate)) /\ ~ IsOpen(BreakSegment(gate))
        /\ BreakSegment(gate).segmentCount = gate.segmentCount
    BY BreakGate DEF IInv, Consistent
  <2>2. AtBoundary(mark).tracker =
          FlushPending(CloseIfClosed(tracker, gate, BreakSegment(gate)), buffer)
    BY <1>1 DEF AtBoundary
  <2> QED
    BY <2>1, <2>2, CloseAndFlushOnly
<1>2. CASE ~ mark
  BY <1>2 DEF AtBoundary, OnlyMisses
<1> QED
  BY <1>1, <1>2

(* One frame, however far its processing gets.                             *)
LEMMA ProcessFrameTimely ==
  ASSUME IInv, TimesInv, NEW step \in Nat \ {0}, NEW mark, NEW moving,
         NEW read, NEW fault, ProcessFrame(step, mark, moving, read, fault)
  PROVE  /\ TimesInv'
         /\ \A s \in tracker'.open : s.id \notin OpenIds(tracker) => PreRollShown(s)'
         /\ \A i \in DOMAIN tracker.pending :
              tracker.pending[i].deadline <= now' => tracker.pending[i].id \in MissedIds(tracker')
         /\ OnlyMisses(tracker, tracker', buffer)
<1> DEFINE ts      == now + step
           at      == AtBoundary(mark)
           g       == at.gate
           t       == at.tracker
           clocked == AdvanceClock(t, ts)
           filled  == Buffered(buffer, ts)
           after   == Update(g, ts, moving)
           opened  == OpenIfOpened(clocked, g, after, filled)
           decoded == DecodeIfActive(opened, g, after, moving, read)
           S       == seen \cup {ts}
           E       == IF mark THEN marks \cup {ts} ELSE marks
<1>1. /\ now \in Nat /\ seen \in SUBSET Nat /\ marks \in SUBSET Nat
      /\ buffer \in SUBSET Nat /\ IsWindow(seeds) /\ gate.segmentCount \in Nat
  BY DEF IInv, TypeOK, GateType
<1>2. ts \in Nat /\ now < ts
  BY <1>1
<1>3. /\ now' = ts /\ seen' = S /\ marks' = E /\ buffer' = filled /\ seeds' = seeds
      /\ ~ done /\ done' = done
  BY DEF ProcessFrame
<1>4. \/ fault = "gate" /\ gate' = g /\ tracker' = clocked
      \/ fault = "decode" /\ IsActive(g, moving) /\ gate' = after /\ tracker' = opened
      \/ fault = "none" /\ gate' = after /\ tracker' = CloseIfClosed(decoded, g, after)
  BY DEF ProcessFrame
<1>5. clocked = OnFrame(t, ts, buffer)
  BY DEF AdvanceClock
<1>6. /\ Consistent(g, t) /\ Settles(tracker, t) /\ g.segmentCount = gate.segmentCount
  BY AtBoundaryConsistent
<1>7. /\ Timely(g, t, now, seen, marks) /\ WindowKept(t, seeds, Since(g, now))
      /\ mark => t.open = {} /\ t.pending = <<>> /\ g.activeStreak = 0
      /\ ~ mark => g = gate /\ t = tracker
  BY <1>3, AtBoundaryTimely
<1>8. /\ marks \subseteq E /\ E \subseteq marks \cup {ts} /\ E \in SUBSET Nat
      /\ S \in SUBSET Nat /\ ts \in S
  BY <1>1, <1>2
<1>9. /\ \A f \in seen : f <= now
      /\ \A d \in marks : d <= now
      /\ buffer = Held(seen, now, Horizon)
  BY DEF TimesInv
<1>10. ts \in E <=> mark
  BY <1>1, <1>2, <1>9
(* The frame enters the buffer, and what is over the horizon leaves it.    *)
<1>11. filled = Held(S, ts, Horizon)
  <2>1. IsFiniteSet(seen)
    BY <1>1, <1>9, FiniteFrames
  <2>2. \A f \in seen : f < ts
    BY <1>1, <1>2, <1>9
  <2>3. filled = Appended(Held(seen, now, Horizon), ts, Horizon)
    BY <1>9 DEF Buffered
  <2> HIDE DEF ts, filled
  <2>4. now <= ts /\ Horizon \in Nat
    BY <1>1, <1>2, HorizonType
  <2> QED
    BY <1>1, <1>2, <2>1, <2>2, <2>3, <2>4, HeldGoesOn
<1> HIDE DEF ts, at, g, t, clocked, filled, S, E
(* The boundary and the clock.                                             *)
<1>12. GateOK(g) /\ IsTracker(t) /\ g.segmentCount \in Nat
  BY <1>1, <1>6 DEF Consistent, Accounted
<1>13. /\ Timely(g, clocked, ts, S, E)
       /\ \A m \in clocked.misses : Complete(m, ts, E)
       /\ \A i \in DOMAIN t.pending : t.pending[i].deadline <= ts
            => t.pending[i].id \in MissedIds(clocked)
  <2>1. ts \in E => t.open = {} /\ t.pending = <<>> /\ g.activeStreak = 0
    BY <1>7, <1>10
  <2>2. \A m \in t.misses : Complete(m, now, marks) \/ ts \in E
    BY <1>3, <1>7, <1>10 DEF TimesInv
  <2>3. LET f == OnFrame(t, ts, buffer)
        IN  /\ Timely(g, f, ts, seen \cup {ts}, E)
            /\ \A m \in f.misses : Complete(m, ts, E)
            /\ \A i \in DOMAIN t.pending : t.pending[i].deadline <= ts
                 => t.pending[i].id \in MissedIds(f)
    BY <1>1, <1>2, <1>7, <1>8, <1>9, <1>12, <2>1, <2>2, AdvanceTimely
  <2> QED
    BY <1>5, <2>3 DEF S
<1>14. /\ clocked.passes = t.passes /\ clocked.merged = t.merged /\ clocked.recent = t.recent
       /\ clocked.open = { [ s EXCEPT !.evidence = AddFrame(@, ts) ] : s \in t.open }
  BY <1>1, <1>2, <1>5, <1>12, OnFrameFields
<1>15. Consistent(g, clocked) /\ Settles(t, clocked) /\ IsTracker(clocked)
  BY <1>1, <1>2, <1>5, <1>6, OnFrameAccounts DEF Consistent, Accounted, Agrees
<1>16. Since(g, now) \in Nat /\ Since(g, ts) \in Nat /\ Since(g, now) <= Since(g, ts)
  BY <1>1, <1>2, <1>7, <1>12 DEF Since, GateOK, GateType, Timely, GateTimely
<1>17. WindowKept(clocked, seeds, Since(g, ts))
  <2>1. WindowKept(clocked, seeds, Since(g, now))
    BY <1>7, <1>14, WindowUntouched
  <2> QED
    BY <1>1, <1>15, <1>16, <2>1, WindowLater
(* The gate.                                                               *)
<1>18. /\ GateOK(after) /\ GateTimely(after, ts, E) /\ g.lastActive <= after.lastActive
       /\ Closes(g, after) => after.lastActive = g.lastActive /\ ~ IsActive(g, moving)
       /\ Opens(g, after) => after.lastActive = ts /\ after.backdate <= ts
                               /\ Unbroken(E, after.backdate, ts)
  BY <1>2, <1>8, <1>12, <1>13, UpdateGate, UpdateTimely DEF Timely
<1> HIDE DEF after
<1>19. after.backdate \in Nat /\ after.lastActive \in Nat
  BY <1>18 DEF GateOK, GateType
<1>20. \A f \in S : f <= ts
  BY <1>1, <1>2, <1>9 DEF S
<1>21. filled \in SUBSET Nat /\ IsFiniteSet(filled) /\ IsFiniteSet(S)
  <2>1. IsFiniteSet(S) /\ filled \in SUBSET S
    BY <1>2, <1>8, <1>11, <1>20, FiniteFrames, HeldInside
  <2> QED
    BY <1>8, <2>1, FiniteNewer
(* A new segment holds its pre-roll and this frame.                        *)
<1>22. Opens(g, after) => clocked.open = {}
  BY <1>15 DEF Opens, Consistent, Agrees, OpenIds
<1>23. /\ opened.passes = clocked.passes /\ opened.merged = clocked.merged
       /\ opened.recent = clocked.recent /\ opened.misses = clocked.misses
       /\ ~ Opens(g, after) => opened = clocked
       /\ Opens(g, after) => \A s \in opened.open : /\ s.open = after.backdate
                               /\ Fed(s) = FromOn(filled, after.backdate - PreRoll)
  <2>1. CASE Opens(g, after)
    <3>1. opened = OnSegmentOpen(clocked, after.openId, after.backdate, filled)
      BY <2>1 DEF OpenIfOpened
    <3> HIDE DEF opened
    <3>2. OpenEffect(clocked, opened, after.openId, after.backdate, filled)
      BY <1>15, <1>19, <1>21, <1>22, <2>1, <3>1, OnSegmentOpenFields
    <3> QED
      BY <2>1, <3>2 DEF OpenEffect
  <2>2. CASE ~ Opens(g, after)
    BY <2>2 DEF OpenIfOpened
  <2> QED
    BY <2>1, <2>2
<1>24. ~ Closes(g, after) =>
         /\ Timely(after, opened, ts, S, E) /\ WindowKept(opened, seeds, Since(after, ts))
  <2> SUFFICES ASSUME ~ Closes(g, after)
               PROVE  Timely(after, opened, ts, S, E) /\ WindowKept(opened, seeds, Since(after, ts))
    OBVIOUS
  <2>1. Timely(after, clocked, ts, S, E) /\ Since(g, ts) <= Since(after, ts)
    BY <1>2, <1>8, <1>12, <1>13, <1>15, <1>18, FollowTimely
  <2>2. Since(after, ts) \in Nat
    BY <1>2, <1>19 DEF Since
  <2>3. WindowKept(clocked, seeds, Since(after, ts))
    BY <1>1, <1>15, <1>16, <1>17, <2>1, <2>2, WindowLater
  <2>4. WindowKept(opened, seeds, Since(after, ts))
    BY <1>23, <2>3, WindowUntouched
  <2>5. CASE Opens(g, after)
    <3>1. opened = OnSegmentOpen(clocked, after.openId, after.backdate, filled)
      BY <2>5 DEF OpenIfOpened
    <3> HIDE DEF opened
    <3>2. Timely(after, opened, ts, S, E)
      BY <1>2, <1>8, <1>11, <1>15, <1>18, <1>19, <1>20, <1>21, <1>22, <2>1, <2>5, <3>1,
         OnSegmentOpenTimely
    <3> QED
      BY <2>4, <3>2
  <2>6. CASE ~ Opens(g, after)
    BY <1>23, <2>1, <2>4, <2>6
  <2> QED
    BY <2>5, <2>6
<1>25. /\ Accounted(opened, after.segmentCount) /\ Settles(clocked, opened)
       /\ OpenIds(opened) = IF IsOpen(after) THEN {after.openId}
                            ELSE IF IsOpen(g) THEN {g.openId} ELSE {}
  BY <1>2, <1>15, <1>21, OpenIfOpenedConsistent DEF after
<1> HIDE DEF opened
<1>26. IsTracker(opened) /\ after.segmentCount \in Nat
  BY <1>18, <1>25 DEF Accounted, GateOK, GateType
(* The decoder.                                                            *)
<1>27. /\ decoded.passes = opened.passes /\ decoded.merged = opened.merged
       /\ decoded.recent = opened.recent /\ decoded.misses = opened.misses
       /\ ~ IsActive(g, moving) => decoded = opened
       /\ \A s \in decoded.open : \E o \in opened.open :
            s.id = o.id /\ s.open = o.open /\ s.evidence = o.evidence
       /\ \A G : Timely(G, opened, ts, S, E) => Timely(G, decoded, ts, S, E)
  <2>1. CASE decoded = opened
    BY <2>1
  <2>2. CASE decoded = OnDecode(opened, after.openId, read) /\ IsActive(g, moving)
    BY <1>26, <2>2, OnDecodeFields, OnDecodeTimely
  <2> QED
    BY <2>1, <2>2 DEF DecodeIfActive
<1> HIDE DEF decoded
(* The frame as a whole.                                                   *)
<1>28. /\ Timely(gate', tracker', ts, S, E)
       /\ WindowKept(tracker', seeds, Since(gate', ts))
       /\ tracker'.misses = clocked.misses
       /\ \A s \in tracker'.open : \E o \in clocked.open \cup opened.open :
            s.id = o.id /\ s.open = o.open /\ s.evidence = o.evidence
  <2>1. CASE gate' = g /\ tracker' = clocked
    BY <1>13, <1>17, <2>1
  <2>2. CASE IsActive(g, moving) /\ gate' = after /\ tracker' = opened
    BY <1>18, <1>23, <1>24, <2>2
  <2>3. CASE gate' = after /\ tracker' = CloseIfClosed(decoded, g, after) /\ Closes(g, after)
    <3>1. decoded = clocked
      BY <1>18, <1>23, <1>27, <2>3 DEF Opens, Closes
    <3>2. /\ CloseIfClosed(clocked, g, after).open = {}
          /\ Timely(after, CloseIfClosed(clocked, g, after), ts, S, E)
          /\ WindowKept(CloseIfClosed(clocked, g, after), seeds, Since(after, ts))
      BY <1>1, <1>2, <1>8, <1>13, <1>15, <1>17, <1>18, <2>3, CloseIfClosedTimely DEF Closes
    <3>3. CloseIfClosed(clocked, g, after).misses = clocked.misses
      <4>1. g.openId \in OpenIds(clocked) /\ g.lastActive \in Nat
        BY <1>12, <1>15, <2>3 DEF Closes, Consistent, Agrees, GateOK, GateType
      <4>2. CloseEffect(clocked, OnSegmentClose(clocked, g.openId, g.lastActive), g.openId, g.lastActive)
        BY <1>15, <4>1, OnSegmentCloseEffect
      <4> QED
        BY <2>3, <4>2 DEF CloseEffect, CloseIfClosed
    <3> QED
      BY <2>3, <3>1, <3>2, <3>3
  <2>4. CASE gate' = after /\ tracker' = CloseIfClosed(decoded, g, after) /\ ~ Closes(g, after)
    <3>1. tracker' = decoded
      BY <2>4 DEF CloseIfClosed
    <3>2. WindowKept(decoded, seeds, Since(after, ts))
      BY <1>24, <1>27, <2>4, WindowUntouched
    <3> QED
      BY <1>23, <1>24, <1>27, <2>4, <3>1, <3>2
  <2> QED
    BY <1>4, <2>1, <2>2, <2>3, <2>4
<1>29. TimesInv'
  <2>1. \A f \in S \cup E : f <= ts
    <3>1. \A d \in marks : d <= ts
      BY <1>1, <1>2, <1>9
    <3>2. \A d \in E : d \in marks \/ d = ts
      BY <1>8
    <3>3. ts <= ts
      BY <1>2
    <3> QED
      BY <1>20, <3>1, <3>2, <3>3
  <2>2. \A m \in tracker'.misses : Complete(m, ts, E)
    BY <1>13, <1>28
  <2> QED
    BY <1>3, <1>11, <1>28, <2>1, <2>2 DEF TimesInv
<1>30. ASSUME NEW s \in tracker'.open, s.id \notin OpenIds(tracker)
       PROVE  PreRollShown(s)'
  <2>1. PICK o \in clocked.open \cup opened.open :
          s.id = o.id /\ s.open = o.open /\ s.evidence = o.evidence
    BY <1>28
  <2>2. o \notin clocked.open
    <3>1. OpenIds(clocked) = OpenIds(t)
      BY <1>6, <1>15 DEF Consistent, Agrees
    <3>2. OpenIds(t) \subseteq OpenIds(tracker)
      BY <1>7 DEF OpenIds
    <3> QED
      BY <1>30, <2>1, <3>1, <3>2 DEF OpenIds
  <2>3. Opens(g, after) /\ o \in opened.open
    BY <1>23, <2>1, <2>2
  <2>4. s.open = after.backdate /\ Fed(s) = FromOn(filled, s.open - PreRoll)
    BY <1>23, <2>1, <2>3 DEF Fed
  <2>5. \A x \in S : x >= ts - Horizon => (x \in filled <=> ~ Crowded(S, x, Horizon))
    BY <1>2, <1>8, <1>11, <1>20, <1>21, HorizonType, HeldUnlessCrowded
  <2>6. \A x \in filled : x \in S /\ x >= ts - Horizon
    BY <1>11 DEF Held
  <2>7. \A x : x \in Fed(s) <=> /\ x \in S /\ x >= s.open - PreRoll
                               /\ x >= ts - Horizon /\ ~ Crowded(S, x, Horizon)
    BY <2>4, <2>5, <2>6 DEF FromOn
  <2>8. Range(s.evidence.fed) = { x \in S : /\ x >= s.open - PreRoll
                                           /\ x >= ts - Horizon /\ ~ Crowded(S, x, Horizon) }
    BY <2>7 DEF Fed
  <2> QED
    BY <1>3, <2>8 DEF PreRollShown, Fits
<1>31. ASSUME NEW i \in DOMAIN tracker.pending, tracker.pending[i].deadline <= ts
       PROVE  tracker.pending[i].id \in MissedIds(tracker')
  <2>1. MissedIds(tracker') = MissedIds(clocked)
    BY <1>28 DEF MissedIds
  <2>2. CASE mark
    <3>1. PendingIds(t) = {}
      BY <1>7, <2>2 DEF PendingIds
    <3> QED
      BY <1>6, <1>15, <2>1, <3>1 DEF Settles, PendingIds
  <2>3. CASE ~ mark
    BY <1>7, <1>13, <1>31, <2>1, <2>3
  <2> QED
    BY <2>2, <2>3
<1>32. OnlyMisses(tracker, tracker', buffer)
  <2>1. OnlyMisses(t, clocked, buffer)
    <3>1. DueCount(t.pending, ts) \in 0 .. Len(t.pending)
      BY <1>12, DueCountInRange, TrackerFields
    <3>2. clocked.misses = FinalizeFirst(t, DueCount(t.pending, ts), buffer).misses
      BY <1>1, <1>2, <1>5, <1>12, OnFrameFields
    <3>3. OnlyMisses(t, FinalizeFirst(t, DueCount(t.pending, ts), buffer), buffer)
      BY <1>1, <1>12, <3>1, FinalizeFirstOnly
    <3> QED
      BY <3>2, <3>3 DEF OnlyMisses
  <2>2. OnlyMisses(tracker, t, buffer)
    BY AtBoundaryOnly DEF t, at
  <2> QED
    BY <1>28, <2>1, <2>2 DEF OnlyMisses
<1> QED
  BY <1>3, <1>29, <1>30, <1>31, <1>32

(* The end of the stream.                                                  *)
LEMMA EndOfStreamTimely ==
  ASSUME IInv, TimesInv, EndOfStream
  PROVE  TimesInv' /\ tracker'.open = {} /\ OnlyMisses(tracker, tracker', buffer)
<1> DEFINE flushed == Flush(gate)
           closed  == CloseIfClosed(tracker, gate, flushed)
<1>1. /\ Consistent(gate, tracker) /\ GateOK(gate)
      /\ now \in Nat /\ seen \in SUBSET Nat /\ marks \in SUBSET Nat /\ buffer \in SUBSET Nat
      /\ IsWindow(seeds)
  BY DEF IInv, TypeOK, Consistent
<1>2. /\ gate' = flushed /\ tracker' = FlushPending(closed, buffer) /\ done'
      /\ UNCHANGED <<buffer, now, seen, marks, seeds>>
  BY DEF EndOfStream
<1>3. /\ GateOK(flushed) /\ ~ IsOpen(flushed) /\ GateTimely(flushed, now, marks)
      /\ flushed.segmentCount = gate.segmentCount
  BY <1>1, FlushGate, FlushGateTimely DEF TimesInv, Timely
<1>4. Consistent(flushed, closed)
  BY <1>1, <1>3, CloseIfClosedConsistent
<1> HIDE DEF flushed
<1>5. /\ closed.open = {} /\ Timely(flushed, closed, now, seen, marks)
      /\ WindowKept(closed, seeds, Since(flushed, now))
  BY <1>1, <1>3, CloseIfClosedTimely DEF TimesInv
<1> HIDE DEF closed
<1>6. IsTracker(closed) /\ buffer = Held(seen, now, Horizon) /\ \A f \in seen : f <= now
  BY <1>4 DEF Consistent, Accounted, TimesInv
<1>7. /\ FlushPending(closed, buffer).open = closed.open
      /\ Timely(flushed, FlushPending(closed, buffer), now, seen, marks)
      /\ WindowKept(FlushPending(closed, buffer), seeds, Since(flushed, now))
  BY <1>1, <1>3, <1>5, <1>6, FlushPendingTimely
<1>8. OnlyMisses(tracker, tracker', buffer)
  BY <1>1, <1>2, <1>3, CloseAndFlushOnly DEF closed
<1> QED
  BY <1>2, <1>5, <1>7, <1>8 DEF TimesInv

LEMMA StepTimes == IInv /\ TimesInv /\ [Next]_vars => TimesInv'
<1> SUFFICES ASSUME IInv, TimesInv, [Next]_vars PROVE TimesInv'
  OBVIOUS
<1>1. CASE Next
  BY <1>1, ProcessFrameTimely, EndOfStreamTimely, PipelineAssumption DEF Next
<1>2. CASE UNCHANGED vars
  BY <1>2 DEF vars, TimesInv
<1> QED
  BY <1>1, <1>2

THEOREM TimesInvariance == Spec => [](IInv /\ TimesInv)
BY InitIInv, InitTimes, StepIInv, StepTimes, PTL DEF Spec

-----------------------------------------------------------------------------
(* No pass, merged sighting or miss covers both sides of a discontinuity,  *)
(* and no burst mixes them, however frames, marks, failures and debounce   *)
(* fall together.                                                          *)
THEOREM DiscontinuitiesSeparate == Spec => []NoEventSpansDiscontinuity
<1>1. IInv /\ TimesInv => NoEventSpansDiscontinuity
  <2> SUFFICES ASSUME TimesInv PROVE NoEventSpansDiscontinuity
    OBVIOUS
  <2>1. \A e \in tracker.passes \cup tracker.merged : Unbroken(marks, e.open, e.close)
    BY DEF TimesInv, Timely, EventsTimely, ReadTimely
  <2>2. \A m \in tracker.misses :
          /\ Unbroken(marks, m.open, m.close)
          /\ \A f \in m.frames : m.close < f => Unbroken(marks, m.close, f)
    BY DEF TimesInv, Timely, EventsTimely, MissTimely
  <2>3. \A m \in tracker.misses : \A f \in m.frames : f > m.close <=> m.close < f
    BY DEF TimesInv
  <2> QED
    BY <2>1, <2>2, <2>3 DEF NoEventSpansDiscontinuity, SameConnection, Unbroken
<1> QED
  BY <1>1, TimesInvariance, PTL

(* Two passes of a payload are more than the window apart, none is within  *)
(* it of a seed, and a merged sighting is within it of an emit or a seed.  *)
THEOREM WindowHolds == Spec => []PassesKeepTheWindow
<1>1. IInv /\ TimesInv => PassesKeepTheWindow
  BY DEF TimesInv, WindowKept, Spaced, PassesKeepTheWindow
<1> QED
  BY <1>1, TimesInvariance, PTL

(* A miss that is emitted takes with it all of its post-roll that is in    *)
(* the buffer, which is every frame that is not over the horizon and was   *)
(* not crowded out.                                                        *)
LEMMA NewMissRestored ==
  ASSUME IInv, TimesInv, NEW w \in Waiting
  PROVE  HeldRestored(Miss(w, buffer))
<1> DEFINE m == Miss(w, buffer)
<1>1. /\ now \in Nat /\ seen \in SUBSET Nat /\ buffer \in SUBSET Nat
      /\ buffer = Held(seen, now, Horizon) /\ \A f \in seen : f <= now
  BY DEF IInv, TypeOK, TimesInv
<1>2. /\ m.close = w.close /\ w.close \in Nat
      /\ m.frames = Range(w.evidence.frames)
                      \cup { f \in buffer : w.close < f /\ f <= w.close + PostRoll }
  BY <1>1, MissType DEF Waiting
<1> HIDE DEF m
<1>3. IsFiniteSet(seen) /\ Horizon \in Nat
  BY <1>1, FiniteFrames, HorizonType
<1>4. ASSUME NEW f \in seen, m.close < f, f < m.close + PostRoll, Fits(f)
      PROVE  f \in m.frames
  <2>1. f \in buffer
    BY <1>1, <1>3, <1>4, HeldUnlessCrowded DEF Fits
  <2>2. f <= w.close + PostRoll
    BY <1>1, <1>2, <1>4, TrackerAssumption
  <2> QED
    BY <1>2, <1>4, <2>1, <2>2
<1> QED
  BY <1>4 DEF HeldRestored, m

(* A segment that opens was fed its pre-roll, its evidence is an even      *)
(* sample of all it was fed, and a miss shows its last active frame and    *)
(* its post-roll, as far as the buffer, the reservoir and the connection   *)
(* go.                                                                     *)
THEOREM BurstsComplete == Spec => EvidenceComplete
<1> DEFINE Whole == /\ \A s \in tracker'.open : s.id \notin OpenIds(tracker) => PreRollShown(s)'
                    /\ \A s \in tracker'.open : Sampled(s.evidence)
                    /\ \A m \in tracker'.misses : PostRollShown(m)'
                    /\ \A m \in tracker'.misses \ tracker.misses : HeldRestored(m)
<1>1. TimesInv' => \A m \in tracker'.misses : PostRollShown(m)'
  <2> SUFFICES ASSUME TimesInv', NEW m \in tracker'.misses PROVE PostRollShown(m)'
    OBVIOUS
  <2>1. MissTimely(m, now', seen', marks')
    BY DEF TimesInv, Timely, EventsTimely
  <2> QED
    BY <2>1 DEF MissTimely, Shown, PostRollShown, SameConnection, Unbroken
<1>2. IInv' => \A s \in tracker'.open : Sampled(s.evidence)
  BY DEF IInv, TypeOK, IsTracker, Segment, Reservoir
<1>3. IInv /\ TimesInv /\ IInv' /\ [Next]_vars => [Whole]_vars
  <2> SUFFICES ASSUME IInv, TimesInv, IInv', Next PROVE Whole
    OBVIOUS
  <2>1. TimesInv'
    BY StepTimes
  <2>2. /\ \A s \in tracker'.open : s.id \notin OpenIds(tracker) => PreRollShown(s)'
        /\ OnlyMisses(tracker, tracker', buffer)
    BY ProcessFrameTimely, EndOfStreamTimely, PipelineAssumption DEF Next
  <2>3. \A m \in tracker'.misses \ tracker.misses : HeldRestored(m)
    BY <2>2, NewMissRestored DEF OnlyMisses
  <2> QED
    BY <1>1, <1>2, <2>1, <2>2, <2>3
<1> QED
  BY <1>3, TimesInvariance, PTL DEF Spec, EvidenceComplete

(* on_frame_ts looks at the head of the list only, and still every miss is *)
(* emitted by the frame that reaches its deadline.                         *)
THEOREM MissesEmittedWhenDue == Spec => EmittedWhenDue
<1> DEFINE Emits == now' # now =>
                      \A i \in DOMAIN tracker.pending :
                        tracker.pending[i].deadline <= now' =>
                          \E m \in tracker'.misses : m.id = tracker.pending[i].id
<1>1. IInv /\ TimesInv /\ [Next]_vars => [Emits]_vars
  <2> SUFFICES ASSUME IInv, TimesInv, Next PROVE Emits
    OBVIOUS
  <2>1. CASE EndOfStream
    BY <2>1 DEF EndOfStream
  <2>2. ASSUME NEW step \in Nat \ {0}, NEW mark, NEW moving, NEW read, NEW fault,
               ProcessFrame(step, mark, moving, read, fault)
        PROVE  Emits
    BY <2>2, ProcessFrameTimely DEF MissedIds
  <2> QED
    BY <2>1, <2>2, PipelineAssumption DEF Next
<1> QED
  BY <1>1, TimesInvariance, PTL DEF Spec, EmittedWhenDue
=============================================================================
