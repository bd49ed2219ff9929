----------------------------- MODULE SinkProofs -----------------------------
(***************************************************************************)
(* Theorems about the sinks that keep something, each for every value of   *)
(* its constants.  Part 1 is the cross-camera deduper and its rows, part 2 *)
(* the HTTP outbox and its table, part 3 the evidence of misses on disk,   *)
(* part 4 the collector of a run and the truth it is compared with.  They  *)
(* share no state.                                                         *)
(***************************************************************************)
EXTENDS CrossCameraDedup, HttpOutbox, Evidence, GroundTruth, FiniteSetTheorems, WellFoundedInduction, TLAPS

(***************************************************************************)
(* Part 1.  The deduper, for any number of cameras, payloads, passes and   *)
(* restarts: no pallet pass is counted twice, and the store is current.    *)
(* Behind them, every stored or handed on row is covered by a window entry,*)
(* or is so old that no camera can submit a pass within the window of it   *)
(* any more; and the entry holds the newest revision of its row, which has *)
(* been handed on.                                                         *)
(***************************************************************************)

-----------------------------------------------------------------------------
(* Least and greatest elements.                                            *)

LEMMA LeastNatural ==
  ASSUME NEW T \in SUBSET Nat, T # {}
  PROVE  \E n \in T : \A m \in T : n <= m
<1>1. PICK n \in T : \A m \in T : ~ (<<m, n>> \in OpToRel(<, Nat))
  BY NatLessThanWellFounded, WFMin
<1>2. \A m \in T : ~ (m < n)
  BY <1>1 DEF OpToRel
<1> QED
  BY <1>2

(* Among the entries of any set one is the nearest, so the CHOOSE of       *)
(* Nearest picks one of them.                                              *)
LEMMA NearestIsThere ==
  ASSUME NEW near \in SUBSET Entry, near # {}, NEW ts \in Int
  PROVE  Nearest(near, ts) \in near
<1> DEFINE Far(e) == 2 * Apart(ts, e.anchor) + IF e.anchor <= ts THEN 0 ELSE 1
           T == { Far(e) : e \in near }
<1>1. ASSUME NEW e \in near
      PROVE  e.anchor \in Int /\ Apart(ts, e.anchor) \in Nat /\ Far(e) \in Nat
  <2>1. e.anchor \in Int
    BY DEF Entry
  <2>2. PICK a \in Int : a = e.anchor
    BY <2>1
  <2>3. Apart(ts, a) \in Nat
    BY DEF Apart
  <2>4. PICK x \in Nat : x = Apart(ts, a)
    BY <2>3
  <2> QED
    BY <2>2, <2>3, <2>4
<1>2. T \in SUBSET Nat /\ T # {}
  BY <1>1
<1>3. PICK e \in near : \A o \in near : Far(e) <= Far(o)
  <2>1. PICK n \in T : \A m \in T : n <= m
    BY <1>2, LeastNatural
  <2> QED
    BY <2>1
<1>4. ASSUME NEW o \in near
      PROVE  \/ Apart(ts, e.anchor) < Apart(ts, o.anchor)
             \/ Apart(ts, e.anchor) = Apart(ts, o.anchor) /\ e.anchor <= o.anchor
  <2>1. PICK a \in Int, b \in Int : a = e.anchor /\ b = o.anchor
    BY <1>1
  <2>2. Far(e) <= Far(o)
    BY <1>3
  <2>3. 2 * Apart(ts, a) + (IF a <= ts THEN 0 ELSE 1)
          <= 2 * Apart(ts, b) + (IF b <= ts THEN 0 ELSE 1)
    BY <2>1, <2>2
  <2>4. Apart(ts, a) < Apart(ts, b) \/ (Apart(ts, a) = Apart(ts, b) /\ a <= b)
    BY <2>3 DEF Apart
  <2> QED
    BY <2>1, <2>4
<1>5. \E x \in near : \A o \in near :
        \/ Apart(ts, x.anchor) < Apart(ts, o.anchor)
        \/ Apart(ts, x.anchor) = Apart(ts, o.anchor) /\ x.anchor <= o.anchor
  BY <1>4
<1> QED
  BY <1>5 DEF Nearest

-----------------------------------------------------------------------------
(* The invariant.                                                          *)

(* The rows that are stored or about to be, and the entries with one.      *)
Rows  == store \cup { publishing[c] : c \in { d \in Cameras : ~ Idle(d) } }
Owned == { e \in tracked : e.row # NoRow }

Types ==
  /\ tracked \subseteq Entry /\ IsFiniteSet(tracked)
  /\ highWater \in [ Cameras -> Ticks \cup {Silent} ]
  /\ publishing \in [ Cameras -> Row \cup {NoRow} ]
  /\ store \subseteq Row /\ IsFiniteSet(store)
  /\ clock \in [ Cameras -> Ticks ]
  /\ passes \in 0 .. MaxPasses /\ epoch \in Int /\ restarts \in 0 .. MaxRestarts
  /\ forced \in BOOLEAN /\ stepped \in BOOLEAN

(* An id stands for one business pass: one payload, at one wall time.      *)
IdsFresh ==
  /\ \A r \in Rows : r.id + r.revision <= passes
  /\ \A r, o \in Rows : r.id = o.id => r.payload = o.payload /\ r.wall = o.wall

(* Each entry with an event has the newest revision of it, handed on.      *)
NewestKept ==
  /\ \A e, o \in Owned : e.row.id = o.row.id => e = o
  /\ \A e \in Owned :
       /\ e.row.payload = e.payload /\ e.row.wall = epoch + e.anchor
       /\ e.row.last <= e.anchor + Window
       /\ e.row \in Rows
       /\ \A r \in Rows : r.id = e.row.id => r = e.row \/ r.revision < e.row.revision

AnchorsApart ==
  \A e, o \in tracked : e.payload = o.payload /\ e # o => Apart(e.anchor, o.anchor) > Window

HighWaters == \A c \in Cameras : highWater[c] = Silent \/ highWater[c] <= clock[c]

(* No camera will submit anything within the window of this row again.     *)
Gone(r) == \A c \in Cameras : r.wall + Window < epoch + clock[c]

CoveredBy(r, entries) == \E e \in entries : e.payload = r.payload /\ r.wall = epoch + e.anchor

Covered ==
  forced \/ stepped \/
    /\ \A r \in Rows : Gone(r) \/ CoveredBy(r, tracked)
    /\ \A r, o \in Rows : r.payload = o.payload /\ r.id # o.id => Apart(r.wall, o.wall) > Window
    /\ \A r \in Rows : \E c \in Cameras : r.wall <= epoch + clock[c]

IInv == Types /\ IdsFresh /\ NewestKept /\ AnchorsApart /\ HighWaters /\ Covered

-----------------------------------------------------------------------------
LEMMA NoRowIsNone == NoRow \notin Row
  BY DEF NoRow, Row, SeedId, Ids

LEMMA RowFields ==
  ASSUME NEW r \in Row
  PROVE  /\ r.id \in Nat /\ r.payload \in Payloads /\ r.cameras \in SUBSET Cameras
         /\ r.last \in Nat /\ r.revision \in Nat /\ r.wall \in Int
  BY DedupAssumption DEF Row, Ids, Ticks

LEMMA EntryFields ==
  ASSUME NEW e \in Entry
  PROVE  /\ e.payload \in Payloads /\ e.anchor \in Int
         /\ e.row # NoRow => e.row \in Row
  BY DEF Entry

LEMMA RowsAreRows ==
  ASSUME Types
  PROVE  Rows \subseteq Row
  BY DEF Types, Rows, Idle

(* Handing a row on for publication, by a camera that is idle.             *)
LEMMA HandOn ==
  ASSUME Types, NEW c \in Cameras, Idle(c), NEW row \in Row, store' = store,
         publishing' = [ publishing EXCEPT ![c] = row ]
  PROVE  Rows' = Rows \cup {row} /\ publishing' \in [ Cameras -> Row \cup {NoRow} ]
<1>1. \A d \in Cameras : publishing'[d] = IF d = c THEN row ELSE publishing[d]
  BY DEF Types
<1>2. row # NoRow
  BY NoRowIsNone
<1>3. \A d \in Cameras : (~ Idle(d))' <=> (d = c \/ ~ Idle(d))
  BY <1>1, <1>2 DEF Idle
<1>4. { publishing'[d] : d \in { x \in Cameras : ~ (publishing'[x] = NoRow) } }
        = { publishing[d] : d \in { x \in Cameras : ~ (publishing[x] = NoRow) } } \cup {row}
  BY <1>1, <1>2 DEF Idle
<1> QED
  BY <1>4 DEF Rows, Idle, Types

(* The furthest any camera has got.                                        *)
LEMMA ReachedIsLast ==
  ASSUME Types
  PROVE  Reached \in Nat /\ \A c \in Cameras : clock[c] <= Reached
<1> DEFINE C == { clock[c] : c \in Cameras }
           T == { MaxTs - t : t \in C }
<1>1. \A c \in Cameras : clock[c] \in Nat /\ clock[c] <= MaxTs
  BY DedupAssumption DEF Types, Ticks
<1>2. C # {} /\ \A t \in C : t \in Nat /\ t <= MaxTs
  BY <1>1, DedupAssumption
<1>3. T \in SUBSET Nat /\ T # {}
  <2>1. \A t \in C : MaxTs - t \in Nat
    BY <1>2, DedupAssumption
  <2> QED
    BY <1>2, <2>1
<1>4. PICK n \in T : \A m \in T : n <= m
  BY <1>3, LeastNatural
<1>5. PICK t \in C : n = MaxTs - t
  BY <1>4
<1>6. \A u \in C : u <= t
  <2> SUFFICES ASSUME NEW u \in C PROVE u <= t
    OBVIOUS
  <2>1. MaxTs - u \in T
    OBVIOUS
  <2>2. MaxTs - t <= MaxTs - u
    BY <1>4, <1>5, <2>1
  <2>3. u \in Nat /\ t \in Nat /\ MaxTs \in Nat
    BY <1>2, DedupAssumption
  <2> QED
    BY <2>2, <2>3
<1>7. \E u \in C : \A c \in Cameras : clock[c] <= u
  BY <1>6
<1>8. Reached \in C /\ \A c \in Cameras : clock[c] <= Reached
  BY <1>7 DEF Reached
<1> QED
  BY <1>2, <1>8

LEMMA InitIInv == Init => IInv
<1> SUFFICES ASSUME Init PROVE IInv
  OBVIOUS
<1>1. Rows = {} /\ Owned = {}
  BY DEF Init, Rows, Owned, Idle
<1>2. Types
  <2>1. highWater \in [ Cameras -> Ticks \cup {Silent} ]
    BY DEF Init
  <2>2. clock \in [ Cameras -> Ticks ]
    BY DedupAssumption DEF Init, Ticks
  <2>3. publishing \in [ Cameras -> Row \cup {NoRow} ]
    BY DEF Init
  <2>4. passes \in 0 .. MaxPasses /\ epoch \in Int /\ restarts \in 0 .. MaxRestarts
    BY DedupAssumption DEF Init
  <2>5. /\ tracked \subseteq Entry /\ IsFiniteSet(tracked)
        /\ store \subseteq Row /\ IsFiniteSet(store)
        /\ forced \in BOOLEAN /\ stepped \in BOOLEAN
    BY FS_EmptySet DEF Init
  <2> QED
    BY <2>1, <2>2, <2>3, <2>4, <2>5 DEF Types
<1>3. HighWaters
  BY DEF Init, HighWaters
<1> QED
  BY <1>1, <1>2, <1>3 DEF IInv, IdsFresh, NewestKept, AnchorsApart, Covered, Init

-----------------------------------------------------------------------------
(* Progress and eviction.                                                  *)

(* A camera's progress only moves its own clock, and forwards.             *)
LEMMA ProgressIsForward ==
  ASSUME Types, HighWaters, NEW c \in Cameras, NEW ts \in Ticks,
         highWater' = Noted(c, ts),
         clock' = [ clock EXCEPT ![c] = Larger(@, ts) ]
  PROVE  /\ HighWaters'
         /\ highWater' \in [ Cameras -> Ticks \cup {Silent} ] /\ clock' \in [ Cameras -> Ticks ]
         /\ \A d \in Cameras : clock[d] \in Nat /\ clock'[d] \in Nat /\ clock[d] <= clock'[d]
         /\ ts <= clock'[c]
<1>1. Ticks \subseteq Nat /\ Silent \notin Nat /\ Silent < 0 /\ Silent \in Int
  BY DedupAssumption DEF Ticks, Silent
<1>2. \A d \in Cameras : /\ clock[d] \in Ticks /\ highWater[d] \in Ticks \cup {Silent}
                         /\ clock'[d] = (IF d = c THEN Larger(clock[c], ts) ELSE clock[d])
                         /\ highWater'[d] = (IF d = c THEN Larger(highWater[c], ts) ELSE highWater[d])
  BY DEF Types, Noted
<1>3. \A x \in Ticks \cup {Silent}, y \in Ticks : Larger(x, y) \in Ticks
  BY <1>1 DEF Larger
<1>4. clock' \in [ Cameras -> Ticks ] /\ highWater' \in [ Cameras -> Ticks \cup {Silent} ]
  BY <1>3 DEF Types, Noted
<1>5. \A d \in Cameras : clock[d] \in Nat /\ clock'[d] \in Nat /\ clock[d] <= clock'[d]
  BY <1>1, <1>2, <1>3 DEF Larger
<1>6. ts <= clock'[c]
  BY <1>1, <1>2 DEF Larger
<1>7. HighWaters'
  <2> SUFFICES ASSUME NEW d \in Cameras, highWater'[d] # Silent
               PROVE  highWater'[d] <= clock'[d]
    BY DEF HighWaters
  <2>1. CASE d = c
    <3>1. highWater[c] = Silent \/ highWater[c] <= clock[c]
      BY DEF HighWaters
    <3> QED
      BY <1>1, <1>2, <2>1, <3>1 DEF Larger
  <2>2. CASE d # c
    BY <1>2, <2>2 DEF HighWaters
  <2> QED
    BY <2>1, <2>2
<1> QED
  BY <1>4, <1>5, <1>6, <1>7

(* What eviction leaves is a subset of the entries, and unless the cap     *)
(* forced it, what it takes away is gone for good.                         *)
LEMMA EvictionIsSafe ==
  ASSUME IInv, NEW c \in Cameras, NEW ts \in Ticks,
         highWater' = Noted(c, ts), clock' = [ clock EXCEPT ![c] = Larger(@, ts) ],
         epoch' = epoch,
         NEW kept \in Survivors(Noted(c, ts))
  PROVE  /\ kept \subseteq tracked /\ IsFiniteSet(kept)
         /\ \A r \in Row :
              Cardinality(Reachable(Noted(c, ts))) <= MaxTracked
                /\ (Gone(r) \/ CoveredBy(r, tracked))
              => Gone(r)' \/ CoveredBy(r, kept)
<1> DEFINE high == Noted(c, ts)
           live == Reachable(high)
<1>1. live \subseteq tracked /\ IsFiniteSet(tracked)
  BY DEF Reachable, IInv, Types
<1>2. IsFiniteSet(live) /\ Cardinality(live) \in Nat
  BY <1>1, FS_Subset, FS_CardinalityType
<1> DEFINE over == Cardinality(live) - MaxTracked
<1>3. kept \in IF over <= 0 THEN { live }
               ELSE { k \in SUBSET live :
                        /\ Cardinality(k) = MaxTracked
                        /\ \A e \in live \ k, x \in k : e.anchor <= x.anchor }
  BY DEF Survivors
<1>4. kept \subseteq live
  BY <1>3
<1>5. kept \subseteq tracked /\ IsFiniteSet(kept)
  BY <1>1, <1>4, FS_Subset
<1>6. Cardinality(live) <= MaxTracked => kept = live
  <2>1. PICK n \in Nat : n = Cardinality(live)
    BY <1>2
  <2> QED
    BY <1>3, <2>1, DedupAssumption
<1>7. /\ HighWaters' /\ highWater' \in [ Cameras -> Ticks \cup {Silent} ]
      /\ \A d \in Cameras : clock[d] \in Nat /\ clock'[d] \in Nat /\ clock[d] <= clock'[d]
  BY ProgressIsForward DEF IInv
<1>8. ASSUME NEW r \in Row, Cardinality(live) <= MaxTracked, Gone(r)
      PROVE  Gone(r)'
  <2>1. r.wall \in Int /\ Window \in Nat /\ epoch \in Int
    BY RowFields, DedupAssumption DEF IInv, Types
  <2> QED
    BY <1>7, <1>8, <2>1 DEF Gone
<1>9. ASSUME NEW r \in Row, Cardinality(live) <= MaxTracked, CoveredBy(r, tracked)
      PROVE  Gone(r)' \/ CoveredBy(r, kept)
  <2>1. PICK e \in tracked : e.payload = r.payload /\ r.wall = epoch + e.anchor
    BY <1>9 DEF CoveredBy
  <2>2. CASE e \in kept
    BY <2>1, <2>2 DEF CoveredBy
  <2>3. CASE e \notin kept
    <3>1. \A d \in Cameras : high[d] # Silent /\ ~ (e.anchor >= high[d] - Window)
      BY <1>6, <1>9, <2>3 DEF Reachable
    <3>2. PICK a \in Int, E \in Int : a = e.anchor /\ E = epoch /\ r.wall = E + a
      BY <2>1, EntryFields DEF IInv, Types
    <3>3. \A d \in Cameras : high[d] \in Nat /\ high[d] <= clock'[d]
      BY <1>7, <3>1, DedupAssumption DEF HighWaters, Ticks
    <3>4. \A d \in Cameras : r.wall + Window < E + clock'[d]
      <4> SUFFICES ASSUME NEW d \in Cameras
                   PROVE  r.wall + Window < E + clock'[d]
        OBVIOUS
      <4>1. PICK h \in Nat, k \in Nat : h = high[d] /\ k = clock'[d] /\ h <= k /\ ~ (a >= h - Window)
        BY <1>7, <3>1, <3>2, <3>3
      <4> QED
        BY <3>2, <4>1, DedupAssumption
    <3> QED
      BY <3>2, <3>4 DEF Gone
  <2> QED
    BY <2>2, <2>3
<1> QED
  BY <1>5, <1>8, <1>9

LEMMA SubmitMissStep ==
  ASSUME IInv, NEW c \in Cameras, NEW ts \in Ticks, SubmitMiss(c, ts)
  PROVE  IInv'
<1>1. /\ clock' = [ clock EXCEPT ![c] = Larger(@, ts) ] /\ highWater' = Noted(c, ts)
      /\ UNCHANGED <<tracked, forced, publishing, store, passes, epoch, restarts, stepped>>
  BY DEF SubmitMiss
<1>2. /\ HighWaters'
      /\ highWater' \in [ Cameras -> Ticks \cup {Silent} ] /\ clock' \in [ Cameras -> Ticks ]
      /\ \A d \in Cameras : clock[d] \in Nat /\ clock'[d] \in Nat /\ clock[d] <= clock'[d]
  BY <1>1, ProgressIsForward DEF IInv
<1>3. Rows' = Rows /\ Owned' = Owned
  BY <1>1 DEF Rows, Owned, Idle
<1>4. \A r \in Rows : r.wall \in Int
  BY RowsAreRows, RowFields DEF IInv
<1>5. epoch \in Int /\ Window \in Nat
  BY DedupAssumption DEF IInv, Types
<1>6. \A r \in Rows : Gone(r) => Gone(r)'
  BY <1>1, <1>2, <1>4, <1>5 DEF Gone
<1>7. \A r \in Rows : (\E d \in Cameras : r.wall <= epoch + clock[d])
                        => \E d \in Cameras : r.wall <= epoch + clock'[d]
  BY <1>2, <1>4, <1>5
<1>8. Covered'
  BY <1>1, <1>3, <1>6, <1>7 DEF IInv, Covered, CoveredBy
<1>9. Types'
  BY <1>1, <1>2 DEF IInv, Types
<1> QED
  BY <1>1, <1>2, <1>3, <1>8, <1>9 DEF IInv, IdsFresh, NewestKept, AnchorsApart

(* The rows a pass hands on, and the entries it leaves, are well formed.   *)
LEMMA NewIsTyped ==
  ASSUME Types, NEW c \in Cameras, NEW p \in Payloads, NEW ts \in Ticks,
         passes < MaxPasses, NEW kept \in SUBSET tracked, EmitNew(c, p, ts, kept)
  PROVE  /\ tracked' \subseteq Entry /\ IsFiniteSet(tracked')
         /\ publishing' \in [ Cameras -> Row \cup {NoRow} ] /\ publishing'[c] \in Row
<1> DEFINE row == [ id |-> passes + 1, payload |-> p, cameras |-> {c}, last |-> ts,
                    revision |-> 0, wall |-> epoch + ts ]
           new == [ payload |-> p, anchor |-> ts, row |-> row ]
<1>1. tracked' = kept \cup {new} /\ publishing' = [ publishing EXCEPT ![c] = row ]
  BY DEF EmitNew
<1>2. passes \in Nat /\ ts \in Nat /\ epoch \in Int /\ ts \in Int
  BY DedupAssumption DEF Types, Ticks
<1>3. row \in Row
  <2>1. passes + 1 \in Ids /\ {c} \in SUBSET Cameras /\ 0 \in 0 .. MaxPasses /\ epoch + ts \in Int
    BY <1>2, DedupAssumption DEF Ids
  <2> QED
    BY <2>1 DEF Row
<1> HIDE DEF row
<1>4. new \in Entry
  BY <1>2, <1>3 DEF Entry
<1> HIDE DEF new
<1>5. kept \subseteq Entry /\ IsFiniteSet(kept)
  BY FS_Subset DEF Types
<1>6. IsFiniteSet(kept \cup {new})
  BY <1>5, FS_AddElement
<1> QED
  BY <1>1, <1>3, <1>4, <1>5, <1>6 DEF Types

LEMMA MergedIsTyped ==
  ASSUME Types, IdsFresh, NEW c \in Cameras, NEW ts \in Ticks, passes < MaxPasses,
         NEW kept \in SUBSET tracked, NEW e \in kept, e.row # NoRow, e.row \in Rows,
         Merge(c, e, ts, kept)
  PROVE  /\ tracked' \subseteq Entry /\ IsFiniteSet(tracked')
         /\ publishing' \in [ Cameras -> Row \cup {NoRow} ] /\ publishing'[c] \in Row
<1> DEFINE old == e.row
           all == old.cameras \cup {c}
           last == Larger(old.last, ts)
           next == old.revision + 1
           row == [ old EXCEPT !.cameras = all, !.last = last, !.revision = next ]
           new == [ e EXCEPT !.row = row ]
<1>1. tracked' = (kept \ {e}) \cup {new} /\ publishing' = [ publishing EXCEPT ![c] = row ]
  BY DEF Merge
<1>2. e \in Entry /\ old \in Row /\ old.id + old.revision <= passes
  BY EntryFields DEF Types, IdsFresh
<1>3. /\ old.id \in Nat \ {0} /\ old.revision \in Nat /\ old.last \in Ticks
      /\ passes \in Nat /\ MaxPasses \in Nat /\ Ticks \subseteq Nat
  BY <1>2, RowFields, DedupAssumption DEF Types, Ticks, Row, Ids
<1>4. all \in SUBSET Cameras /\ last \in Ticks /\ next \in 0 .. MaxPasses
  BY <1>2, <1>3, RowFields DEF Larger
<1> HIDE DEF all, last, next, old
<1>5. row \in Row
  BY <1>2, <1>4 DEF Row
<1> HIDE DEF row
<1>6. new \in Entry
  BY <1>2, <1>5 DEF Entry
<1> HIDE DEF new
<1>7. kept \subseteq Entry /\ IsFiniteSet(kept \ {e})
  BY FS_Subset, FS_RemoveElement DEF Types
<1>8. IsFiniteSet((kept \ {e}) \cup {new})
  BY <1>7, FS_AddElement
<1> QED
  BY <1>1, <1>5, <1>6, <1>7, <1>8 DEF Types

-----------------------------------------------------------------------------
(* A pass.                                                                 *)

(* A new business pass: its entry is apart from the others of its payload, *)
(* because whatever is near it would have been found.                      *)
LEMMA EmitNewStep ==
  ASSUME IInv, Types', HighWaters', NEW c \in Cameras, NEW p \in Payloads, NEW ts \in Ticks,
         Idle(c), passes' = passes + 1, passes < MaxPasses, ts <= clock'[c],
         clock' \in [ Cameras -> Ticks ],
         \A d \in Cameras : d # c => clock'[d] = clock[d],
         clock'[c] = ts, UNCHANGED <<store, epoch, stepped>>,
         NEW kept \in SUBSET tracked, Matches(kept, p, ts) = {}, EmitNew(c, p, ts, kept),
         forced' \/ stepped \/ \A r \in Rows : Gone(r)' \/ CoveredBy(r, kept),
         forced => forced',
         \A d \in Cameras : clock[d] \in Nat /\ clock'[d] \in Nat /\ clock[d] <= clock'[d]
  PROVE  IInv'
<1> DEFINE row == [ id |-> passes + 1, payload |-> p, cameras |-> {c}, last |-> ts,
                    revision |-> 0, wall |-> epoch + ts ]
           new == [ payload |-> p, anchor |-> ts, row |-> row ]
<1>1. /\ tracked' = kept \cup {new} /\ publishing' = [ publishing EXCEPT ![c] = row ]
      /\ store' = store /\ epoch' = epoch /\ stepped' = stepped
  BY DEF EmitNew
<1>2. /\ row.id = passes + 1 /\ row.payload = p /\ row.last = ts /\ row.revision = 0
      /\ row.wall = epoch + ts
      /\ new.payload = p /\ new.anchor = ts /\ new.row = row
  OBVIOUS
<1>3. passes \in Nat /\ ts \in Nat /\ epoch \in Int /\ Window \in Nat /\ ts \in Int
  BY DedupAssumption DEF IInv, Types, Ticks
<1>4. row \in Row
  BY <1>1, NewIsTyped DEF IInv, Types
<1> HIDE DEF row, new
<1>5. Rows' = Rows \cup {row}
  BY <1>1, <1>4, HandOn DEF IInv
<1>6. row # NoRow
  BY <1>4, NoRowIsNone
<1>7. Owned' = { e \in kept : e.row # NoRow } \cup {new}
  BY <1>1, <1>2, <1>6 DEF Owned
<1>8. \A r \in Rows : r \in Row /\ r.id \in Nat /\ r.revision \in Nat /\ r.wall \in Int
                        /\ r.id + r.revision <= passes
  BY RowsAreRows, RowFields DEF IInv, IdsFresh
<1>9. \A r \in Rows : r.id < row.id /\ r.id # row.id
  BY <1>2, <1>3, <1>8
<1>10. IdsFresh'
  <2>1. \A r \in Rows : r.id + r.revision <= passes + 1
    BY <1>3, <1>8
  <2>2. row.id + row.revision <= passes + 1
    BY <1>2, <1>3
  <2> QED
    BY <1>5, <1>9, <2>1, <2>2 DEF IInv, IdsFresh
<1>11. NewestKept'
  <2>1. \A e \in Owned : e.row \in Rows
    BY DEF IInv, NewestKept
  <2>2. { e \in kept : e.row # NoRow } \subseteq Owned
    BY DEF Owned
  <2>3. \A e, o \in Owned' : e.row.id = o.row.id => e = o
    BY <1>2, <1>7, <1>9, <2>1, <2>2 DEF IInv, NewestKept
  <2>4. ASSUME NEW e \in { x \in kept : x.row # NoRow }
        PROVE  /\ e.row.payload = e.payload /\ e.row.wall = epoch + e.anchor
               /\ e.row.last <= e.anchor + Window
               /\ e.row \in Rows'
               /\ \A r \in Rows' : r.id = e.row.id => r = e.row \/ r.revision < e.row.revision
    BY <1>5, <1>9, <2>1, <2>2 DEF IInv, NewestKept
  <2>5. /\ new.row.payload = new.payload /\ new.row.wall = epoch + new.anchor
        /\ new.row.last <= new.anchor + Window
        /\ new.row \in Rows'
        /\ \A r \in Rows' : r.id = new.row.id => r = new.row \/ r.revision < new.row.revision
    BY <1>2, <1>3, <1>5, <1>9
  <2> QED
    BY <1>1, <1>7, <2>3, <2>4, <2>5 DEF NewestKept
<1>12. \A e \in kept : e.payload = p => e.anchor \in Int /\ Apart(ts, e.anchor) > Window
  <2> SUFFICES ASSUME NEW e \in kept, e.payload = p
               PROVE  e.anchor \in Int /\ Apart(ts, e.anchor) > Window
    OBVIOUS
  <2>1. e.anchor \in Int
    BY EntryFields DEF IInv, Types
  <2>2. ~ (Apart(ts, e.anchor) <= Window)
    BY DEF Matches
  <2>3. PICK a \in Int : a = e.anchor
    BY <2>1
  <2>4. Apart(ts, a) \in Int
    BY <1>3 DEF Apart
  <2> QED
    BY <1>3, <2>2, <2>3, <2>4
<1>13. AnchorsApart'
  <2>1. \A x, y \in Int : Apart(x, y) = Apart(y, x)
    BY DEF Apart
  <2> QED
    BY <1>1, <1>2, <1>3, <1>12, <2>1 DEF IInv, AnchorsApart
<1>14. Covered'
  <2> SUFFICES ASSUME ~ forced', ~ stepped'
               PROVE  /\ \A r \in Rows' : Gone(r)' \/ CoveredBy(r, tracked)'
                      /\ \A r, o \in Rows' : r.payload = o.payload /\ r.id # o.id
                                               => Apart(r.wall, o.wall) > Window
                      /\ \A r \in Rows' : \E d \in Cameras : r.wall <= epoch' + clock'[d]
    BY DEF Covered
  <2>1. /\ \A r \in Rows : Gone(r)' \/ CoveredBy(r, kept)
        /\ \A r, o \in Rows : r.payload = o.payload /\ r.id # o.id => Apart(r.wall, o.wall) > Window
        /\ \A r \in Rows : \E d \in Cameras : r.wall <= epoch + clock[d]
    BY <1>1 DEF IInv, Covered
  <2>2. CoveredBy(row, tracked')
    BY <1>1, <1>2 DEF CoveredBy
  <2>3. \A r \in Rows : CoveredBy(r, kept) => CoveredBy(r, tracked')
    BY <1>1 DEF CoveredBy
  <2>4. \A r \in Rows' : Gone(r)' \/ CoveredBy(r, tracked)'
    BY <1>1, <1>5, <2>1, <2>2, <2>3 DEF CoveredBy
  <2>5. ASSUME NEW r \in Rows, r.payload = p
        PROVE  Apart(r.wall, row.wall) > Window /\ Apart(row.wall, r.wall) > Window
    <3>1. PICK w \in Int : w = r.wall
      BY <1>8
    <3>2. PICK E \in Int : E = epoch
      BY <1>3
    <3>3. CASE Gone(r)'
      <4>1. w + Window < E + ts
        BY <1>1, <3>1, <3>2, <3>3 DEF Gone
      <4> QED
        BY <1>2, <1>3, <3>1, <3>2, <4>1 DEF Apart
    <3>4. CASE CoveredBy(r, kept)
      <4>1. PICK e \in kept : e.payload = p /\ r.wall = epoch + e.anchor
        BY <2>5, <3>4 DEF CoveredBy
      <4>2. PICK a \in Int : a = e.anchor /\ w = E + a /\ Apart(ts, a) > Window
        BY <1>12, <3>1, <3>2, <4>1
      <4> QED
        BY <1>2, <1>3, <3>1, <3>2, <4>2 DEF Apart
    <3> QED
      BY <2>1, <3>3, <3>4
  <2>6. \A r, o \in Rows' : r.payload = o.payload /\ r.id # o.id => Apart(r.wall, o.wall) > Window
    BY <1>2, <1>5, <2>1, <2>5
  <2>7. \A r \in Rows : \E d \in Cameras : r.wall <= epoch + clock'[d]
    <3> SUFFICES ASSUME NEW r \in Rows
                 PROVE  \E d \in Cameras : r.wall <= epoch + clock'[d]
      OBVIOUS
    <3>1. PICK d \in Cameras : r.wall <= epoch + clock[d]
      BY <2>1
    <3> QED
      BY <1>3, <1>8, <3>1
  <2>8. row.wall <= epoch + clock'[c]
    BY <1>2, <1>3
  <2> QED
    BY <1>1, <1>5, <2>4, <2>6, <2>7, <2>8
<1> QED
  BY <1>10, <1>11, <1>13, <1>14 DEF IInv

(* A repeat: the window and what is handed on stay as they are.            *)
LEMMA SuppressStep ==
  ASSUME IInv, Types', HighWaters', NEW c \in Cameras,
         passes' = passes + 1, UNCHANGED <<store, epoch, stepped>>,
         NEW kept \in SUBSET tracked, Suppress(kept),
         forced' \/ stepped \/ \A r \in Rows : Gone(r)' \/ CoveredBy(r, kept),
         forced => forced',
         \A d \in Cameras : clock[d] \in Nat /\ clock'[d] \in Nat /\ clock[d] <= clock'[d]
  PROVE  IInv'
<1>1. tracked' = kept /\ UNCHANGED <<publishing, store, epoch, stepped>>
  BY DEF Suppress
<1>2. Rows' = Rows /\ Owned' \subseteq Owned
  BY <1>1 DEF Rows, Owned, Idle
<1>3. \A r \in Rows : r.id \in Nat /\ r.revision \in Nat /\ r.wall \in Int
  BY RowsAreRows, RowFields DEF IInv
<1>4. passes \in Nat /\ epoch \in Int
  BY DedupAssumption DEF IInv, Types
<1>5. IdsFresh'
  BY <1>1, <1>2, <1>3, <1>4 DEF IInv, IdsFresh
<1>6. NewestKept' /\ AnchorsApart'
  BY <1>1, <1>2 DEF IInv, NewestKept, AnchorsApart
<1>7. Covered'
  <2>1. \A r \in Rows : (\E d \in Cameras : r.wall <= epoch + clock[d])
                          => \E d \in Cameras : r.wall <= epoch + clock'[d]
    BY <1>3, <1>4
  <2> QED
    BY <1>1, <1>2, <2>1 DEF IInv, Covered, CoveredBy
<1> QED
  BY <1>5, <1>6, <1>7 DEF IInv

(* Another camera's sighting: the entry's event, one revision on, and      *)
(* handed on; the entry keeps its anchor.                                  *)
LEMMA MergeStep ==
  ASSUME IInv, Types', HighWaters', NEW c \in Cameras, NEW ts \in Ticks, Idle(c),
         passes' = passes + 1, passes < MaxPasses, UNCHANGED <<store, epoch, stepped>>,
         NEW kept \in SUBSET tracked, NEW e \in kept, e.row # NoRow,
         Apart(ts, e.anchor) <= Window, Merge(c, e, ts, kept),
         forced' \/ stepped \/ \A r \in Rows : Gone(r)' \/ CoveredBy(r, kept),
         forced => forced',
         \A d \in Cameras : clock[d] \in Nat /\ clock'[d] \in Nat /\ clock[d] <= clock'[d]
  PROVE  IInv'
<1> DEFINE old == e.row
           row == [ old EXCEPT !.cameras = @ \cup {c}, !.last = Larger(@, ts), !.revision = @ + 1 ]
           new == [ e EXCEPT !.row = row ]
<1>1. /\ tracked' = (kept \ {e}) \cup {new}
      /\ publishing' = [ publishing EXCEPT ![c] = row ]
      /\ store' = store /\ epoch' = epoch /\ stepped' = stepped
  BY DEF Merge
<1>2. e \in Entry /\ e \in Owned /\ old \in Row /\ old \in Rows /\ old.id + old.revision <= passes
  BY EntryFields DEF IInv, Types, Owned, NewestKept, IdsFresh
<1>3. /\ old.id \in Nat /\ old.revision \in Nat /\ old.last \in Ticks /\ old.wall \in Int
      /\ old.id \in Ids /\ old.revision \in 0 .. MaxPasses
      /\ passes \in Nat /\ ts \in Nat /\ epoch \in Int /\ Window \in Nat
      /\ Ticks \subseteq Nat
  BY <1>2, RowFields, DedupAssumption DEF IInv, Types, Ticks, Row
<1>4. e.anchor \in Int /\ old.payload = e.payload /\ old.wall = epoch + e.anchor
      /\ old.last <= e.anchor + Window
  BY <1>2, EntryFields DEF IInv, NewestKept
<1>5. /\ row.id = old.id /\ row.payload = old.payload /\ row.wall = old.wall
      /\ row.last = Larger(old.last, ts) /\ row.revision = old.revision + 1
      /\ new.payload = e.payload /\ new.anchor = e.anchor /\ new.row = row
  BY <1>2 DEF Row, Entry
<1>6. row \in Row
  BY <1>1, <1>2, MergedIsTyped DEF IInv, Types
<1> HIDE DEF old, row, new
<1>7. Rows' = Rows \cup {row}
  BY <1>1, <1>6, HandOn DEF IInv
<1>8. row # NoRow
  BY <1>6, NoRowIsNone
<1>9. Owned' = { x \in kept \ {e} : x.row # NoRow } \cup {new}
  BY <1>1, <1>5, <1>8 DEF Owned
<1>10. \A r \in Rows : r \in Row /\ r.id \in Nat /\ r.revision \in Nat /\ r.wall \in Int
  BY RowsAreRows, RowFields DEF IInv
<1>11. IdsFresh'
  <2>1. \A r \in Rows : r.id + r.revision <= passes + 1
    BY <1>3, <1>10 DEF IInv, IdsFresh
  <2>2. row.id + row.revision <= passes + 1
    BY <1>2, <1>3, <1>5
  <2>3. \A r \in Rows : r.id = row.id => r.payload = row.payload /\ r.wall = row.wall
    BY <1>2, <1>5 DEF IInv, IdsFresh
  <2> QED
    BY <1>1, <1>7, <2>1, <2>2, <2>3 DEF IInv, IdsFresh
<1>12. NewestKept'
  <2>1. { x \in kept \ {e} : x.row # NoRow } \subseteq Owned \ {e}
    BY DEF Owned
  <2>2. \A x \in Owned \ {e} : x.row.id # row.id
    BY <1>2, <1>5 DEF IInv, NewestKept, old
  <2>3. \A x, y \in Owned' : x.row.id = y.row.id => x = y
    BY <1>5, <1>9, <2>1, <2>2 DEF IInv, NewestKept
  <2>4. ASSUME NEW x \in Owned \ {e}
        PROVE  /\ x.row.payload = x.payload /\ x.row.wall = epoch + x.anchor
               /\ x.row.last <= x.anchor + Window
               /\ x.row \in Rows'
               /\ \A r \in Rows' : r.id = x.row.id => r = x.row \/ r.revision < x.row.revision
    BY <1>7, <2>2 DEF IInv, NewestKept
  <2>5. new.row.last <= new.anchor + Window
    <3>1. PICK a \in Int, l \in Nat : a = e.anchor /\ l = old.last /\ l <= a + Window
      BY <1>3, <1>4
    <3>2. Apart(ts, a) <= Window
      BY <3>1
    <3> QED
      BY <1>3, <1>5, <3>1, <3>2 DEF Apart, Larger
  <2>6. \A r \in Rows' : r.id = row.id => r = row \/ r.revision < row.revision
    <3>1. \A r \in Rows : r.id = old.id => r = old \/ r.revision < old.revision
      BY <1>2 DEF IInv, NewestKept, old
    <3> QED
      BY <1>3, <1>5, <1>7, <1>10, <3>1
  <2>7. /\ new.row.payload = new.payload /\ new.row.wall = epoch + new.anchor /\ new.row \in Rows'
    BY <1>4, <1>5, <1>7
  <2> QED
    BY <1>1, <1>5, <1>9, <2>1, <2>3, <2>4, <2>5, <2>6, <2>7 DEF NewestKept
<1>13. AnchorsApart'
  BY <1>1, <1>5 DEF IInv, AnchorsApart
<1>14. Covered'
  <2> SUFFICES ASSUME ~ forced', ~ stepped'
               PROVE  /\ \A r \in Rows' : Gone(r)' \/ CoveredBy(r, tracked)'
                      /\ \A r, o \in Rows' : r.payload = o.payload /\ r.id # o.id
                                               => Apart(r.wall, o.wall) > Window
                      /\ \A r \in Rows' : \E d \in Cameras : r.wall <= epoch' + clock'[d]
    BY DEF Covered
  <2>1. /\ \A r \in Rows : Gone(r)' \/ CoveredBy(r, kept)
        /\ \A r, o \in Rows : r.payload = o.payload /\ r.id # o.id => Apart(r.wall, o.wall) > Window
        /\ \A r \in Rows : \E d \in Cameras : r.wall <= epoch + clock[d]
    BY <1>1 DEF IInv, Covered
  <2>2. \A r : CoveredBy(r, kept) => CoveredBy(r, tracked')
    BY <1>1, <1>5 DEF CoveredBy
  <2>3. CoveredBy(row, tracked')
    BY <1>1, <1>4, <1>5 DEF CoveredBy
  <2>4. \A r \in Rows' : Gone(r)' \/ CoveredBy(r, tracked)'
    BY <1>1, <1>7, <2>1, <2>2, <2>3 DEF CoveredBy
  <2>5. \A r, o \in Rows' : r.payload = o.payload /\ r.id # o.id => Apart(r.wall, o.wall) > Window
    BY <1>2, <1>5, <1>7, <2>1
  <2>6. \A r \in Rows : \E d \in Cameras : r.wall <= epoch + clock'[d]
    <3> SUFFICES ASSUME NEW r \in Rows
                 PROVE  \E d \in Cameras : r.wall <= epoch + clock'[d]
      OBVIOUS
    <3>1. PICK d \in Cameras : r.wall <= epoch + clock[d]
      BY <2>1
    <3> QED
      BY <1>3, <1>10, <3>1
  <2> QED
    BY <1>1, <1>2, <1>5, <1>7, <2>4, <2>5, <2>6
<1> QED
  BY <1>11, <1>12, <1>13, <1>14 DEF IInv

LEMMA SubmitPassStep ==
  ASSUME IInv, NEW c \in Cameras, NEW p \in Payloads, NEW ts \in Ticks, SubmitPass(c, p, ts)
  PROVE  IInv'
<1> DEFINE high == Noted(c, ts)
           live == Reachable(high)
<1>1. /\ Idle(c) /\ passes < MaxPasses /\ ts >= clock[c] /\ passes' = passes + 1
      /\ clock' = [ clock EXCEPT ![c] = ts ] /\ highWater' = high
      /\ forced' = (forced \/ Cardinality(live) > MaxTracked)
      /\ UNCHANGED <<store, epoch, restarts, stepped>>
  BY DEF SubmitPass
<1>2. /\ clock' = [ clock EXCEPT ![c] = Larger(@, ts) ] /\ clock'[c] = ts
      /\ \A d \in Cameras : d # c => clock'[d] = clock[d]
  <2>1. clock[c] \in Nat /\ ts \in Nat
    BY DedupAssumption DEF IInv, Types, Ticks
  <2>2. Larger(clock[c], ts) = ts
    BY <1>1, <2>1 DEF Larger
  <2> QED
    BY <1>1, <2>2 DEF IInv, Types
<1>3. /\ HighWaters'
      /\ highWater' \in [ Cameras -> Ticks \cup {Silent} ] /\ clock' \in [ Cameras -> Ticks ]
      /\ \A d \in Cameras : clock[d] \in Nat /\ clock'[d] \in Nat /\ clock[d] <= clock'[d]
      /\ ts <= clock'[c]
  BY <1>1, <1>2, ProgressIsForward DEF IInv
<1>4. PICK kept \in Survivors(high) :
        LET near == Matches(kept, p, ts)
            e    == Nearest(near, ts)
        IN  \/ near = {} /\ EmitNew(c, p, ts, kept)
            \/ near # {} /\ e.row = NoRow /\ Suppress(kept)
            \/ near # {} /\ e.row # NoRow /\ c \in e.row.cameras /\ Suppress(kept)
            \/ near # {} /\ e.row # NoRow /\ c \notin e.row.cameras /\ Merge(c, e, ts, kept)
  BY DEF SubmitPass
<1> DEFINE near == Matches(kept, p, ts)
           e    == Nearest(near, ts)
<1>5. /\ kept \subseteq tracked /\ IsFiniteSet(kept)
      /\ \A r \in Row : Cardinality(live) <= MaxTracked /\ (Gone(r) \/ CoveredBy(r, tracked))
                          => Gone(r)' \/ CoveredBy(r, kept)
  BY <1>1, <1>2, EvictionIsSafe
<1>6. forced' \/ stepped \/ \A r \in Rows : Gone(r)' \/ CoveredBy(r, kept)
  <2> SUFFICES ASSUME ~ forced', ~ stepped
               PROVE  \A r \in Rows : Gone(r)' \/ CoveredBy(r, kept)
    OBVIOUS
  <2>1. IsFiniteSet(live)
    BY FS_Subset DEF Reachable, IInv, Types
  <2>2. PICK n \in Nat : n = Cardinality(live)
    BY <2>1, FS_CardinalityType
  <2>3. ~ (n > MaxTracked) /\ ~ forced
    BY <1>1, <2>2
  <2>4. Cardinality(live) <= MaxTracked
    BY <2>2, <2>3, DedupAssumption
  <2>5. \A r \in Rows : r \in Row /\ (Gone(r) \/ CoveredBy(r, tracked))
    BY <2>3, RowsAreRows DEF IInv, Covered
  <2> QED
    BY <1>5, <2>4, <2>5
<1>7. forced => forced'
  BY <1>1
<1>8. forced' \in BOOLEAN
  BY <1>1 DEF IInv, Types
<1>9. passes' \in 0 .. MaxPasses
  BY <1>1, DedupAssumption DEF IInv, Types
<1>10. ASSUME tracked' \subseteq Entry, IsFiniteSet(tracked'),
              publishing' \in [ Cameras -> Row \cup {NoRow} ]
       PROVE  Types'
  BY <1>1, <1>3, <1>8, <1>9, <1>10 DEF IInv, Types
<1>11. near # {} => e \in kept /\ Apart(ts, e.anchor) <= Window
  <2> SUFFICES ASSUME near # {} PROVE e \in kept /\ Apart(ts, e.anchor) <= Window
    OBVIOUS
  <2>1. near \in SUBSET Entry /\ ts \in Int
    BY <1>5, DedupAssumption DEF Matches, IInv, Types, Ticks
  <2>2. e \in near
    BY <2>1, NearestIsThere
  <2> QED
    BY <2>2 DEF Matches
<1> HIDE DEF e
<1>12. CASE near = {} /\ EmitNew(c, p, ts, kept)
  <2>1. Types'
    BY <1>1, <1>5, <1>10, <1>12, NewIsTyped DEF IInv
  <2> QED
    BY <1>1, <1>2, <1>3, <1>5, <1>6, <1>7, <1>12, <2>1, EmitNewStep
<1>13. CASE Suppress(kept)
  <2>1. Types'
    BY <1>5, <1>10, <1>13 DEF Suppress, IInv, Types
  <2> QED
    BY <1>1, <1>3, <1>5, <1>6, <1>7, <1>13, <2>1, SuppressStep
<1>14. CASE near # {} /\ e.row # NoRow /\ Merge(c, e, ts, kept)
  <2>1. e.row \in Rows
    BY <1>5, <1>11, <1>14 DEF IInv, NewestKept, Owned
  <2>2. Types'
    BY <1>1, <1>5, <1>10, <1>11, <1>14, <2>1, MergedIsTyped DEF IInv
  <2> QED
    BY <1>1, <1>3, <1>5, <1>6, <1>7, <1>11, <1>14, <2>2, MergeStep
<1> QED
  BY <1>4, <1>12, <1>13, <1>14 DEF e

-----------------------------------------------------------------------------
(* Publication.                                                            *)

(* The row handed on is stored, unless a newer revision already is; what   *)
(* nobody handed on again is not touched.                                  *)
LEMMA PublishStep ==
  ASSUME IInv, NEW c \in Cameras, Publish(c)
  PROVE  IInv'
<1> DEFINE row == publishing[c]
<1>1. /\ row # NoRow /\ store' = Upserted(row) /\ publishing' = [ publishing EXCEPT ![c] = NoRow ]
      /\ UNCHANGED <<tracked, highWater, forced, clock, passes, epoch, restarts, stepped>>
  BY DEF Publish, Idle
<1>2. row \in Row /\ row \in Rows
  BY <1>1 DEF IInv, Types, Rows, Idle
<1>3. \A r \in Rows : r \in Row /\ r.id \in Nat /\ r.revision \in Nat
  BY RowsAreRows, RowFields DEF IInv
<1>4. \A d \in Cameras : publishing'[d] = IF d = c THEN NoRow ELSE publishing[d]
  BY <1>1 DEF IInv, Types
<1>5. /\ \A d \in Cameras : d # c /\ publishing[d] # NoRow => publishing[d] \in Rows'
      /\ \A r \in Rows' : r \in store' \/ \E d \in Cameras : d # c /\ publishing[d] # NoRow /\ r = publishing[d]
  BY <1>4 DEF Rows, Idle
<1> HIDE DEF row
<1>6. store' \subseteq store \cup {row} /\ IsFiniteSet(store')
  <2>1. store' \subseteq store \cup {row}
    BY <1>1 DEF Upserted
  <2>2. IsFiniteSet(store \cup {row})
    BY FS_AddElement DEF IInv, Types
  <2> QED
    BY <2>1, <2>2, FS_Subset
<1>7. Rows' \subseteq Rows
  BY <1>2, <1>5, <1>6 DEF Rows, Idle
<1>8. ASSUME NEW e \in Owned
      PROVE  e.row \in Rows'
  <2>1. /\ e.row \in Rows
        /\ \A r \in Rows : r.id = e.row.id => r = e.row \/ r.revision < e.row.revision
    BY <1>8 DEF IInv, NewestKept
  <2>2. store' \subseteq Rows'
    BY DEF Rows
  <2>3. CASE e.row = row
    <3>1. \A r \in store : r.id = row.id => ~ (r.revision > row.revision)
      <4> SUFFICES ASSUME NEW r \in store, r.id = row.id
                   PROVE  ~ (r.revision > row.revision)
        OBVIOUS
      <4>1. r \in Rows
        BY DEF Rows
      <4> QED
        BY <1>2, <1>3, <2>1, <2>3, <4>1
    <3> QED
      BY <1>1, <2>2, <2>3, <3>1 DEF Upserted
  <2>4. CASE e.row # row /\ e.row \in store
    <3>1. CASE e.row.id = row.id
      <4>1. row.revision < e.row.revision
        BY <1>2, <2>1, <2>4, <3>1
      <4>2. e.row.revision > row.revision
        BY <1>2, <1>3, <2>1, <4>1
      <4> QED
        BY <1>1, <2>2, <2>4, <3>1, <4>2 DEF Upserted
    <3>2. CASE e.row.id # row.id
      BY <1>1, <2>2, <2>4, <3>2 DEF Upserted
    <3> QED
      BY <3>1, <3>2
  <2>5. CASE e.row # row /\ e.row \notin store
    <3>1. PICK d \in Cameras : publishing[d] # NoRow /\ e.row = publishing[d]
      BY <2>1, <2>5 DEF Rows, Idle
    <3>2. d # c
      BY <2>5, <3>1 DEF row
    <3> QED
      BY <1>5, <3>1, <3>2
  <2> QED
    BY <2>3, <2>4, <2>5
<1>9. Types'
  <2>1. publishing' \in [ Cameras -> Row \cup {NoRow} ]
    BY <1>1 DEF IInv, Types
  <2>2. store' \subseteq Row
    BY <1>2, <1>6 DEF IInv, Types
  <2> QED
    BY <1>1, <1>6, <2>1, <2>2 DEF IInv, Types
<1>10. Owned' = Owned
  BY <1>1 DEF Owned
<1>11. NewestKept'
  BY <1>1, <1>7, <1>8, <1>10 DEF IInv, NewestKept
<1>12. IdsFresh' /\ AnchorsApart' /\ HighWaters'
  BY <1>1, <1>7 DEF IInv, IdsFresh, AnchorsApart, HighWaters
<1>13. Covered'
  BY <1>1, <1>7 DEF IInv, Covered, Gone, CoveredBy
<1> QED
  BY <1>9, <1>11, <1>12, <1>13 DEF IInv

-----------------------------------------------------------------------------
(* A restart.                                                              *)

Newest(start) ==
  { r \in store : /\ Usable(r, start)
                  /\ \A o \in store : Usable(o, start) /\ o.payload = r.payload => o.wall <= r.wall }

Seed(r, start) == [ payload |-> r.payload, anchor |-> -Larger(start - r.wall, 0), row |-> NoRow ]

(* One seed for each newest row, finitely many, and no event in them.      *)
LEMMA SeedsAreEntries ==
  ASSUME Types, NEW start \in Int
  PROVE  /\ Seeds(start) = { Seed(r, start) : r \in Newest(start) }
         /\ Seeds(start) \subseteq Entry /\ IsFiniteSet(Seeds(start))
         /\ \A e \in Seeds(start) : e.row = NoRow
<1>1. Seeds(start) = { Seed(r, start) : r \in Newest(start) }
  BY DEF Seeds, Seed, Newest
<1>2. \A r \in Newest(start) : r \in Row /\ r.payload \in Payloads /\ r.wall \in Int
  BY RowFields DEF Newest, Types
<1>3. ASSUME NEW r \in Newest(start)
      PROVE  Seed(r, start) \in Entry /\ Seed(r, start).row = NoRow
  <2>1. PICK w \in Int : w = r.wall
    BY <1>2
  <2>2. -Larger(start - w, 0) \in Int
    BY DEF Larger
  <2>3. -Larger(start - r.wall, 0) \in Int
    BY <2>1, <2>2
  <2> QED
    BY <1>2, <2>3 DEF Seed, Entry
<1>4. IsFiniteSet(Seeds(start))
  <2> DEFINE f == [ r \in Newest(start) |-> Seed(r, start) ]
  <2>1. f \in Surjection(Newest(start), Seeds(start))
    BY <1>1 DEF Surjection
  <2>2. IsFiniteSet(Newest(start))
    BY FS_Subset DEF Newest, Types
  <2> QED
    BY <2>1, <2>2, FS_Surjection
<1> QED
  BY <1>1, <1>3, <1>4

(* A stored row that no seed stands for is too old for any pass of the new *)
(* process: it is not usable, or a later row of its payload is.            *)
LEMMA SeedsCover ==
  ASSUME IInv, ~ forced, ~ stepped, NEW start \in Int, NEW r \in store,
         \A o \in Rows : o.wall <= start
  PROVE  r.wall + Window < start
           \/ \E e \in Seeds(start) : e.payload = r.payload /\ r.wall = start + e.anchor
<1>1. Window \in Nat /\ Slack \in Nat
  BY DedupAssumption
<1>2. \A o \in store : o \in Rows /\ o.wall \in Int /\ o.wall <= start
  BY RowsAreRows, RowFields DEF Rows, IInv
<1>3. PICK w \in Int : w = r.wall /\ w <= start
  BY <1>2
<1>4. CASE ~ Usable(r, start)
  BY <1>1, <1>3, <1>4 DEF Usable
<1>5. CASE r \in Newest(start)
  <2>1. Seed(r, start) \in Seeds(start)
    BY <1>5, SeedsAreEntries DEF IInv
  <2>2. w = start + (-Larger(start - w, 0))
    BY <1>3 DEF Larger
  <2> QED
    BY <1>3, <2>1, <2>2 DEF Seed
<1>6. CASE Usable(r, start) /\ r \notin Newest(start)
  <2>1. PICK o \in store : o.payload = r.payload /\ ~ (o.wall <= r.wall)
    BY <1>6 DEF Newest
  <2>2. PICK v \in Int : v = o.wall /\ v <= start /\ ~ (v <= w)
    BY <1>2, <1>3, <2>1
  <2>3. o.id # r.id
    BY <1>2, <1>3, <2>1, <2>2 DEF IInv, IdsFresh
  <2>4. Apart(w, v) > Window
    BY <1>2, <1>3, <2>1, <2>2, <2>3 DEF IInv, Covered
  <2> QED
    BY <1>1, <1>3, <2>2, <2>4 DEF Apart
<1> QED
  BY <1>4, <1>5, <1>6

LEMMA RestartStep ==
  ASSUME IInv, NEW gap \in Gaps, Restart(gap)
  PROVE  IInv'
<1> DEFINE start == epoch + Reached + gap
<1>1. /\ restarts < MaxRestarts /\ restarts' = restarts + 1 /\ epoch' = start
      /\ stepped' = (stepped \/ gap < 0) /\ tracked' = Seeds(start)
      /\ highWater' = [ d \in Cameras |-> Silent ]
      /\ publishing' = [ d \in Cameras |-> NoRow ]
      /\ clock' = [ d \in Cameras |-> 0 ]
      /\ UNCHANGED <<forced, store, passes>>
  BY DEF Restart
<1>2. /\ Reached \in Nat /\ epoch \in Int /\ gap \in Int /\ Window \in Nat
      /\ \A d \in Cameras : clock[d] \in Nat /\ clock[d] <= Reached
  BY ReachedIsLast, DedupAssumption DEF IInv, Types, Ticks
<1>3. PICK R \in Nat : R = Reached
  BY <1>2
<1>4. start \in Int
  BY <1>2, <1>3
<1> HIDE DEF start
<1>5. /\ Seeds(start) = { Seed(r, start) : r \in Newest(start) }
      /\ Seeds(start) \subseteq Entry /\ IsFiniteSet(Seeds(start))
      /\ \A e \in Seeds(start) : e.row = NoRow
  BY <1>4, SeedsAreEntries DEF IInv
<1>6. Rows' = store /\ store \subseteq Rows /\ Owned' = {}
  BY <1>1, <1>5 DEF Rows, Owned, Idle
<1>7. Types'
  <2>1. highWater' \in [ Cameras -> Ticks \cup {Silent} ] /\ clock' \in [ Cameras -> Ticks ]
    BY <1>1, DedupAssumption DEF Ticks
  <2>2. publishing' \in [ Cameras -> Row \cup {NoRow} ]
    BY <1>1
  <2>3. restarts' \in 0 .. MaxRestarts
    BY <1>1, DedupAssumption DEF IInv, Types
  <2>4. stepped' \in BOOLEAN
    BY <1>1 DEF IInv, Types
  <2> QED
    BY <1>1, <1>4, <1>5, <2>1, <2>2, <2>3, <2>4 DEF IInv, Types
<1>8. IdsFresh' /\ NewestKept'
  BY <1>1, <1>6 DEF IInv, IdsFresh, NewestKept
<1>9. HighWaters'
  BY <1>1 DEF HighWaters
<1>10. AnchorsApart'
  <2> SUFFICES ASSUME NEW e \in Seeds(start), NEW o \in Seeds(start), e.payload = o.payload
               PROVE  e = o
    BY <1>1 DEF AnchorsApart
  <2>1. PICK r \in Newest(start), s \in Newest(start) : e = Seed(r, start) /\ o = Seed(s, start)
    BY <1>5
  <2>2. r \in store /\ s \in store /\ r.payload = s.payload
    BY <2>1 DEF Newest, Seed
  <2>3. r.wall <= s.wall /\ s.wall <= r.wall
    BY <2>1, <2>2 DEF Newest
  <2>4. r.wall \in Int /\ s.wall \in Int
    BY <1>6, <2>2, RowsAreRows, RowFields DEF IInv
  <2>5. r.wall = s.wall
    BY <2>3, <2>4
  <2> QED
    BY <2>1, <2>2, <2>5 DEF Seed
<1>11. Covered'
  <2> SUFFICES ASSUME ~ forced, ~ stepped, ~ (gap < 0)
               PROVE  /\ \A r \in store : Gone(r)' \/ CoveredBy(r, tracked)'
                      /\ \A r, o \in store : r.payload = o.payload /\ r.id # o.id
                                               => Apart(r.wall, o.wall) > Window
                      /\ \A r \in store : \E d \in Cameras : r.wall <= epoch' + clock'[d]
    BY <1>1, <1>6 DEF Covered
  <2>1. \A d \in Cameras : epoch' + clock'[d] = start
    BY <1>1, <1>4
  <2>2. ASSUME NEW r \in Rows
        PROVE  r.wall <= start
    <3>1. PICK d \in Cameras : r.wall <= epoch + clock[d]
      BY DEF IInv, Covered
    <3>2. PICK w \in Int, k \in Nat : w = r.wall /\ k = clock[d] /\ k <= R /\ w <= epoch + k
      BY <1>2, <1>3, <3>1, RowsAreRows, RowFields DEF IInv
    <3>3. start = epoch + R + gap
      BY <1>3 DEF start
    <3> QED
      BY <1>2, <3>2, <3>3
  <2>3. ASSUME NEW r \in store
        PROVE  Gone(r)' \/ CoveredBy(r, tracked)'
    <3>1. r.wall + Window < start
            \/ \E e \in Seeds(start) : e.payload = r.payload /\ r.wall = start + e.anchor
      BY <1>4, <2>2, SeedsCover
    <3> QED
      BY <1>1, <2>1, <3>1 DEF Gone, CoveredBy
  <2>4. \A r \in store : \E d \in Cameras : r.wall <= epoch' + clock'[d]
    BY <1>6, <2>1, <2>2, DedupAssumption
  <2> QED
    BY <1>6, <2>3, <2>4 DEF IInv, Covered
<1> QED
  BY <1>7, <1>8, <1>9, <1>10, <1>11 DEF IInv

-----------------------------------------------------------------------------
(* The theorems.                                                           *)

LEMMA StepIInv == IInv /\ [Next]_vars => IInv'
<1> SUFFICES ASSUME IInv, [Next]_vars PROVE IInv'
  OBVIOUS
<1>1. CASE Next
  <2>1. ASSUME NEW c \in Cameras, NEW ts \in Ticks, SubmitMiss(c, ts)
        PROVE  IInv'
    BY <2>1, SubmitMissStep
  <2>2. ASSUME NEW c \in Cameras, NEW ts \in Ticks, NEW p \in Payloads, SubmitPass(c, p, ts)
        PROVE  IInv'
    BY <2>2, SubmitPassStep
  <2>3. ASSUME NEW c \in Cameras, Publish(c)
        PROVE  IInv'
    BY <2>3, PublishStep
  <2>4. ASSUME NEW gap \in Gaps, Restart(gap)
        PROVE  IInv'
    BY <2>4, RestartStep
  <2> QED
    BY <1>1, <2>1, <2>2, <2>3, <2>4 DEF Next
<1>2. CASE UNCHANGED vars
  <2>1. UNCHANGED <<tracked, highWater, forced, publishing, store, clock, passes, epoch,
                    restarts, stepped>>
    BY <1>2 DEF vars
  <2>2. Types' /\ HighWaters' /\ AnchorsApart'
    BY <2>1 DEF IInv, Types, HighWaters, AnchorsApart
  <2>3. Rows' = Rows /\ Owned' = Owned
    BY <2>1 DEF Rows, Owned, Idle
  <2>4. IdsFresh' /\ NewestKept' /\ Covered'
    BY <2>1, <2>3 DEF IInv, IdsFresh, NewestKept, Covered, Gone, CoveredBy
  <2> QED
    BY <2>2, <2>4 DEF IInv
<1> QED
  BY <1>1, <1>2

(* The inductive invariant: the newest revision of every tracked pass has  *)
(* been handed on, and a row without a window entry is out of reach.       *)
THEOREM DedupInvariance == Spec => []IInv
<1> QED
  BY InitIInv, StepIInv, PTL DEF Spec

(* No pallet pass is counted twice, whatever the cameras' order, lag,      *)
(* merges, evictions and restarts, unless the cap or the wall clock forced *)
(* the window to forget.                                                   *)
THEOREM NoPassCountedTwice == Spec => []NoDoubleCount
<1>1. IInv => NoDoubleCount
  BY DEF IInv, AnchorsApart, Covered, Rows, NoDoubleCount
<1> QED
  BY <1>1, DedupInvariance, PTL

(* A tracked pass nobody is publishing is stored in its latest revision,   *)
(* and ends within the window after its first close.                       *)
THEOREM StoreStaysCurrent == Spec => []StoreIsCurrent
<1>1. IInv => StoreIsCurrent
  <2> SUFFICES ASSUME IInv, NEW e \in Owned
               PROVE  /\ (\A c \in Cameras : publishing[c] = NoRow \/ publishing[c].id # e.row.id)
                           => e.row \in store
                      /\ e.row.last + epoch <= e.row.wall + Window
    BY DEF StoreIsCurrent, Owned
  <2>1. e.row \in Rows /\ e.row.wall = epoch + e.anchor /\ e.row.last <= e.anchor + Window
    BY DEF IInv, NewestKept
  <2>2. e.row.last \in Nat /\ e.anchor \in Int /\ epoch \in Int /\ Window \in Nat
    BY <2>1, RowsAreRows, RowFields, EntryFields, DedupAssumption DEF IInv, Types, Owned
  <2>3. e.row.last + epoch <= e.row.wall + Window
    <3>1. PICK l \in Nat, a \in Int, w \in Int :
            l = e.row.last /\ a = e.anchor /\ w = e.row.wall /\ w = epoch + a /\ l <= a + Window
      BY <2>1, <2>2
    <3>2. l + epoch <= w + Window
      BY <2>2, <3>1
    <3> QED
      BY <3>1, <3>2
  <2>4. (\A c \in Cameras : publishing[c] = NoRow \/ publishing[c].id # e.row.id) => e.row \in store
    BY <2>1 DEF Rows, Idle
  <2> QED
    BY <2>3, <2>4
<1> QED
  BY <1>1, DedupInvariance, PTL

(***************************************************************************)
(* Part 2.  The outbox, for any number of events and crashes and any cap:  *)
(* the counters balance, and the endpoint receives in order.               *)
(***************************************************************************)

(* What the uploader has deleted or delivered but not yet counted.         *)
InHand == IF uploader.at = "acked" THEN 1 ELSE IF uploader.at = "reconcile" THEN -1 ELSE 0

(* The books balance at every step, with what either thread has in hand.   *)
Books ==
  /\ base.rows + (inserted - base.inserted) =
       Cardinality(outbox) + delivered + dropped + uncounted + bus.pruned + InHand
  /\ bus.at \in {"idle", "snapshot", "age"} => bus.pruned = 0

BusType ==
  [ at : {"idle", "snapshot", "age", "count aged", "size", "choose", "delete", "count"},
    shield : Seqs \cup {None}, size : Int, row : Seqs \cup {None}, pruned : Nat ]

UploaderType ==
  [ at : {"select", "shield", "post", "ack", "acked", "pruned", "reconcile", "done"},
    row : Seqs \cup {None} ]

(* What TypeOK says of the rest.                                           *)
RestTyped ==
  /\ outbox \subseteq Seqs /\ inserted \in 0 .. MaxEvents
  /\ inFlight \in Seqs \cup {None} /\ stop \in BOOLEAN
  /\ delivered \in Nat /\ dropped \in Int
  /\ received \in Seq(Seqs) /\ uncounted \in Nat
  /\ crashes \in 0 .. MaxCrashes
  /\ base \in [ rows : Nat, inserted : 0 .. MaxEvents, lost : SUBSET Seqs ]

Received == ToSet(received)

(* A row is due when it was received before, or is beyond all that was.    *)
IsDue(row) == row \in Received \/ \A r \in Received : r < row

(* The table has rows that were inserted, the received ones too, and the   *)
(* row under way is the oldest stored one or older.                        *)
Queued ==
  /\ outbox \subseteq 1 .. inserted /\ Received \subseteq 1 .. inserted
  /\ \A o \in outbox : IsDue(o)
  /\ uploader.at \in {"shield", "post", "ack"} =>
       /\ uploader.row \in 1 .. inserted /\ IsDue(uploader.row)
       /\ \A o \in outbox : uploader.row <= o

InOrder == \A i, j \in DOMAIN received : i < j => received[i] < received[j]

OutboxInv == OutboxTypeOK /\ Books /\ Queued /\ InOrder

-----------------------------------------------------------------------------
(* A set of seqs has an oldest one.                                        *)
LEMMA OldestIsThere ==
  ASSUME NEW rows \in SUBSET Nat, rows # {}
  PROVE  Oldest(rows) \in rows /\ \A o \in rows : Oldest(rows) <= o
<1> DEFINE upTo(x) == { y \in rows : y <= x }
           R == StrictSubsetOrdering(rows)
           F == { upTo(x) : x \in rows }
<1>1. F \subseteq FiniteSubsetsOf(rows)
  <2> SUFFICES ASSUME NEW x \in rows PROVE IsFiniteSet(upTo(x))
    BY DEF FiniteSubsetsOf
  <2>1. x \in Nat /\ \A z \in rows : z \in Nat
    OBVIOUS
  <2>2. ASSUME NEW z \in upTo(x) PROVE z \in 0 .. x
    BY <2>1, <2>2
  <2>3. IsFiniteSet(0 .. x)
    BY <2>1, FS_Interval
  <2> QED
    BY <2>2, <2>3, FS_Subset
<1>2. F # {}
  OBVIOUS
<1>3. IsWellFoundedOn(R, FiniteSubsetsOf(rows))
  BY FS_StrictSubsetOrderingWellFounded
<1> HIDE DEF F, R
<1>4. PICK T \in F : \A U \in F : ~ (<<U, T>> \in R)
  BY <1>1, <1>2, <1>3, WFMin
<1>5. PICK x \in rows : T = upTo(x)
  BY DEF F
<1>6. ASSUME NEW y \in rows
      PROVE  x <= y
  <2>1. CASE y < x
    <3>1. x \in Nat /\ \A z \in rows : z \in Nat
      OBVIOUS
    <3>2. ASSUME NEW z \in upTo(y) PROVE z \in upTo(x)
      BY <2>1, <3>1, <3>2
    <3>3. x \in upTo(x) /\ x \notin upTo(y)
      BY <2>1, <3>1
    <3>4. upTo(y) \in SUBSET rows /\ upTo(x) \in SUBSET rows /\ upTo(y) \in F
      BY DEF F
    <3> HIDE DEF upTo
    <3>5. <<upTo(y), T>> \in R
      BY <3>2, <3>3, <3>4, <1>5 DEF R, StrictSubsetOrdering
    <3> QED
      BY <1>4, <3>4, <3>5
  <2> QED
    BY <2>1
<1> QED
  BY <1>6 DEF Oldest

(* TypeOK in three parts.                                                  *)
LEMMA TypeParts == OutboxTypeOK <=> bus \in BusType /\ uploader \in UploaderType /\ RestTyped
  BY DEF OutboxTypeOK, BusType, UploaderType, RestTyped

(* The same of the next state.                                             *)
LEMMA TypePartsNext == OutboxTypeOK' <=> bus' \in BusType /\ uploader' \in UploaderType /\ RestTyped'
  BY DEF OutboxTypeOK, BusType, UploaderType, RestTyped

(* The table is finite, so that it can be counted.                         *)
LEMMA TableIsFinite ==
  ASSUME OutboxTypeOK
  PROVE  IsFiniteSet(outbox) /\ Cardinality(outbox) \in Nat
<1>1. IsFiniteSet(Seqs)
  BY FS_Interval, OutboxAssumption DEF Seqs
<1> QED
  BY <1>1, FS_Subset, FS_CardinalityType DEF OutboxTypeOK

(* What a POST does to the receipts.                                       *)
LEMMA ReceptionAdds ==
  ASSUME OutboxTypeOK, NEW r \in Seqs, Reception(r)
  PROVE  /\ received' \in Seq(Seqs)
         /\ Received' = Received \cup {r}
         /\ InOrder /\ IsDue(r) => InOrder'
<1>1. CASE r \in ToSet(received)
  BY <1>1 DEF Reception, Received, OutboxTypeOK, InOrder
<1>2. CASE r \notin ToSet(received)
  <2>1. received' = Append(received, r) /\ received \in Seq(Seqs)
    BY <1>2 DEF Reception, OutboxTypeOK
  <2>2. /\ received' \in Seq(Seqs) /\ Len(received) \in Nat
        /\ DOMAIN received = 1 .. Len(received)
        /\ DOMAIN received' = 1 .. Len(received) + 1
        /\ \A i \in 1 .. Len(received) : received'[i] = received[i]
        /\ received'[Len(received) + 1] = r
    BY <2>1
  <2>3. Received' = Received \cup {r}
    BY <2>2 DEF Received, ToSet
  <2>4. InOrder /\ IsDue(r) => InOrder'
    BY <1>2, <2>2 DEF InOrder, IsDue, Received, ToSet
  <2> QED
    BY <2>2, <2>3, <2>4
<1> QED
  BY <1>1, <1>2

-----------------------------------------------------------------------------
(* An empty table and no counts.                                           *)
LEMMA InitOutboxInv == OutboxInit => OutboxInv
<1> SUFFICES ASSUME OutboxInit PROVE OutboxInv
  OBVIOUS
<1> USE OutboxAssumption
<1>1. OutboxTypeOK
  <2>1. bus \in [ at : {"idle", "snapshot", "age", "count aged", "size", "choose", "delete", "count"},
                  shield : Seqs \cup {None}, size : Int, row : Seqs \cup {None}, pruned : Nat ]
    BY DEF OutboxInit, IdleBus
  <2>2. uploader \in [ at : {"select", "shield", "post", "ack", "acked", "pruned", "reconcile", "done"},
                       row : Seqs \cup {None} ]
    BY DEF OutboxInit, Looking
  <2>3. base \in [ rows : Nat, inserted : 0 .. MaxEvents, lost : SUBSET Seqs ]
    BY DEF OutboxInit
  <2>4. /\ outbox \subseteq Seqs /\ inserted \in 0 .. MaxEvents
        /\ inFlight \in Seqs \cup {None}
        /\ delivered \in Nat /\ dropped \in Int /\ uncounted \in Nat
        /\ crashes \in 0 .. MaxCrashes
    BY DEF OutboxInit
  <2>5. stop \in BOOLEAN
    BY DEF OutboxInit
  <2>6. received \in Seq(Seqs)
    BY DEF OutboxInit
  <2> QED
    BY <2>1, <2>2, <2>3, <2>4, <2>5, <2>6 DEF OutboxTypeOK
<1>2. Books
  BY FS_EmptySet DEF OutboxInit, Books, InHand, IdleBus, Looking
<1>3. Received = {} /\ DOMAIN received = {}
  BY DEF OutboxInit, Received, ToSet
<1>4. Queued /\ InOrder
  BY <1>3 DEF OutboxInit, Queued, InOrder, Looking
<1> QED
  BY <1>1, <1>2, <1>4 DEF OutboxInv
-----------------------------------------------------------------------------
(* A step of the bus thread keeps the books when the rows that left the    *)
(* table are those it has in hand or has counted.                          *)
LEMMA BusKeeps ==
  ASSUME OutboxInv, Insert \/ BusStep \/ Close
  PROVE  OutboxInv'
<1> USE OutboxAssumption
<1>1. BusOnly /\ OutboxTypeOK /\ Books /\ Queued /\ InOrder
  BY DEF OutboxInv, BusStep, Insert, Snapshot, AgePrune, CountDropped, MeasureSize,
         ChooseVictim, DeleteVictim, PruneFails, Close
<1>2. IsFiniteSet(outbox) /\ Cardinality(outbox) \in Nat
  BY <1>1, TableIsFinite
<1>3. InOrder' /\ Received' = Received
  BY <1>1 DEF BusOnly, InOrder, Received
<1>4. bus \in BusType /\ uploader \in UploaderType /\ RestTyped
  BY <1>1, TypeParts
<1>5. /\ inserted \in Nat /\ dropped \in Int /\ uncounted \in Nat /\ delivered \in Nat
      /\ base.rows \in Nat /\ base.inserted \in Nat
      /\ bus.pruned \in Nat /\ InHand \in Int
  <2>1. inserted \in Nat /\ dropped \in Int /\ uncounted \in Nat /\ delivered \in Nat
    BY <1>4 DEF RestTyped
  <2>2. base.rows \in Nat /\ base.inserted \in Nat
    BY <1>4 DEF RestTyped
  <2>3. bus.pruned \in Nat
    BY <1>4 DEF BusType
  <2>4. InHand \in Int
    BY DEF InHand
  <2> QED
    BY <2>1, <2>2, <2>3, <2>4
<1>6. /\ UNCHANGED <<delivered, base>> /\ InHand' = InHand /\ uploader' \in UploaderType
  BY <1>1, <1>4 DEF BusOnly, InHand
<1>7. ASSUME bus' \in BusType, outbox' \subseteq outbox, inserted' = inserted,
             stop' \in BOOLEAN, dropped' \in Int, uncounted' \in Nat
      PROVE  OutboxTypeOK' /\ Queued'
  <2>1. RestTyped'
    BY <1>1, <1>4, <1>7 DEF BusOnly, RestTyped
  <2>2. Queued'
    BY <1>1, <1>3, <1>7 DEF BusOnly, Queued, IsDue
  <2> QED
    BY <1>6, <1>7, <2>1, <2>2, TypePartsNext
<1>8. base.rows + (inserted - base.inserted) =
        Cardinality(outbox) + delivered + dropped + uncounted + bus.pruned + InHand
  BY <1>1 DEF Books
<1>18. ASSUME base.rows + (inserted' - base.inserted) =
                Cardinality(outbox') + delivered + dropped' + uncounted' + bus'.pruned + InHand,
              bus'.at \in {"idle", "snapshot", "age"} => bus'.pruned = 0
       PROVE  Books'
  BY <1>6, <1>18 DEF Books
<1>9. CASE Insert
  <2>1. inserted + 1 \in Seqs /\ inserted + 1 \notin outbox /\ inserted \in 0 .. MaxEvents
    BY <1>1, <1>4, <1>9 DEF Insert, RestTyped, Queued, Seqs
  <2>2. Cardinality(outbox') = Cardinality(outbox) + 1
    BY <1>2, <1>9, <2>1, FS_AddElement DEF Insert
  <2>3. /\ bus' \in BusType /\ bus'.pruned = 0 /\ bus.pruned = 0
        /\ inserted' = inserted + 1 /\ UNCHANGED <<dropped, uncounted>>
    BY <1>1, <1>4, <1>9 DEF Insert, BusType, Books
  <2>4. RestTyped'
    BY <1>1, <1>4, <1>9, <2>1 DEF Insert, BusOnly, RestTyped, Seqs
  <2>5. Books'
    <3>1. base.rows + (inserted' - base.inserted) =
            Cardinality(outbox') + delivered + dropped' + uncounted' + bus'.pruned + InHand
      BY <1>2, <1>5, <1>8, <2>2, <2>3
    <3> QED
      BY <1>18, <3>1, <2>2, <2>3
  <2>6. Queued'
    <3>1. outbox' = outbox \cup {inserted + 1} /\ inserted' = inserted + 1
      BY <1>9 DEF Insert
    <3>2. IsDue(inserted + 1) /\ \A x : IsDue(x)' <=> IsDue(x)
      BY <1>1, <1>3, <1>5 DEF Queued, IsDue
    <3> QED
      BY <1>1, <1>3, <1>5, <3>1, <3>2 DEF BusOnly, Queued
  <2> QED
    BY <1>3, <1>6, <2>3, <2>4, <2>5, <2>6, TypePartsNext DEF OutboxInv
<1>10. CASE Snapshot
  <2>1. /\ bus' \in BusType /\ bus'.pruned = 0 /\ bus.pruned = 0
        /\ UNCHANGED <<outbox, inserted, stop, dropped, uncounted>>
    BY <1>1, <1>4, <1>10 DEF Snapshot, BusType, RestTyped, Books
  <2>2. Books'
    <3>1. base.rows + (inserted' - base.inserted) =
            Cardinality(outbox') + delivered + dropped' + uncounted' + bus'.pruned + InHand
      BY <1>2, <1>5, <1>8, <2>1
    <3> QED
      BY <1>18, <3>1, <2>1
  <2>3. OutboxTypeOK' /\ Queued'
    BY <1>4, <1>7, <2>1 DEF RestTyped
  <2> QED
    BY <1>3, <2>2, <2>3 DEF OutboxInv
<1>11. CASE AgePrune
  <2>1. PICK n \in 0 .. inserted :
          LET aged == { r \in outbox : r <= n } \ {bus.shield}
          IN  /\ outbox' = outbox \ aged
              /\ bus' = [ bus EXCEPT !.at = "count aged", !.pruned = RowCount(aged) ]
    BY <1>11 DEF AgePrune
  <2> DEFINE aged == { r \in outbox : r <= n } \ {bus.shield}
  <2>2. aged \subseteq outbox /\ outbox' = outbox \ aged
    BY <2>1
  <2>3. bus' = [ bus EXCEPT !.at = "count aged", !.pruned = Cardinality(aged) ]
    BY <2>1 DEF RowCount
  <2> HIDE DEF aged
  <2>4. /\ Cardinality(aged) \in Nat /\ Cardinality(outbox') \in Nat
        /\ Cardinality(outbox') = Cardinality(outbox) - Cardinality(aged)
    <3>1. IsFiniteSet(aged) /\ outbox \cap aged = aged
      BY <1>2, <2>2, FS_Subset
    <3>2. IsFiniteSet(outbox')
      BY <1>2, <2>2, FS_Difference
    <3> QED
      BY <1>2, <2>2, <3>1, <3>2, FS_Difference, FS_CardinalityType
  <2>5. UNCHANGED <<inserted, stop, dropped, uncounted>> /\ bus.at = "age" /\ bus.pruned = 0
    BY <1>1, <1>11 DEF AgePrune, Books
  <2>9. inserted' = inserted /\ dropped' = dropped /\ uncounted' = uncounted
    BY <2>5
  <2>6. bus' \in BusType /\ bus'.at = "count aged" /\ bus'.pruned = Cardinality(aged)
    BY <1>4, <2>3, <2>4 DEF BusType
  <2>7. Books'
    <3>1. base.rows + (inserted' - base.inserted) =
            Cardinality(outbox') + delivered + dropped' + uncounted' + bus'.pruned + InHand
      <4>1. Cardinality(outbox) = Cardinality(outbox') + Cardinality(aged)
        BY <1>2, <2>4
      <4>2. /\ bus'.pruned = Cardinality(aged) /\ bus.pruned = 0
            /\ inserted' = inserted /\ dropped' = dropped /\ uncounted' = uncounted
        BY <2>5, <2>6
      <4> QED
        BY <1>2, <1>5, <1>8, <2>4, <4>1, <4>2
    <3> QED
      BY <1>18, <2>6, <3>1
  <2>8. OutboxTypeOK' /\ Queued'
    BY <1>4, <1>7, <2>2, <2>5, <2>6 DEF RestTyped
  <2> QED
    BY <1>3, <2>7, <2>8 DEF OutboxInv
<1>12. CASE CountDropped
  <2>1. /\ dropped' = dropped + bus.pruned
        /\ UNCHANGED <<outbox, inserted, stop, uncounted>>
    BY <1>12 DEF CountDropped, Adjusted
  <2>0. bus' \in BusType /\ bus'.pruned = 0
    <3>1. CASE bus' = IdleBus
      BY <3>1 DEF IdleBus, None, BusType
    <3>2. CASE bus' = [ bus EXCEPT !.at = "size", !.pruned = 0 ]
      BY <1>4, <3>2 DEF BusType
    <3> QED
      BY <1>12, <3>1, <3>2 DEF CountDropped
  <2>2. Books'
    <3>1. base.rows + (inserted' - base.inserted) =
            Cardinality(outbox') + delivered + dropped' + uncounted' + bus'.pruned + InHand
      BY <1>2, <1>5, <1>8, <2>0, <2>1
    <3> QED
      BY <1>18, <3>1, <2>0, <2>1
  <2>3. OutboxTypeOK' /\ Queued'
    BY <1>4, <1>5, <1>7, <2>0, <2>1 DEF RestTyped
  <2> QED
    BY <1>3, <2>2, <2>3 DEF OutboxInv
<1>13. CASE MeasureSize
  <2>1. UNCHANGED <<outbox, inserted, stop, dropped, uncounted>>
    BY <1>13 DEF MeasureSize
  <2>0. bus' \in BusType /\ bus'.at = "choose" /\ bus'.pruned = bus.pruned
    <3>1. bus' = [ bus EXCEPT !.at = "choose", !.size = Cardinality(outbox) ]
      BY <1>13 DEF MeasureSize
    <3>2. Cardinality(outbox) \in Int
      BY <1>2
    <3> QED
      BY <1>4, <3>1, <3>2 DEF BusType
  <2>2. Books'
    <3>1. base.rows + (inserted' - base.inserted) =
            Cardinality(outbox') + delivered + dropped' + uncounted' + bus'.pruned + InHand
      BY <1>2, <1>5, <1>8, <2>0, <2>1
    <3> QED
      BY <1>18, <3>1, <2>0, <2>1
  <2>3. OutboxTypeOK' /\ Queued'
    BY <1>4, <1>7, <2>0, <2>1 DEF RestTyped
  <2> QED
    BY <1>3, <2>2, <2>3 DEF OutboxInv
<1>14. CASE ChooseVictim
  <2> DEFINE rows == outbox \ {bus.shield}
  <2>1. \/ rows # {} /\ bus' = [ bus EXCEPT !.at = "delete", !.row = Oldest(rows) ]
        \/ bus' = [ bus EXCEPT !.at = "count" ]
    BY <1>14 DEF ChooseVictim
  <2>2. rows # {} => Oldest(rows) \in Seqs
    <3>1. rows \subseteq Seqs
      BY <1>4 DEF RestTyped
    <3>2. \A x \in Seqs : x \in Nat
      BY DEF Seqs
    <3> QED
      BY <3>1, <3>2, OldestIsThere
  <2> HIDE DEF rows
  <2>3. UNCHANGED <<outbox, inserted, stop, dropped, uncounted>>
    BY <1>14 DEF ChooseVictim
  <2>4. /\ bus' \in BusType /\ bus'.at \in {"delete", "count"} /\ bus'.pruned = bus.pruned
    <3>1. CASE rows # {} /\ bus' = [ bus EXCEPT !.at = "delete", !.row = Oldest(rows) ]
      BY <1>4, <2>2, <3>1 DEF BusType
    <3>2. CASE bus' = [ bus EXCEPT !.at = "count" ]
      BY <1>4, <3>2 DEF BusType
    <3> QED
      BY <2>1, <3>1, <3>2
  <2>5. Books'
    <3>1. base.rows + (inserted' - base.inserted) =
            Cardinality(outbox') + delivered + dropped' + uncounted' + bus'.pruned + InHand
      BY <1>2, <1>5, <1>8, <2>3, <2>4
    <3> QED
      BY <1>18, <3>1, <2>3, <2>4
  <2>6. OutboxTypeOK' /\ Queued'
    BY <1>4, <1>7, <2>3, <2>4 DEF RestTyped
  <2> QED
    BY <1>3, <2>5, <2>6 DEF OutboxInv
<1>15. CASE DeleteVictim
  <2>1. /\ Cardinality(outbox') \in Nat /\ Taken \in {0, 1}
        /\ Cardinality(outbox') = Cardinality(outbox) - Taken
    BY <1>2, <1>15, FS_RemoveElement, FS_CardinalityType DEF DeleteVictim, Taken
  <2>2. bus' = [ bus EXCEPT !.at = "choose", !.size = bus.size - 1, !.row = None,
                            !.pruned = bus.pruned + Taken ]
    BY <1>15 DEF DeleteVictim
  <2>3. bus.size - 1 \in Int /\ bus.pruned + Taken \in Nat
    <3>1. bus.size \in Int
      BY <1>4 DEF BusType
    <3> QED
      BY <1>5, <2>1, <3>1
  <2>4. bus' \in BusType /\ bus'.at = "choose" /\ bus'.pruned = bus.pruned + Taken
    BY <1>4, <2>2, <2>3 DEF BusType
  <2>5. outbox' \subseteq outbox /\ UNCHANGED <<inserted, stop, dropped, uncounted>>
    BY <1>15 DEF DeleteVictim
  <2>6. Books'
    <3>1. base.rows + (inserted' - base.inserted) =
            Cardinality(outbox') + delivered + dropped' + uncounted' + bus'.pruned + InHand
      BY <1>2, <1>5, <1>8, <2>1, <2>4, <2>5
    <3> QED
      BY <1>18, <3>1, <2>1, <2>4, <2>5
  <2>7. OutboxTypeOK' /\ Queued'
    BY <1>4, <1>7, <2>4, <2>5 DEF RestTyped
  <2> QED
    BY <1>3, <2>6, <2>7 DEF OutboxInv
<1>16. CASE PruneFails
  <2>1. /\ uncounted' = uncounted + bus.pruned
        /\ UNCHANGED <<outbox, inserted, stop, dropped>>
    BY <1>16 DEF PruneFails
  <2>0. bus' \in BusType /\ bus'.pruned = 0
    BY <1>16 DEF PruneFails, IdleBus, None, BusType
  <2>2. Books'
    <3>1. base.rows + (inserted' - base.inserted) =
            Cardinality(outbox') + delivered + dropped' + uncounted' + bus'.pruned + InHand
      BY <1>2, <1>5, <1>8, <2>0, <2>1
    <3> QED
      BY <1>18, <3>1, <2>0, <2>1
  <2>3. OutboxTypeOK' /\ Queued'
    BY <1>4, <1>5, <1>7, <2>0, <2>1 DEF RestTyped
  <2> QED
    BY <1>3, <2>2, <2>3 DEF OutboxInv
<1>17. CASE Close
  <2>1. /\ UNCHANGED <<outbox, inserted, bus, dropped, uncounted>> /\ stop' = TRUE
    BY <1>17 DEF Close
  <2>2. Books'
    BY <1>1, <1>6, <2>1 DEF Books
  <2>3. OutboxTypeOK' /\ Queued'
    BY <1>4, <1>5, <1>7, <2>1
  <2> QED
    BY <1>3, <2>2, <2>3 DEF OutboxInv
<1> QED
  BY <1>9, <1>10, <1>11, <1>12, <1>13, <1>14, <1>15, <1>16, <1>17 DEF BusStep

-----------------------------------------------------------------------------
(* A step of the uploader thread: the row that has left the table is in    *)
(* hand until it is counted as delivered, and a row that the pruner took   *)
(* under a delivery is counted twice until it is reconciled.               *)
LEMMA UploaderKeeps ==
  ASSUME OutboxInv, UploaderStep
  PROVE  OutboxInv'
<1> USE OutboxAssumption
<1>1. UploaderOnly /\ OutboxTypeOK /\ Books /\ Queued /\ InOrder
  BY DEF OutboxInv, UploaderStep, Select, Shield, PostAnswered, PostFails, Ack, AckFails,
         CountDelivered, Reconcile
<1>2. IsFiniteSet(outbox) /\ Cardinality(outbox) \in Nat
  BY <1>1, TableIsFinite
<1>3. bus \in BusType /\ uploader \in UploaderType /\ RestTyped
  BY <1>1, TypeParts
<1>4. /\ dropped \in Int /\ delivered \in Nat /\ inFlight \in Seqs \cup {None}
      /\ received \in Seq(Seqs) /\ outbox \subseteq Seqs
  BY <1>3 DEF RestTyped
<1>5. /\ inserted \in Nat /\ uncounted \in Nat /\ base.rows \in Nat /\ base.inserted \in Nat
      /\ bus.pruned \in Nat
  <2>1. inserted \in Nat /\ uncounted \in Nat
    BY <1>3 DEF RestTyped
  <2>2. base.rows \in Nat /\ base.inserted \in Nat
    BY <1>3 DEF RestTyped
  <2>3. bus.pruned \in Nat
    BY <1>3 DEF BusType
  <2> QED
    BY <2>1, <2>2, <2>3
<1>6. base.rows + (inserted - base.inserted) =
        Cardinality(outbox) + delivered + dropped + uncounted + bus.pruned + InHand
  BY <1>1 DEF Books
<1>7. ASSUME base.rows + (inserted - base.inserted) =
               Cardinality(outbox') + delivered' + dropped' + uncounted + bus.pruned + InHand'
      PROVE  Books'
  BY <1>1, <1>7 DEF UploaderOnly, Books
<1>8. ASSUME uploader' \in UploaderType, outbox' \subseteq outbox, inFlight' \in Seqs \cup {None},
             delivered' \in Nat, dropped' \in Int, received' \in Seq(Seqs)
      PROVE  OutboxTypeOK'
  <2>1. bus' \in BusType
    BY <1>1, <1>3 DEF UploaderOnly
  <2>2. RestTyped'
    BY <1>1, <1>3, <1>8 DEF UploaderOnly, RestTyped
  <2> QED
    BY <1>8, <2>1, <2>2, TypePartsNext
<1>9. ASSUME received' = received
      PROVE  InOrder' /\ Received' = Received
  BY <1>1, <1>9 DEF InOrder, Received
<1>10. ASSUME received' = received, outbox' \subseteq outbox,
              uploader'.at \in {"shield", "post", "ack"} =>
                uploader.at \in {"shield", "post", "ack"} /\ uploader'.row = uploader.row
       PROVE  Queued'
  BY <1>1, <1>9, <1>10 DEF UploaderOnly, Queued, IsDue
<1>11. Looking \in UploaderType /\ Looking.at = "select"
  BY DEF Looking, UploaderType, None
<1>12. None \in Seqs \cup {None}
  OBVIOUS
<1>13. ASSUME uploader.at = "post", Reception(uploader.row), UNCHANGED outbox,
              uploader'.at \in {"shield", "post", "ack"} => uploader'.row = uploader.row
       PROVE  received' \in Seq(Seqs) /\ InOrder' /\ Queued'
  <2>1. /\ uploader.row \in 1 .. inserted /\ IsDue(uploader.row)
        /\ \A o \in outbox : uploader.row <= o
    BY <1>1, <1>13 DEF Queued
  <2>2. uploader.row \in Seqs
    BY <1>3, <2>1 DEF RestTyped, Seqs
  <2>3. /\ received' \in Seq(Seqs) /\ InOrder'
        /\ Received' = Received \cup {uploader.row}
    BY <1>1, <1>13, <2>1, <2>2, ReceptionAdds
  <2>4. ASSUME NEW o \in outbox PROVE IsDue(o)'
    <3>1. CASE o = uploader.row
      BY <2>3, <3>1 DEF IsDue
    <3>2. CASE o # uploader.row
      <4>1. uploader.row < o
        BY <1>4, <2>1, <2>2, <3>2 DEF Seqs
      <4> QED
        BY <1>1, <2>3, <4>1 DEF Queued, IsDue
    <3> QED
      BY <3>1, <3>2
  <2>6. Queued'
    BY <1>1, <1>13, <2>1, <2>3, <2>4 DEF UploaderOnly, Queued, IsDue
  <2> QED
    BY <2>3, <2>6
<1>14. CASE Select
  <2>1. UNCHANGED <<outbox, inFlight, delivered, dropped, received>> /\ uploader.at = "select"
    BY <1>14 DEF Select, counters
  <2>2. CASE stop
    <3>1. uploader' = [ uploader EXCEPT !.at = "done" ]
      BY <1>14, <2>2 DEF Select
    <3>2. uploader' \in UploaderType /\ uploader'.at = "done"
      BY <1>3, <3>1 DEF UploaderType
    <3>3. InHand = 0 /\ InHand' = 0
      BY <2>1, <3>2 DEF InHand
    <3> QED
      BY <1>4, <1>6, <1>7, <1>8, <1>9, <1>10, <2>1, <3>2, <3>3 DEF OutboxInv
  <2>3. CASE ~ stop
    <3>1. outbox # {} /\ uploader' = [ at |-> "shield", row |-> Oldest(outbox) ]
      BY <1>14, <2>3 DEF Select
    <3>2. Oldest(outbox) \in outbox /\ \A o \in outbox : Oldest(outbox) <= o
      <4>1. \A x \in Seqs : x \in Nat
        BY DEF Seqs
      <4> QED
        BY <1>4, <3>1, <4>1, OldestIsThere
    <3>3. /\ uploader' \in UploaderType /\ uploader'.at = "shield"
          /\ uploader'.row = Oldest(outbox)
      BY <1>4, <3>1, <3>2 DEF UploaderType
    <3>4. InHand = 0 /\ InHand' = 0
      BY <2>1, <3>3 DEF InHand
    <3>5. Queued'
      BY <1>1, <1>9, <2>1, <3>2, <3>3 DEF UploaderOnly, Queued, IsDue
    <3> QED
      BY <1>4, <1>6, <1>7, <1>8, <1>9, <2>1, <3>3, <3>4, <3>5 DEF OutboxInv
  <2> QED
    BY <2>2, <2>3
<1>15. CASE Shield
  <2>1. /\ UNCHANGED <<outbox, delivered, dropped, received>> /\ uploader.at = "shield"
        /\ inFlight' = uploader.row /\ uploader' = [ uploader EXCEPT !.at = "post" ]
    BY <1>15 DEF Shield, counters
  <2>2. /\ uploader' \in UploaderType /\ uploader'.at = "post"
        /\ uploader'.row = uploader.row /\ uploader.row \in Seqs \cup {None}
    BY <1>3, <2>1 DEF UploaderType
  <2>3. InHand = 0 /\ InHand' = 0
    BY <2>1, <2>2 DEF InHand
  <2> QED
    BY <1>4, <1>6, <1>7, <1>8, <1>9, <1>10, <2>1, <2>2, <2>3 DEF OutboxInv
<1>16. CASE PostAnswered
  <2>1. /\ UNCHANGED <<outbox, inFlight, delivered, dropped>> /\ uploader.at = "post"
        /\ Reception(uploader.row) /\ uploader' = [ uploader EXCEPT !.at = "ack" ]
    BY <1>16 DEF PostAnswered, counters
  <2>2. uploader' \in UploaderType /\ uploader'.at = "ack" /\ uploader'.row = uploader.row
    BY <1>3, <2>1 DEF UploaderType
  <2>3. InHand = 0 /\ InHand' = 0
    BY <2>1, <2>2 DEF InHand
  <2>4. received' \in Seq(Seqs) /\ InOrder' /\ Queued'
    BY <1>13, <2>1, <2>2
  <2> QED
    BY <1>4, <1>6, <1>7, <1>8, <2>1, <2>2, <2>3, <2>4 DEF OutboxInv
<1>17. CASE PostFails
  <2>1. /\ UNCHANGED <<outbox, delivered, dropped>> /\ uploader.at = "post"
        /\ UNCHANGED received \/ Reception(uploader.row)
        /\ inFlight' = None /\ uploader' = Looking
    BY <1>17 DEF PostFails, Retry, counters
  <2>2. InHand = 0 /\ InHand' = 0
    BY <1>11, <2>1 DEF InHand
  <2>3. received' \in Seq(Seqs) /\ InOrder' /\ Queued'
    <3>1. CASE UNCHANGED received
      BY <1>4, <1>9, <1>10, <1>11, <2>1, <3>1
    <3>2. CASE Reception(uploader.row)
      BY <1>11, <1>13, <2>1, <3>2
    <3> QED
      BY <2>1, <3>1, <3>2
  <2> QED
    BY <1>4, <1>6, <1>7, <1>8, <1>11, <1>12, <2>1, <2>2, <2>3 DEF OutboxInv
<1>18. CASE Ack
  <2>1. /\ UNCHANGED <<inFlight, delivered, dropped, received>> /\ uploader.at = "ack"
        /\ outbox' = outbox \ {uploader.row}
        /\ uploader' = [ uploader EXCEPT !.at = IF uploader.row \in outbox THEN "acked" ELSE "pruned" ]
    BY <1>18 DEF Ack, counters
  <2>2. CASE uploader.row \in outbox
    <3>1. uploader' \in UploaderType /\ uploader'.at = "acked"
      BY <1>3, <2>1, <2>2 DEF UploaderType
    <3>2. InHand = 0 /\ InHand' = 1
      BY <2>1, <3>1 DEF InHand
    <3>3. Cardinality(outbox') \in Nat /\ Cardinality(outbox) = Cardinality(outbox') + 1
      <4>1. Cardinality(outbox') = Cardinality(outbox) - 1 /\ IsFiniteSet(outbox')
        BY <1>2, <2>1, <2>2, FS_RemoveElement
      <4>2. Cardinality(outbox') \in Nat
        BY <4>1, FS_CardinalityType
      <4> QED
        BY <1>2, <4>1, <4>2
    <3>4. base.rows + (inserted - base.inserted) =
            Cardinality(outbox') + delivered + dropped + uncounted + bus.pruned + InHand'
      BY <1>4, <1>5, <1>6, <3>2, <3>3
    <3> QED
      BY <1>4, <1>7, <1>8, <1>9, <1>10, <2>1, <3>1, <3>4 DEF OutboxInv
  <2>3. CASE uploader.row \notin outbox
    <3>1. uploader' \in UploaderType /\ uploader'.at = "pruned"
      BY <1>3, <2>1, <2>3 DEF UploaderType
    <3>2. InHand = 0 /\ InHand' = 0 /\ outbox' = outbox
      BY <2>1, <2>3, <3>1 DEF InHand
    <3> QED
      BY <1>4, <1>6, <1>7, <1>8, <1>9, <1>10, <2>1, <3>1, <3>2 DEF OutboxInv
  <2> QED
    BY <2>2, <2>3
<1>19. CASE AckFails
  <2>1. /\ UNCHANGED <<outbox, delivered, dropped, received>> /\ uploader.at = "ack"
        /\ inFlight' = None /\ uploader' = Looking
    BY <1>19 DEF AckFails, Retry, counters
  <2>2. InHand = 0 /\ InHand' = 0
    BY <1>11, <2>1 DEF InHand
  <2> QED
    BY <1>4, <1>6, <1>7, <1>8, <1>9, <1>10, <1>11, <1>12, <2>1, <2>2 DEF OutboxInv
<1>20. CASE CountDelivered
  <2>1. /\ UNCHANGED <<outbox, dropped, received>> /\ inFlight' = None
        /\ delivered' = delivered + 1
    BY <1>20 DEF CountDelivered
  <2>2. /\ uploader' \in UploaderType /\ uploader'.at \in {"select", "reconcile"}
        /\ \/ InHand = 1 /\ InHand' = 0
           \/ InHand = 0 /\ InHand' = -1
    <3>1. CASE uploader.at = "acked"
      <4>1. uploader' = Looking
        BY <1>20, <3>1 DEF CountDelivered
      <4>2. InHand = 1 /\ InHand' = 0
        BY <1>11, <3>1, <4>1 DEF InHand
      <4> QED
        BY <1>11, <4>1, <4>2
    <3>2. CASE uploader.at = "pruned"
      <4>1. uploader' = [ uploader EXCEPT !.at = "reconcile" ]
        BY <1>20, <3>2 DEF CountDelivered
      <4>2. uploader' \in UploaderType /\ uploader'.at = "reconcile"
        BY <1>3, <4>1 DEF UploaderType
      <4> QED
        BY <3>2, <4>2 DEF InHand
    <3> QED
      BY <1>20, <3>1, <3>2 DEF CountDelivered
  <2>3. base.rows + (inserted - base.inserted) =
          Cardinality(outbox') + delivered' + dropped' + uncounted + bus.pruned + InHand'
    <3>1. CASE InHand = 1 /\ InHand' = 0
      BY <1>2, <1>4, <1>5, <1>6, <2>1, <3>1
    <3>2. CASE InHand = 0 /\ InHand' = -1
      BY <1>2, <1>4, <1>5, <1>6, <2>1, <3>2
    <3> QED
      BY <2>2, <3>1, <3>2
  <2> QED
    BY <1>4, <1>7, <1>8, <1>9, <1>10, <1>12, <2>1, <2>2, <2>3 DEF OutboxInv
<1>21. CASE Reconcile
  <2>1. /\ UNCHANGED <<outbox, inFlight, delivered, received>> /\ uploader.at = "reconcile"
        /\ dropped' = dropped - 1 /\ uploader' = Looking
    BY <1>4, <1>21 DEF Reconcile, Adjusted
  <2>2. InHand = -1 /\ InHand' = 0
    BY <1>11, <2>1 DEF InHand
  <2>3. base.rows + (inserted - base.inserted) =
          Cardinality(outbox') + delivered' + dropped' + uncounted + bus.pruned + InHand'
    BY <1>2, <1>4, <1>5, <1>6, <2>1, <2>2
  <2> QED
    BY <1>4, <1>7, <1>8, <1>9, <1>10, <1>11, <2>1, <2>2, <2>3 DEF OutboxInv
<1> QED
  BY <1>14, <1>15, <1>16, <1>17, <1>18, <1>19, <1>20, <1>21 DEF UploaderStep

-----------------------------------------------------------------------------
(* Another process finds the table, and begins to count at it.             *)
LEMMA RestartKeeps ==
  ASSUME OutboxInv, StartAgain
  PROVE  OutboxInv'
<1> USE OutboxAssumption
<1>1. OutboxTypeOK /\ Queued /\ InOrder
  BY DEF OutboxInv
<1>2. RestTyped /\ Cardinality(outbox) \in Nat
  BY <1>1, TypeParts, TableIsFinite
<1>3. /\ bus' = IdleBus /\ uploader' = Looking /\ inFlight' = None /\ stop' = FALSE
      /\ delivered' = 0 /\ dropped' = 0 /\ uncounted' = 0
      /\ UNCHANGED <<outbox, inserted, received>>
      /\ crashes < MaxCrashes /\ crashes' = crashes + 1
      /\ base' = [ rows |-> Cardinality(outbox), inserted |-> inserted, lost |-> Lost ]
  BY DEF StartAgain
<1>4. bus' \in BusType /\ bus'.pruned = 0
  BY <1>3 DEF IdleBus, None, BusType
<1>5. uploader' \in UploaderType /\ uploader'.at = "select"
  BY <1>3 DEF Looking, None, UploaderType
<1>6. Lost \subseteq Seqs /\ inserted \in 0 .. MaxEvents
  BY <1>2 DEF RestTyped, Lost, Seqs
<1>7. /\ base' \in [ rows : Nat, inserted : 0 .. MaxEvents, lost : SUBSET Seqs ]
      /\ base'.rows = Cardinality(outbox) /\ base'.inserted = inserted
  BY <1>2, <1>3, <1>6
<1>8. crashes' \in 0 .. MaxCrashes
  BY <1>2, <1>3 DEF RestTyped
<1>9. stop' \in BOOLEAN
  BY <1>3
<1>10. RestTyped'
  BY <1>2, <1>3, <1>7, <1>8, <1>9 DEF RestTyped
<1>11. OutboxTypeOK'
  BY <1>4, <1>5, <1>10, TypePartsNext
<1>12. Books'
  <2>1. InHand' = 0
    BY <1>5 DEF InHand
  <2>2. inserted \in Int
    BY <1>6
  <2> QED
    BY <1>2, <1>3, <1>4, <1>7, <2>1, <2>2 DEF Books
<1>13. InOrder' /\ Received' = Received
  BY <1>1, <1>3 DEF InOrder, Received
<1>14. Queued'
  BY <1>1, <1>3, <1>5, <1>13 DEF Queued, IsDue
<1> QED
  BY <1>11, <1>12, <1>13, <1>14 DEF OutboxInv

(* Every step.                                                             *)
LEMMA StepOutboxInv == OutboxInv /\ [OutboxNext]_outboxVars => OutboxInv'
<1> SUFFICES ASSUME OutboxInv, [OutboxNext]_outboxVars PROVE OutboxInv'
  OBVIOUS
<1>1. CASE Insert \/ BusStep \/ Close
  BY <1>1, BusKeeps
<1>2. CASE UploaderStep
  BY <1>2, UploaderKeeps
<1>3. CASE StartAgain
  BY <1>3, RestartKeeps
<1>4. CASE Done \/ UNCHANGED outboxVars
  <2>1. UNCHANGED outboxVars
    BY <1>4 DEF Done
  <2> QED
    BY <2>1 DEF outboxVars, counters, OutboxInv, OutboxTypeOK, Books, InHand, Queued, IsDue, Received, InOrder
<1> QED
  BY <1>1, <1>2, <1>3, <1>4 DEF OutboxNext

-----------------------------------------------------------------------------
(* Whenever neither thread is between a deletion and its count, every row  *)
(* of this process is stored, delivered, dropped or forgotten by a failed  *)
(* prune, and what the endpoint received came in insertion order: for any  *)
(* number of events, cap and crashes.                                      *)
THEOREM OutboxBalances == OutboxSpec => []LedgerBalances
<1>1. OutboxInv => LedgerBalances
  <2> SUFFICES ASSUME OutboxInv PROVE LedgerBalances
    OBVIOUS
  <2>1. OutboxTypeOK /\ Books /\ InOrder
    BY DEF OutboxInv
  <2>2. bus \in BusType /\ RestTyped /\ Cardinality(outbox) \in Nat
    BY <2>1, TypeParts, TableIsFinite
  <2>3. ASSUME bus.at = "idle", uploader.at \notin {"acked", "pruned", "reconcile"}
        PROVE  base.rows + (inserted - base.inserted) =
                 Cardinality(outbox) + delivered + dropped + uncounted
    <3>1. bus.pruned = 0 /\ InHand = 0
      BY <2>1, <2>3 DEF Books, InHand
    <3>2. delivered \in Nat /\ dropped \in Int /\ uncounted \in Nat
      BY <2>2 DEF RestTyped
    <3> QED
      BY <2>1, <2>2, <3>1, <3>2 DEF Books
  <2> QED
    BY <2>1, <2>3 DEF LedgerBalances, InOrder
<1> QED
  BY <1>1, InitOutboxInv, StepOutboxInv, PTL DEF OutboxSpec

(***************************************************************************)
(* Part 3.  The bursts on disk, for any caps, ids and frames.  Behind the  *)
(* property: only finitely many files are on disk, and every one is of a   *)
(* write that is over, so that those of the next can be told from them.    *)
(***************************************************************************)

-----------------------------------------------------------------------------
DirType == [ id : Candidates, suffix : 0 .. MaxWrites, files : SUBSET (Nat \X Nat),
             stuck : BOOLEAN, mtime : Nat ]

(* A directory as the writes so far can have left it.                      *)
Written(b, writes) ==
  b \in DirType /\ IsFiniteSet(b.files) /\ \A f \in b.files : f[2] <= writes

DiskTyped ==
  /\ now \in Nat /\ now <= MaxWrites
  /\ IsFiniteSet(bursts)
  /\ \A b \in bursts : Written(b, now)

(* The frames of finitely many bursts can be counted, and fewer bursts     *)
(* have no more of them.                                                   *)
LEMMA FilesCounted ==
  ASSUME NEW bs, IsFiniteSet(bs), \A b \in bs : IsFiniteSet(b.files)
  PROVE  IsFiniteSet(UNION { b.files : b \in bs })
<1> DEFINE T == { b.files : b \in bs }
           f == [ b \in bs |-> b.files ]
<1>1. f \in Surjection(bs, T)
  BY DEF Surjection
<1>2. IsFiniteSet(T)
  BY <1>1, FS_Surjection
<1> QED
  BY <1>2, FS_UNION

LEMMA FramesCounted ==
  ASSUME NEW bs, IsFiniteSet(bs), \A b \in bs : IsFiniteSet(b.files)
  PROVE  IsFiniteSet(FramesOf(bs)) /\ SizeOf(bs) \in Nat
<1> DEFINE Of(b) == {b} \X { f \in b.files : f[1] # Meta }
           T == { Of(b) : b \in bs }
<1>1. IsFiniteSet(T)
  <2> DEFINE f == [ b \in bs |-> Of(b) ]
  <2> HIDE DEF Of
  <2>1. f \in Surjection(bs, T)
    BY DEF Surjection
  <2> QED
    BY <2>1, FS_Surjection
<1>2. ASSUME NEW b \in bs PROVE IsFiniteSet(Of(b))
  <2>1. IsFiniteSet({ f \in b.files : f[1] # Meta })
    BY FS_Subset
  <2>2. IsFiniteSet({b})
    BY FS_Singleton
  <2> QED
    BY <2>1, <2>2, FS_Product
<1>3. IsFiniteSet(UNION T)
  BY <1>1, <1>2, FS_UNION
<1>4. FramesOf(bs) = UNION T
  BY DEF FramesOf
<1> QED
  BY <1>3, <1>4, FS_CardinalityType DEF SizeOf

LEMMA FewerFrames ==
  ASSUME NEW bs, IsFiniteSet(bs), \A b \in bs : IsFiniteSet(b.files), NEW cs \in SUBSET bs
  PROVE  /\ SizeOf(cs) \in Nat /\ SizeOf(bs) \in Nat
         /\ SizeOf(cs) <= SizeOf(bs)
<1>1. IsFiniteSet(cs)
  BY FS_Subset
<1>2. FramesOf(cs) \subseteq FramesOf(bs)
  BY DEF FramesOf
<1>3. IsFiniteSet(FramesOf(bs))
  BY FramesCounted
<1>4. Cardinality(FramesOf(cs)) <= Cardinality(FramesOf(bs))
  BY <1>2, <1>3, FS_Subset
<1> QED
  BY <1>1, <1>4, FramesCounted DEF SizeOf

-----------------------------------------------------------------------------
(* What a write makes of its directory, whatever was in it.                *)
OwnOf(own, id, r, written) ==
  /\ Written(own, now + 1) /\ Name(own) = <<id, r>>
  /\ { f \in own.files : f[2] = now + 1 } = written \X {now + 1}
  /\ WasThere(id, r) = {} => own.files = written \X {now + 1}

LEMMA FilledTyped ==
  ASSUME DiskTyped, now < MaxWrites, NEW id \in Candidates, NEW r \in 0 .. MaxWrites,
         NEW frames \in FrameSets, NEW written \in SUBSET (frames \cup {Meta}), NEW survive,
         NEW mtime \in {now} \cup { b.mtime : b \in WasThere(id, r) },
         NEW own, own = Filled(id, r, frames \cup {Meta}, written, survive, mtime)
  PROVE  OwnOf(own, id, r, written)
<1> DEFINE found == UNION { b.files : b \in WasThere(id, r) }
           mine  == written \X {now + 1}
           rest  == { f \in found : f[1] \notin frames \cup {Meta}
                                    \/ (f[1] \notin written /\ f \in survive) }
<1>1. /\ now \in Nat /\ IsFiniteSet(bursts) /\ \A b \in bursts : Written(b, now)
      /\ frames \subseteq Nat /\ IsFiniteSet(frames) /\ Meta \in Nat
  BY EvidenceAssumption DEF DiskTyped, Meta
<1>2. WasThere(id, r) \subseteq bursts
  BY DEF WasThere
<1>3. found \subseteq Nat \X Nat /\ \A f \in found : f[2] <= now
  BY <1>1, <1>2 DEF Written, DirType
<1>4. IsFiniteSet(found)
  <2>1. IsFiniteSet(WasThere(id, r))
    BY <1>1, <1>2, FS_Subset
  <2>2. \A b \in WasThere(id, r) : IsFiniteSet(b.files)
    BY <1>1, <1>2 DEF Written
  <2> QED
    BY <2>1, <2>2, FilesCounted
<1>5. IsFiniteSet(mine) /\ mine \subseteq Nat \X Nat /\ \A f \in mine : f[2] = now + 1
  <2>1. IsFiniteSet(written)
    BY <1>1, FS_AddElement, FS_Subset
  <2>2. IsFiniteSet({now + 1})
    BY FS_Singleton
  <2>3. IsFiniteSet(mine)
    BY <2>1, <2>2, FS_Product
  <2>4. written \subseteq Nat /\ {now + 1} \subseteq Nat
    BY <1>1
  <2>5. mine \subseteq Nat \X Nat
    BY <2>4
  <2> QED
    BY <2>3, <2>5
<1>6. /\ own.files = mine \cup rest /\ own.id = id /\ own.suffix = r /\ own.mtime = mtime
      /\ own.stuck \in BOOLEAN
      /\ own = [ id |-> own.id, suffix |-> own.suffix, files |-> own.files,
                 stuck |-> own.stuck, mtime |-> own.mtime ]
  BY DEF Filled
<1>7. rest \subseteq found
  OBVIOUS
<1>8. mtime \in Nat
  BY <1>1, <1>2 DEF Written, DirType
<1> HIDE DEF found, rest, mine
<1>9. IsFiniteSet(own.files) /\ own.files \subseteq Nat \X Nat
  <2>1. IsFiniteSet(mine \cup found)
    BY <1>4, <1>5, FS_Union
  <2>2. own.files \subseteq mine \cup found
    BY <1>6, <1>7
  <2> QED
    BY <1>3, <1>5, <2>1, <2>2, FS_Subset
<1>10. \A f \in own.files : f[2] <= now + 1
  <2>1. ASSUME NEW f \in found PROVE f[2] <= now + 1 /\ f[2] # now + 1
    <3>1. f[2] <= now /\ f[2] \in Nat
      BY <1>3
    <3> QED
      BY <1>1, <3>1
  <2>2. \A f \in mine : f[2] <= now + 1
    BY <1>1, <1>5
  <2> QED
    BY <1>6, <1>7, <2>1, <2>2
<1>11. { f \in own.files : f[2] = now + 1 } = mine
  <2>1. ASSUME NEW f \in rest PROVE f[2] # now + 1
    <3>1. f[2] <= now /\ f[2] \in Nat
      BY <1>3, <1>7
    <3> QED
      BY <1>1, <3>1
  <2> QED
    BY <1>5, <1>6, <2>1
<1>12. WasThere(id, r) = {} => own.files = mine
  <2>1. WasThere(id, r) = {} => found = {}
    BY DEF found
  <2> QED
    BY <1>6, <1>7, <2>1
<1>13. own \in DirType
  BY <1>6, <1>8, <1>9 DEF DirType
<1> QED
  BY <1>6, <1>9, <1>10, <1>11, <1>12, <1>13 DEF OwnOf, Written, Name, mine

(* What rmtree leaves: the same directory, with no file it had not.        *)
LEMMA ReducedTyped ==
  ASSUME NEW writes, NEW b, Written(b, writes), NEW gone, now \in Nat
  PROVE  /\ Written(Reduced(b, gone), writes)
         /\ Name(Reduced(b, gone)) = Name(b) /\ Reduced(b, gone).stuck = b.stuck
         /\ Reduced(b, gone).files \subseteq b.files
<1> DEFINE files == { f \in b.files : <<b, f>> \notin gone }
           mtime == IF \E f \in b.files : <<b, f>> \in gone THEN now ELSE b.mtime
<1>1. b \in DirType /\ IsFiniteSet(b.files) /\ \A f \in b.files : f[2] <= writes
  BY DEF Written
<1>2. files \subseteq b.files /\ IsFiniteSet(files) /\ mtime \in Nat
  BY <1>1, FS_Subset DEF DirType
<1>3. Reduced(b, gone) = [ b EXCEPT !.files = files, !.mtime = mtime ]
  BY DEF Reduced
<1> HIDE DEF files, mtime
<1>4. /\ Reduced(b, gone) \in DirType /\ Reduced(b, gone).files = files
      /\ Reduced(b, gone).id = b.id /\ Reduced(b, gone).suffix = b.suffix
      /\ Reduced(b, gone).stuck = b.stuck
  BY <1>1, <1>2, <1>3 DEF DirType
<1> QED
  BY <1>1, <1>2, <1>4 DEF Written, Name

(* A prune leaves the young ones it did not try, and of the others it      *)
(* tried what rmtree leaves of the stuck ones.                             *)
TooOld(bs, keep) == { b \in bs : b # keep /\ now - b.mtime > MaxAge }

StuckOf(bs, keep, tried) == { b \in TooOld(bs, keep) \cup tried : b.stuck }

Pruned(bs, keep, tried, gone) ==
  /\ TriedForSize(bs \ TooOld(bs, keep), keep, tried)
  /\ bursts' = ((bs \ TooOld(bs, keep)) \ tried)
                 \cup { Reduced(b, gone) : b \in StuckOf(bs, keep, tried) }

LEMMA PruneMeans ==
  ASSUME NEW bs, NEW keep, Prune(bs, keep)
  PROVE  \E tried, gone : tried \in SUBSET (bs \ TooOld(bs, keep)) /\ Pruned(bs, keep, tried, gone)
<1>1. PICK tried \in SUBSET (bs \ TooOld(bs, keep)) :
        /\ TriedForSize(bs \ TooOld(bs, keep), keep, tried)
        /\ \E gone \in SUBSET UNION { {b} \X b.files : b \in StuckOf(bs, keep, tried) } :
             bursts' = ((bs \ TooOld(bs, keep)) \ tried)
                          \cup { Reduced(b, gone) : b \in StuckOf(bs, keep, tried) }
  BY DEF Prune, TooOld, StuckOf
<1>2. PICK gone : bursts' = ((bs \ TooOld(bs, keep)) \ tried)
                               \cup { Reduced(b, gone) : b \in StuckOf(bs, keep, tried) }
  BY <1>1
<1>3. Pruned(bs, keep, tried, gone)
  BY <1>1, <1>2 DEF Pruned
<1> QED
  BY <1>3

LEMMA PrunedTyped ==
  ASSUME NEW bs, NEW keep, NEW tried \in SUBSET bs, NEW gone, NEW writes,
         IsFiniteSet(bs), \A b \in bs : Written(b, writes), now \in Nat,
         Pruned(bs, keep, tried, gone)
  PROVE  IsFiniteSet(bursts') /\ \A b \in bursts' : Written(b, writes)
<1> DEFINE stuck == StuckOf(bs, keep, tried)
           left  == { Reduced(b, gone) : b \in stuck }
           f     == [ b \in stuck |-> Reduced(b, gone) ]
<1>1. stuck \subseteq bs
  BY DEF StuckOf, TooOld
<1>2. IsFiniteSet(stuck)
  BY <1>1, FS_Subset
<1> HIDE DEF stuck
<1>3. f \in Surjection(stuck, left)
  BY DEF Surjection
<1>4. IsFiniteSet(left)
  BY <1>2, <1>3, FS_Surjection
<1>5. \A b \in left : Written(b, writes)
  BY <1>1, ReducedTyped
<1> HIDE DEF left
<1>6. bursts' = ((bs \ TooOld(bs, keep)) \ tried) \cup left
  BY DEF Pruned, left, stuck
<1>7. IsFiniteSet((bs \ TooOld(bs, keep)) \ tried)
  BY FS_Subset
<1> QED
  BY <1>4, <1>5, <1>6, <1>7, FS_Union

-----------------------------------------------------------------------------
(* One step.                                                               *)
LEMMA InitDiskTyped == EvidenceInit => DiskTyped
  BY EvidenceAssumption, FS_EmptySet DEF EvidenceInit, DiskTyped

LEMMA StillWritten ==
  ASSUME NEW b, NEW writes \in Nat, Written(b, writes)
  PROVE  Written(b, writes + 1)
<1>1. ASSUME NEW f \in b.files PROVE f[2] <= writes + 1
  <2>1. f[2] \in Nat /\ f[2] <= writes
    BY DEF Written, DirType
  <2> QED
    BY <2>1
<1> QED
  BY <1>1 DEF Written

(* The disk a write leaves to the prune.                                   *)
DiskOf(bs, own, tried, gone, id, r, written) ==
  /\ bs = (bursts \ WasThere(id, r)) \cup {own} /\ OwnOf(own, id, r, written)
  /\ tried \in SUBSET (bs \ TooOld(bs, own)) /\ Pruned(bs, own, tried, gone)
  /\ IsFiniteSet(bs) /\ \A b \in bs : Written(b, now + 1)

LEMMA BurstMeans ==
  ASSUME DiskTyped, now < MaxWrites, NEW id \in Candidates, NEW probed \in BOOLEAN,
         NEW r \in Target(id, probed), NEW frames \in FrameSets,
         NEW written \in SUBSET (frames \cup {Meta}), Burst(id, probed, r, frames, written)
  PROVE  \E bs, own, tried, gone : DiskOf(bs, own, tried, gone, id, r, written)
<1>1. r \in 0 .. MaxWrites /\ now \in Nat
  BY DEF Target, DiskTyped
<1>2. PICK survive \in SUBSET UNION { b.files : b \in WasThere(id, r) },
           mtime \in {now} \cup { b.mtime : b \in WasThere(id, r) } :
        LET target == Filled(id, r, frames \cup {Meta}, written, survive, mtime)
        IN  Prune((bursts \ WasThere(id, r)) \cup {target}, target)
  BY DEF Burst
<1>3. PICK own : own = Filled(id, r, frames \cup {Meta}, written, survive, mtime)
  OBVIOUS
<1>4. OwnOf(own, id, r, written)
  BY <1>1, <1>3, FilledTyped
<1> DEFINE bs == (bursts \ WasThere(id, r)) \cup {own}
<1>5. Prune(bs, own)
  BY <1>2, <1>3
<1>6. PICK tried, gone : tried \in SUBSET (bs \ TooOld(bs, own)) /\ Pruned(bs, own, tried, gone)
  <2> HIDE DEF bs
  <2> QED
    BY <1>5, PruneMeans
<1>7. IsFiniteSet(bs)
  <2>1. IsFiniteSet(bursts \ WasThere(id, r))
    BY FS_Subset DEF DiskTyped
  <2> QED
    BY <2>1, FS_AddElement
<1>8. \A b \in bs : Written(b, now + 1)
  BY <1>1, <1>4, StillWritten DEF DiskTyped, OwnOf
<1>9. DiskOf(bs, own, tried, gone, id, r, written)
  BY <1>4, <1>6, <1>7, <1>8 DEF DiskOf
<1> QED
  BY <1>9

LEMMA StepDiskTyped == DiskTyped /\ [EvidenceNext]_evidenceVars => DiskTyped'
<1> SUFFICES ASSUME DiskTyped, [EvidenceNext]_evidenceVars PROVE DiskTyped'
  OBVIOUS
<1>0. now \in Nat /\ MaxWrites \in Nat /\ IsFiniteSet(bursts) /\ \A b \in bursts : Written(b, now)
  BY EvidenceAssumption DEF DiskTyped
<1>1. CASE WriteBurst
  <2>1. now < MaxWrites /\ now' = now + 1
    BY <1>1 DEF WriteBurst
  <2>2. CASE MkdirFails
    <3>1. bursts' = bursts
      BY <2>2 DEF MkdirFails
    <3>2. \A b \in bursts : Written(b, now + 1)
      BY <1>0, StillWritten
    <3> QED
      BY <1>0, <2>1, <3>1, <3>2 DEF DiskTyped, Written, DirType
  <2>3. ASSUME NEW id \in Candidates, NEW probed \in BOOLEAN, NEW frames \in FrameSets,
               NEW r \in Target(id, probed), NEW written \in SUBSET (frames \cup {Meta}),
               Burst(id, probed, r, frames, written)
        PROVE  DiskTyped'
    <3>0. PICK bs, own, tried, gone : DiskOf(bs, own, tried, gone, id, r, written)
      BY <2>1, <2>3, BurstMeans
    <3>1. /\ tried \in SUBSET (bs \ TooOld(bs, own)) /\ Pruned(bs, own, tried, gone)
          /\ IsFiniteSet(bs) /\ \A b \in bs : Written(b, now + 1)
      BY <3>0 DEF DiskOf
    <3>2. IsFiniteSet(bursts') /\ \A b \in bursts' : Written(b, now + 1)
      BY <1>0, <3>1, PrunedTyped
    <3> QED
      BY <1>0, <2>1, <3>2 DEF DiskTyped, Written, DirType
  <2> QED
    BY <1>1, <2>2, <2>3 DEF WriteBurst
<1>2. CASE CleanedUp
  <2>1. bursts' \subseteq bursts /\ now' = now
    BY <1>2 DEF CleanedUp
  <2>2. IsFiniteSet(bursts')
    BY <1>0, <2>1, FS_Subset
  <2> QED
    BY <2>1, <2>2 DEF DiskTyped, Written, DirType
<1>3. CASE FileOpened
  <2>1. PICK b \in bursts : bursts' = (bursts \ {b}) \cup {[b EXCEPT !.stuck = ~ @]}
    BY <1>3 DEF FileOpened
  <2>2. PICK c : c = [b EXCEPT !.stuck = ~ @]
    OBVIOUS
  <2>3. now' = now /\ bursts' = (bursts \ {b}) \cup {c}
    BY <1>3, <2>1, <2>2 DEF FileOpened
  <2>4. Written(c, now)
    <3>1. b \in DirType
      BY <1>0 DEF Written
    <3>2. c \in DirType /\ c.files = b.files
      BY <2>2, <3>1 DEF DirType
    <3> QED
      BY <1>0, <3>2 DEF Written
  <2>5. IsFiniteSet(bursts')
    BY <1>0, <2>3, FS_RemoveElement, FS_AddElement
  <2>6. \A d \in bursts' : Written(d, now)
    BY <1>0, <2>3, <2>4
  <2> QED
    BY <1>0, <2>3, <2>5, <2>6 DEF DiskTyped, Written, DirType
<1>4. CASE UNCHANGED evidenceVars
  BY <1>4 DEF evidenceVars, DiskTyped, Written, DirType
<1> QED
  BY <1>1, <1>2, <1>3, <1>4 DEF EvidenceNext

-----------------------------------------------------------------------------
(* What the size cap tries, in terms of the newer ones: others are the     *)
(* bursts beside the kept one, fresh those the age cap spares.             *)
LEMMA PrunedByAgeAndSize ==
  ASSUME NEW others, NEW own, own \notin others, NEW tried, NEW gone, now \in Nat,
         IsFiniteSet(others \cup {own}),
         \A b \in others \cup {own} : Written(b, now + 1),
         tried \in SUBSET ((others \cup {own}) \ TooOld(others \cup {own}, own)),
         Pruned(others \cup {own}, own, tried, gone)
  PROVE  LET fresh == { b \in others : now - b.mtime <= MaxAge }
             kept  == others \cap bursts'
         IN  /\ own \in bursts'
             /\ \A d \in bursts' \ {own} : \E b \in others :
                  Name(d) = Name(b) /\ d.files \subseteq b.files /\ (b.stuck \/ d = b)
             /\ \A b \in others \ kept :
                  \/ b \notin fresh
                  \/ SizeOf({ c \in fresh : c.mtime >= b.mtime } \cup {own}) > SizeCap
             /\ \A b \in kept : ~ b.stuck =>
                  /\ b \in fresh
                  /\ SizeOf({ c \in kept : c.mtime > b.mtime } \cup {b, own}) <= SizeCap
<1> DEFINE bs    == others \cup {own}
           fresh == { b \in others : now - b.mtime <= MaxAge }
           kept  == others \cap bursts'
           young == bs \ TooOld(bs, own)
           newer(b) == { c \in fresh : c.mtime >= b.mtime } \cup {own}
<1>1. /\ SizeCap \in Nat /\ MaxAge \in Nat
      /\ \A b \in bs : b.mtime \in Nat /\ IsFiniteSet(b.files)
  BY EvidenceAssumption DEF Written, DirType
<1>2. young = fresh \cup {own}
  <2>1. \A b \in others : now - b.mtime > MaxAge <=> ~ now - b.mtime <= MaxAge
    BY <1>1
  <2> QED
    BY <2>1 DEF TooOld
<1>3. /\ bursts' = (young \ tried) \cup { Reduced(b, gone) : b \in StuckOf(bs, own, tried) }
      /\ TriedForSize(young, own, tried)
  BY DEF Pruned
<1>4. /\ tried \subseteq fresh
      /\ \A b \in tried, c \in fresh \ tried : b.mtime <= c.mtime
      /\ SizeOf(young \ tried) <= SizeCap \/ tried = fresh
      /\ tried # {} => \E last \in tried : /\ \A c \in tried : c.mtime <= last.mtime
                                          /\ SizeOf((young \ tried) \cup {last}) > SizeCap
  <2>1. young \ {own} = fresh
    BY <1>2
  <2>2. own \notin tried
    BY <1>3 DEF TriedForSize
  <2>3. young \ (tried \cup {own}) = fresh \ tried
    BY <1>2, <2>1
  <2> QED
    BY <1>3, <2>1, <2>3 DEF TriedForSize, Latest
<1>5. \A b \in StuckOf(bs, own, tried) : b \in others /\ b.stuck /\ Written(b, now + 1)
  BY <1>4 DEF StuckOf, TooOld
<1>6. own \in bursts'
  BY <1>2, <1>3, <1>4
<1>7. ASSUME NEW d \in bursts' \ {own}
      PROVE  \E b \in others : Name(d) = Name(b) /\ d.files \subseteq b.files /\ (b.stuck \/ d = b)
  <2>1. CASE d \in young \ tried
    BY <1>2, <2>1
  <2>2. ASSUME NEW b \in StuckOf(bs, own, tried), d = Reduced(b, gone)
        PROVE  \E c \in others : Name(d) = Name(c) /\ d.files \subseteq c.files /\ (c.stuck \/ d = c)
    BY <1>5, <2>2, ReducedTyped
  <2> QED
    BY <1>3, <2>1, <2>2
<1> HIDE DEF bs, fresh, young
<1>8. ASSUME NEW b, NEW few, few \subseteq fresh \cup {own}, NEW fewer, fewer \subseteq few
      PROVE  SizeOf(fewer) \in Nat /\ SizeOf(few) \in Nat /\ SizeOf(fewer) <= SizeOf(few)
  <2>1. few \subseteq bs
    BY <1>8 DEF fresh, bs
  <2>2. IsFiniteSet(few)
    BY <2>1, FS_Subset DEF bs
  <2>3. \A c \in few : IsFiniteSet(c.files)
    BY <1>1, <2>1
  <2> QED
    BY <1>8, <2>2, <2>3, FewerFrames
<1>9. ASSUME NEW b \in others \ kept, b \in fresh
      PROVE  SizeOf(newer(b)) > SizeCap
  <2>1. b \in tried
    BY <1>2, <1>3, <1>9
  <2>2. PICK last \in tried : /\ \A c \in tried : c.mtime <= last.mtime
                             /\ SizeOf((young \ tried) \cup {last}) > SizeCap
    BY <1>4, <2>1
  <2>3. \A c \in fresh : c.mtime \in Nat
    BY <1>1 DEF fresh, bs
  <2>4. \A c \in fresh \ tried : c.mtime >= b.mtime
    BY <1>4, <2>1, <2>3
  <2>5. last.mtime >= b.mtime
    BY <1>4, <2>1, <2>2, <2>3
  <2>6. (young \ tried) \cup {last} \subseteq newer(b)
    BY <1>2, <1>4, <2>4, <2>5
  <2>7. newer(b) \subseteq fresh \cup {own}
    OBVIOUS
  <2> HIDE DEF newer
  <2> QED
    BY <1>1, <1>8, <2>2, <2>6, <2>7
<1>10. ASSUME NEW b \in kept, ~ b.stuck
       PROVE  /\ b \in fresh
              /\ SizeOf({ c \in kept : c.mtime > b.mtime } \cup {b, own}) <= SizeCap
  <2> DEFINE few == { c \in kept : c.mtime > b.mtime } \cup {b, own}
  <2>1. b \in fresh \ tried
    <3>1. b \notin { Reduced(c, gone) : c \in StuckOf(bs, own, tried) }
      BY <1>5, <1>10, ReducedTyped
    <3> QED
      BY <1>2, <1>3, <1>10, <3>1
  <2>2. SizeOf(young \ tried) <= SizeCap
    BY <1>4, <2>1
  <2>3. ASSUME NEW c \in kept, c.mtime > b.mtime
        PROVE  c \in fresh \ tried
    <3>1. b.mtime \in Nat /\ c.mtime \in Nat /\ now - b.mtime <= MaxAge
      BY <1>1, <2>1 DEF fresh, bs
    <3>2. now - c.mtime <= MaxAge
      BY <1>1, <2>3, <3>1
    <3>3. c \in fresh
      BY <3>2 DEF fresh
    <3>4. ~ c.mtime <= b.mtime
      BY <2>3, <3>1
    <3> QED
      BY <1>4, <2>1, <3>3, <3>4
  <2>4. own \in young \ tried
    BY <1>2, <1>4 DEF fresh
  <2>5. few \subseteq young \ tried /\ young \ tried \subseteq fresh \cup {own}
    BY <1>2, <2>1, <2>3, <2>4
  <2> HIDE DEF few
  <2>6. SizeOf(few) \in Nat /\ SizeOf(young \ tried) \in Nat /\ SizeOf(few) <= SizeOf(young \ tried)
    BY <1>8, <2>5
  <2>7. SizeOf(few) <= SizeCap
    BY <1>1, <2>2, <2>6
  <2> QED
    BY <2>1, <2>7 DEF few
<1> QED
  BY <1>6, <1>7, <1>9, <1>10 DEF fresh

(* A write that returned a burst: own, and what prune left.                *)
KeptBursts(own) ==
  LET others == { b \in bursts : Name(b) # ref'.dir }
      fresh  == { b \in others : now - b.mtime <= MaxAge }
      kept   == others \cap bursts'
  IN  /\ Name(own) = ref'.dir
      /\ Cardinality({ f \in own.files : f[1] # Meta /\ f[2] = ref'.of }) = ref'.count
      /\ ~ ref'.failed => <<Meta, ref'.of>> \in own.files
      /\ ~ ref'.blind => others = bursts /\ \A f \in own.files : f[2] = ref'.of
      /\ \A d \in bursts' \ {own} : \E b \in others :
           Name(d) = Name(b) /\ d.files \subseteq b.files /\ (b.stuck \/ d = b)
      /\ \A b \in others \ kept :
           \/ b \notin fresh
           \/ SizeOf({ c \in fresh : c.mtime >= b.mtime } \cup {own}) > SizeCap
      /\ \A b \in kept : ~ b.stuck =>
           /\ b \in fresh
           /\ SizeOf({ c \in kept : c.mtime > b.mtime } \cup {b, own}) <= SizeCap

LEMMA BurstKeeps ==
  ASSUME DiskTyped, now < MaxWrites, NEW id \in Candidates, NEW probed \in BOOLEAN,
         NEW frames \in FrameSets, NEW r \in Target(id, probed),
         NEW written \in SUBSET (frames \cup {Meta}), Burst(id, probed, r, frames, written)
  PROVE  \E own \in bursts' : KeptBursts(own)
<1> DEFINE others == bursts \ WasThere(id, r)
<1>0. PICK bs, own, tried, gone : DiskOf(bs, own, tried, gone, id, r, written)
  BY BurstMeans
<1>1. /\ tried \in SUBSET ((others \cup {own}) \ TooOld(others \cup {own}, own))
      /\ Pruned(others \cup {own}, own, tried, gone)
      /\ IsFiniteSet(others \cup {own}) /\ \A b \in others \cup {own} : Written(b, now + 1)
      /\ Name(own) = <<id, r>>
      /\ { f \in own.files : f[2] = now + 1 } = written \X {now + 1}
      /\ WasThere(id, r) = {} => own.files = written \X {now + 1}
  BY <1>0 DEF DiskOf, OwnOf
<1>2. /\ ref'.of = now + 1 /\ ref'.dir = <<id, r>> /\ ref'.blind = ~ probed
      /\ ref'.count = Cardinality(written \ {Meta})
      /\ ref'.failed = (written # frames \cup {Meta})
  BY DEF Burst
<1>3. others = { b \in bursts : Name(b) # ref'.dir }
  BY <1>2 DEF WasThere
<1>4. own \notin others
  BY <1>1, <1>2, <1>3
<1>5. Cardinality({ f \in own.files : f[1] # Meta /\ f[2] = ref'.of }) = ref'.count
  <2> DEFINE names == written \ {Meta}
  <2>1. { f \in own.files : f[1] # Meta /\ f[2] = ref'.of } = names \X {now + 1}
    <3>1. { f \in own.files : f[1] # Meta /\ f[2] = ref'.of }
            = { f \in written \X {now + 1} : f[1] # Meta }
      BY <1>1, <1>2
    <3> QED
      BY <3>1
  <2>2. IsFiniteSet(names)
    <3>1. IsFiniteSet(frames)
      BY EvidenceAssumption
    <3> QED
      BY <3>1, FS_AddElement, FS_Subset
  <2>3. IsFiniteSet({now + 1}) /\ Cardinality({now + 1}) = 1
    BY FS_Singleton
  <2> HIDE DEF names
  <2>4. Cardinality(names \X {now + 1}) = Cardinality(names) * 1
    BY <2>2, <2>3, FS_Product
  <2>5. Cardinality(names) \in Nat
    BY <2>2, FS_CardinalityType
  <2>6. PICK n \in Nat : n = Cardinality(names)
    BY <2>5
  <2>7. n * 1 = n
    OBVIOUS
  <2>8. Cardinality(names \X {now + 1}) = Cardinality(names)
    BY <2>4, <2>6, <2>7
  <2> QED
    BY <1>2, <2>1, <2>8 DEF names
<1>6. ~ ref'.failed => <<Meta, ref'.of>> \in own.files
  BY <1>1, <1>2
<1>7. ~ ref'.blind => others = bursts /\ \A f \in own.files : f[2] = ref'.of
  <2>1. ~ ref'.blind => WasThere(id, r) = {}
    BY <1>2 DEF Target, Exists, WasThere
  <2> QED
    BY <1>1, <1>2, <2>1
<1>8. now \in Nat
  BY DEF DiskTyped
<1> HIDE DEF others
<1>9. LET fresh == { b \in others : now - b.mtime <= MaxAge }
          kept  == others \cap bursts'
      IN  /\ own \in bursts'
          /\ \A d \in bursts' \ {own} : \E b \in others :
               Name(d) = Name(b) /\ d.files \subseteq b.files /\ (b.stuck \/ d = b)
          /\ \A b \in others \ kept :
               \/ b \notin fresh
               \/ SizeOf({ c \in fresh : c.mtime >= b.mtime } \cup {own}) > SizeCap
          /\ \A b \in kept : ~ b.stuck =>
               /\ b \in fresh
               /\ SizeOf({ c \in kept : c.mtime > b.mtime } \cup {b, own}) <= SizeCap
  BY <1>1, <1>4, <1>8, PrunedByAgeAndSize
<1>10. KeptBursts(own)
  BY <1>1, <1>2, <1>3, <1>5, <1>6, <1>7, <1>9 DEF KeptBursts
<1> QED
  BY <1>9, <1>10

LEMMA StepKeeps ==
  DiskTyped /\ [EvidenceNext]_evidenceVars =>
    (now' # now /\ ref'.of # 0 => \E own \in bursts' : KeptBursts(own))
<1> SUFFICES ASSUME DiskTyped, EvidenceNext, now' # now, ref'.of # 0
             PROVE  \E own \in bursts' : KeptBursts(own)
  BY DEF evidenceVars
<1>1. WriteBurst
  BY DEF EvidenceNext, CleanedUp, FileOpened
<1>2. ~ MkdirFails
  BY DEF MkdirFails, NoRef
<1> QED
  BY <1>1, <1>2, BurstKeeps DEF WriteBurst

(* Every write of a burst, whatever fails and whatever else touches the    *)
(* disk: for any ids, frames and caps.                                     *)
THEOREM EvidenceKeepsBursts ==
  EvidenceInit /\ [][EvidenceNext]_evidenceVars => BurstsAreKept
<1>1. DiskTyped /\ [EvidenceNext]_evidenceVars =>
        [ now' # now /\ ref'.of # 0 => \E own \in bursts' : KeptBursts(own) ]_evidenceVars
  BY StepKeeps
<1> QED
  BY <1>1, InitDiskTyped, StepDiskTyped, PTL DEF BurstsAreKept, KeptBursts

(***************************************************************************)
(* Part 4.  The truth of the harnesses and the capped collector, for any   *)
(* plans, jitter, number of slots, passes and runs.  Behind the property:  *)
(* each pass is in flight or over, and who is over has been judged once;   *)
(* with one pass at a time the windows of what is over lie four frames     *)
(* before the pass in flight, or before the next one can come in, so that  *)
(* neither its miss nor a neighbor's reaches the other's record.           *)
(***************************************************************************)

-----------------------------------------------------------------------------
TruthSpec == TruthInit /\ [][TruthNext]_truthVars

EntryType  == [ id : Nat, plan : Plans, k : Nat, first : Nat ]
RecordType == [ pass : Nat, first_frame : Int, last_frame : Int ]
EventType  == [ kind : {"pass", "miss"}, pass : Nat, start : Int, end : Int ]

FeedType ==
  [ kind : {"synthetic", "inject"}, slots : Nat \ {0}, pc : {"running", "ended", "stopped", "failed"},
    ts : Nat, prev : Int, active : SUBSET EntryType, next : Nat \ {0}, plan : Plans,
    launch_in : Int, tail : Int, jitter : Int ]

TruthTyped ==
  /\ feed \in FeedType /\ IsFiniteSet(feed.active)
  /\ truth \subseteq RecordType
  /\ collector \in [ events : SUBSET EventType, dropped : Nat ]
  /\ lost \subseteq Nat
  /\ soak \in [ segments : Int, problems : BOOLEAN, lost : BOOLEAN, dropped : BOOLEAN ]

(* The passes in flight came in one at a time, at a frame that is over.    *)
FeedFits ==
  /\ \A e, f \in feed.active : e.id = f.id => e = f
  /\ \A e \in feed.active : e.id \in 1 .. (feed.next - 1) /\ e.first <= feed.prev
  /\ feed.prev <= feed.ts
  /\ feed.kind = "synthetic" => feed.slots = 1
  /\ feed.slots = 1 => \A e, f \in feed.active : e = f

(* A pass is in flight or over, and what is over has been judged once.     *)
PassesFit ==
  /\ \A r \in truth : r.pass \in 1 .. (feed.next - 1)
  /\ \A v \in collector.events : v.pass \in 1 .. (feed.next - 1) /\ v.pass \notin lost
  /\ \A i \in lost : i \in 1 .. (feed.next - 1)
  /\ \A r, s \in truth : r.pass = s.pass => r = s
  /\ \A e \in feed.active : /\ \A r \in truth : r.pass # e.id
                            /\ \A v \in collector.events : v.pass # e.id
                            /\ e.id \notin lost

RecordsFit ==
  feed.pc \in {"running", "ended"} =>
    \A i \in 1 .. (feed.next - 1) : (\E r \in truth : r.pass = i) \/ \E e \in feed.active : e.id = i

(* Reads and misses speak for their own pass; and with one pass at a time, *)
(* for no other.                                                           *)
AllHeard == collector.dropped = 0 => \A r \in truth : r.pass \in lost \/ Decodes(r) \/ Misses(r)
OwnMisses ==
  feed.slots = 1 =>
    \A v \in collector.events, r \in truth : v.kind = "miss" /\ Vouches(v, r) => v.pass = r.pass

(* Whatever is over is over since this long: four frames before the pass   *)
(* in flight, or before the next one can come in.                          *)
Clear(at) ==
  /\ \A r \in truth : OneTick * r.last_frame <= at + 1
  /\ \A v \in collector.events : v.kind = "miss" => v.end <= at + OneTick

GapsKept ==
  feed.pc = "running" /\ feed.slots = 1 =>
    /\ \A e \in feed.active : Clear(e.first - 4 * OneTick)
    /\ feed.active = {} => Clear(feed.prev + OneTick * feed.launch_in - 4 * OneTick)
    /\ feed.launch_in >= 0
    /\ feed.kind = "inject" => feed.launch_in >= 1 /\ (feed.active # {} => feed.launch_in >= 4)

SoakFits ==
  /\ feed.slots = 1 /\ soak.lost => soak.problems
  /\ soak.problems => soak.lost \/ soak.dropped

TruthInv ==
  /\ TruthTyped /\ FeedFits /\ PassesFit /\ RecordsFit
  /\ AllHeard /\ OwnMisses /\ GapsKept /\ SoakFits

-----------------------------------------------------------------------------
(* The passes in gone are over at last, and the pipeline has judged them.  *)
Leave(gone) ==
  /\ IsFiniteSet(gone) /\ gone \subseteq EntryType
  /\ \A g \in gone : \E f \in feed.active : g.id = f.id /\ g.first = f.first
  /\ \A g, h \in gone : g.id = h.id => g = h

Judged(gone, last) ==
  /\ lost \subseteq lost'
  /\ \A i \in lost' : i \in lost \/ \E g \in gone : i = g.id
  /\ collector' \in [ events : SUBSET EventType, dropped : Nat ]
  /\ collector.events \subseteq collector'.events
  /\ \A v \in collector'.events :
       v \in collector.events \/ \E g \in gone : v \in EventsOf(g, last) /\ g.id \notin lost'
  /\ collector'.dropped = 0 =>
       /\ collector.dropped = 0
       /\ \A g \in gone : g.id \in lost' \/ \E v \in collector'.events : v \in EventsOf(g, last)

LEMMA RoundedNear ==
  ASSUME NEW t \in Int
  PROVE  Rounded(t) \in Int /\ t - 1 <= OneTick * Rounded(t) /\ OneTick * Rounded(t) <= t + 1
  BY DEF Rounded, OneTick

LEMMA EventsTyped ==
  ASSUME NEW e \in EntryType, NEW last \in Int, NEW v \in EventsOf(e, last)
  PROVE  /\ v \in EventType /\ v.pass = e.id
         /\ v.kind = "miss" =>
              /\ v.start \in {e.first - OneTick, e.first + OneTick}
              /\ v.end \in {last - OneTick, last + OneTick}
  BY DEF EventsOf, Emitted, EventType, EntryType, OneTick

LEMMA JudgesJudged ==
  ASSUME TruthInv, NEW gone, Leave(gone), NEW last \in Int, Judges(gone, last)
  PROVE  Judged(gone, last)
<1>1. PICK silent \in SUBSET gone :
        /\ lost' = lost \cup { e.id : e \in silent }
        /\ \E outcome \in [ gone \ silent -> UNION { EventsOf(e, last) : e \in gone } ] :
             /\ \A e \in gone \ silent : outcome[e] \in EventsOf(e, last)
             /\ Handled({ outcome[e] : e \in gone \ silent })
  BY DEF Judges
<1>2. PICK outcome \in [ gone \ silent -> UNION { EventsOf(e, last) : e \in gone } ] :
        /\ \A e \in gone \ silent : outcome[e] \in EventsOf(e, last)
        /\ Handled({ outcome[e] : e \in gone \ silent })
  BY <1>1
<1> DEFINE heard == { outcome[e] : e \in gone \ silent }
<1>3. IsFiniteSet(heard)
  <2>1. IsFiniteSet(gone \ silent)
    BY FS_Subset DEF Leave
  <2>2. [ e \in gone \ silent |-> outcome[e] ] \in Surjection(gone \ silent, heard)
    BY DEF Surjection
  <2> QED
    BY <2>1, <2>2, FS_Surjection
<1>4. PICK news : news = heard
  OBVIOUS
<1>5. Handled(news) /\ IsFiniteSet(news)
  BY <1>2, <1>3, <1>4
<1>6. PICK kept \in SUBSET news :
        collector' = [ events  |-> collector.events \cup kept,
                       dropped |-> collector.dropped + Cardinality(news \ kept) ]
  BY <1>5 DEF Handled
<1>7. Cardinality(news \ kept) \in Nat /\ (Cardinality(news \ kept) = 0 <=> news \ kept = {})
  <2>1. IsFiniteSet(news \ kept)
    BY <1>5, FS_Subset
  <2> QED
    BY <2>1, FS_CardinalityType, FS_EmptySet
<1>8. \A v \in news : \E g \in gone \ silent : v = outcome[g] /\ v \in EventsOf(g, last)
  BY <1>2, <1>4
<1>9. \A g \in gone \ silent : outcome[g] \in news
  BY <1>4
<1>10. news \subseteq EventType
  BY <1>8, EventsTyped DEF Leave
<1>11. collector \in [ events : SUBSET EventType, dropped : Nat ]
  BY DEF TruthInv, TruthTyped
<1>12. PICK n \in Nat : n = Cardinality(news \ kept)
  BY <1>7
<1>13. /\ collector'.events = collector.events \cup kept
       /\ collector'.dropped = collector.dropped + n
       /\ collector' \in [ events : SUBSET EventType, dropped : Nat ]
  BY <1>6, <1>10, <1>11, <1>12
<1>14. \A g \in gone \ silent : g.id \notin lost'
  <2> SUFFICES ASSUME NEW g \in gone \ silent, g.id \in lost' PROVE FALSE
    OBVIOUS
  <2>1. g.id \notin lost
    BY DEF Leave, TruthInv, PassesFit
  <2>2. PICK e \in silent : g.id = e.id
    BY <1>1, <2>1
  <2>3. g = e
    BY <2>2 DEF Leave
  <2> QED
    BY <2>3
<1>15. lost \subseteq lost' /\ \A i \in lost' : i \in lost \/ \E g \in gone : i = g.id
  BY <1>1
<1>16. \A v \in collector'.events :
         v \in collector.events \/ \E g \in gone : v \in EventsOf(g, last) /\ g.id \notin lost'
  BY <1>8, <1>13, <1>14
<1>17. ASSUME collector'.dropped = 0
       PROVE  /\ collector.dropped = 0
              /\ \A g \in gone : g.id \in lost' \/ \E v \in collector'.events : v \in EventsOf(g, last)
  <2>1. collector.dropped = 0 /\ n = 0
    BY <1>11, <1>13, <1>17
  <2>2. news = kept
    BY <1>7, <1>12, <2>1
  <2>3. ASSUME NEW g \in gone, g \notin silent
        PROVE  \E v \in collector'.events : v \in EventsOf(g, last)
    BY <1>2, <1>9, <1>13, <2>2, <2>3
  <2>4. \A g \in silent : g.id \in lost'
    BY <1>1
  <2> QED
    BY <2>1, <2>3, <2>4
<1> QED
  BY <1>13, <1>15, <1>16, <1>17 DEF Judged

(* One step of a source: passes leave, at most one comes in, time goes on. *)
Advances(gone, last) ==
  /\ feed' \in FeedType /\ feed'.kind = feed.kind /\ feed'.slots = feed.slots
  /\ last \in Int /\ feed.prev <= last
  /\ feed'.next \in {feed.next, feed.next + 1}
  /\ feed'.next = feed.next + 1 => \E e \in feed'.active : e.id = feed.next
  /\ \A f \in feed.active : \E e \in feed'.active \cup gone : e.id = f.id
  /\ \A e \in feed'.active :
       \/ /\ \E f \in feed.active : e.id = f.id /\ e.first = f.first
          /\ \A g \in gone : g.id # e.id
       \/ e.id = feed.next /\ feed'.next = feed.next + 1

Recorded(gone, last) ==
  /\ \A r \in truth : r \in truth'
  /\ \A r \in truth' : r \in truth \/ \E g \in gone : r = Retired(g, last)
  /\ feed'.pc \in {"running", "ended"} => \A g \in gone : Retired(g, last) \in truth'

Steps(gone, last) ==
  /\ Leave(gone) /\ Judged(gone, last) /\ Advances(gone, last) /\ Recorded(gone, last)
  /\ feed.pc = "running"

LEMMA GoneWas ==
  ASSUME TruthInv, NEW gone, Leave(gone), NEW g \in gone
  PROVE  /\ g \in EntryType /\ g.id \in 1 .. (feed.next - 1) /\ g.first <= feed.prev
         /\ g.id \notin lost
         /\ \A r \in truth : r.pass # g.id
         /\ \A v \in collector.events : v.pass # g.id
<1>1. PICK f \in feed.active : g.id = f.id /\ g.first = f.first
  BY DEF Leave
<1> QED
  BY <1>1 DEF Leave, TruthInv, FeedFits, PassesFit

LEMMA RetiredTyped ==
  ASSUME NEW g \in EntryType, NEW last \in Int
  PROVE  Retired(g, last) \in RecordType /\ Retired(g, last).pass = g.id
  BY RoundedNear DEF Retired, RecordType, EntryType

LEMMA PassesKeep ==
  ASSUME TruthInv, NEW gone, NEW last, Steps(gone, last)
  PROVE  truth' \subseteq RecordType /\ lost' \subseteq Nat /\ PassesFit'
<1>1. feed.next \in Nat \ {0} /\ feed'.next \in Nat \ {0} /\ feed.next <= feed'.next
  BY DEF TruthInv, TruthTyped, FeedType, Steps, Advances
<1>2. last \in Int
  BY DEF Steps, Advances
<1>3. Leave(gone)
  BY DEF Steps
<1>4. ASSUME NEW r \in truth'
      PROVE  r \in RecordType /\ r.pass \in 1 .. (feed.next - 1)
  <2>1. CASE r \in truth
    BY <2>1 DEF TruthInv, TruthTyped, PassesFit
  <2>2. CASE \E g \in gone : r = Retired(g, last)
    BY <1>2, <1>3, <2>2, GoneWas, RetiredTyped
  <2> QED
    BY <2>1, <2>2 DEF Steps, Recorded
<1>5. \A i \in lost' : i \in 1 .. (feed.next - 1)
  <2> SUFFICES ASSUME NEW i \in lost' PROVE i \in 1 .. (feed.next - 1)
    OBVIOUS
  <2>1. CASE i \in lost
    BY <2>1 DEF TruthInv, PassesFit
  <2>2. CASE \E g \in gone : i = g.id
    BY <1>3, <2>2, GoneWas
  <2> QED
    BY <2>1, <2>2 DEF Steps, Judged
<1>6. ASSUME NEW v \in collector'.events
      PROVE  v.pass \in 1 .. (feed.next - 1) /\ v.pass \notin lost'
  <2>1. CASE v \in collector.events
    <3>1. v.pass \in 1 .. (feed.next - 1) /\ v.pass \notin lost
      BY <2>1 DEF TruthInv, PassesFit
    <3>2. \A g \in gone : v.pass # g.id
      BY <1>3, <2>1, GoneWas
    <3> QED
      BY <3>1, <3>2 DEF Steps, Judged
  <2>2. CASE \E g \in gone : v \in EventsOf(g, last) /\ g.id \notin lost'
    <3>1. PICK g \in gone : v \in EventsOf(g, last) /\ g.id \notin lost'
      BY <2>2
    <3>2. g \in EntryType /\ g.id \in 1 .. (feed.next - 1)
      BY <1>3, GoneWas
    <3> QED
      BY <1>2, <3>1, <3>2, EventsTyped
  <2> QED
    BY <2>1, <2>2 DEF Steps, Judged
<1>7. ASSUME NEW r \in truth', NEW s \in truth', r.pass = s.pass PROVE r = s
  <2>1. CASE r \in truth /\ s \in truth
    BY <1>7, <2>1 DEF TruthInv, PassesFit
  <2>2. CASE \E g, h \in gone : r = Retired(g, last) /\ s = Retired(h, last)
    BY <1>2, <1>3, <1>7, <2>2, GoneWas, RetiredTyped DEF Leave
  <2>3. CASE \E g \in gone : r = Retired(g, last) /\ s \in truth
    BY <1>2, <1>3, <1>7, <2>3, GoneWas, RetiredTyped
  <2>4. CASE \E g \in gone : s = Retired(g, last) /\ r \in truth
    BY <1>2, <1>3, <1>7, <2>4, GoneWas, RetiredTyped
  <2> QED
    BY <2>1, <2>2, <2>3, <2>4 DEF Steps, Recorded
<1>8. ASSUME NEW e \in feed'.active
      PROVE  /\ \A r \in truth' : r.pass # e.id
             /\ \A v \in collector'.events : v.pass # e.id
             /\ e.id \notin lost'
  <2>1. CASE e.id = feed.next /\ feed'.next = feed.next + 1
    BY <1>1, <1>4, <1>5, <1>6, <2>1
  <2>2. CASE /\ \E f \in feed.active : e.id = f.id /\ e.first = f.first
             /\ \A g \in gone : g.id # e.id
    <3>1. /\ \A r \in truth : r.pass # e.id
          /\ \A v \in collector.events : v.pass # e.id
          /\ e.id \notin lost
      BY <2>2 DEF TruthInv, PassesFit
    <3>2. \A r \in truth' : r.pass # e.id
      BY <1>2, <1>3, <2>2, <3>1, GoneWas, RetiredTyped DEF Steps, Recorded
    <3>3. e.id \notin lost'
      BY <2>2, <3>1 DEF Steps, Judged
    <3>4. \A v \in collector'.events : v.pass # e.id
      <4> SUFFICES ASSUME NEW v \in collector'.events, v \notin collector.events PROVE v.pass # e.id
        BY <3>1
      <4>1. PICK g \in gone : v \in EventsOf(g, last)
        BY DEF Steps, Judged
      <4>2. v.pass = g.id
        BY <1>2, <1>3, <4>1, GoneWas, EventsTyped
      <4> QED
        BY <2>2, <4>2
    <3> QED
      BY <3>2, <3>3, <3>4
  <2> QED
    BY <2>1, <2>2 DEF Steps, Advances
<1>9. truth' \subseteq RecordType
  BY <1>4
<1>10. lost' \subseteq Nat
  BY <1>1, <1>5
<1>11. /\ \A r \in truth' : r.pass \in 1 .. (feed'.next - 1)
       /\ \A v \in collector'.events : v.pass \in 1 .. (feed'.next - 1)
       /\ \A i \in lost' : i \in 1 .. (feed'.next - 1)
  BY <1>1, <1>4, <1>5, <1>6
<1> QED
  BY <1>6, <1>7, <1>8, <1>9, <1>10, <1>11 DEF PassesFit

LEMMA RecordsKeep ==
  ASSUME TruthInv, NEW gone, NEW last, Steps(gone, last)
  PROVE  RecordsFit'
<1> SUFFICES ASSUME feed'.pc \in {"running", "ended"}, NEW i \in 1 .. (feed'.next - 1)
             PROVE  (\E r \in truth' : r.pass = i) \/ \E e \in feed'.active : e.id = i
  BY DEF RecordsFit
<1>1. CASE i = feed.next
  BY <1>1 DEF TruthInv, TruthTyped, FeedType, Steps, Advances
<1>2. CASE i # feed.next
  <2>1. i \in 1 .. (feed.next - 1)
    BY <1>2 DEF TruthInv, TruthTyped, FeedType, Steps, Advances
  <2>2. CASE \E r \in truth : r.pass = i
    BY <2>2 DEF Steps, Recorded
  <2>3. CASE \E f \in feed.active : f.id = i
    <3>1. PICK e \in feed'.active \cup gone : e.id = i
      BY <2>3 DEF Steps, Advances
    <3>2. ASSUME e \in gone PROVE Retired(e, last) \in truth' /\ Retired(e, last).pass = i
      BY <3>1, <3>2, GoneWas, RetiredTyped DEF Steps, Advances, Recorded
    <3> QED
      BY <3>1, <3>2
  <2> QED
    BY <2>1, <2>2, <2>3 DEF TruthInv, RecordsFit, Steps
<1> QED
  BY <1>1, <1>2

-----------------------------------------------------------------------------
(* A pass that was heard of is accounted for, by its own read or miss.     *)
LEMMA OwnEvent ==
  ASSUME NEW g \in EntryType, NEW last \in Int, g.first <= last, NEW v \in EventsOf(g, last)
  PROVE  IF v.kind = "pass" THEN v.pass = Retired(g, last).pass ELSE v.kind = "miss" /\ Vouches(v, Retired(g, last))
<1>1. /\ Rounded(g.first) \in Int /\ OneTick * Rounded(g.first) <= g.first + 1
      /\ Rounded(last) \in Int /\ last - 1 <= OneTick * Rounded(last)
  BY RoundedNear DEF EntryType
<1>2. PICK a \in Int, b \in Int : a = Rounded(g.first) /\ b = Rounded(last)
  BY <1>1
<1>3. /\ Retired(g, last).pass = g.id
      /\ Retired(g, last).first_frame = a /\ Retired(g, last).last_frame = b
  BY <1>2 DEF Retired
<1>4. v \in EventType /\ v.pass = g.id
  BY EventsTyped
<1>5. ASSUME v.kind = "miss" PROVE Vouches(v, Retired(g, last))
  <2>1. v.start <= g.first + OneTick /\ v.end >= last - OneTick
    BY <1>5, EventsTyped DEF EntryType, OneTick
  <2> QED
    BY <1>1, <1>2, <1>3, <1>4, <2>1 DEF Vouches, FrameSlack, OneTick, EntryType, EventType
<1> QED
  BY <1>3, <1>4, <1>5 DEF EventType

LEMMA AllHeardKeeps ==
  ASSUME TruthInv, NEW gone, NEW last, Steps(gone, last)
  PROVE  AllHeard'
<1> SUFFICES ASSUME collector'.dropped = 0, NEW r \in truth', r.pass \notin lost'
             PROVE  Decodes(r)' \/ Misses(r)'
  BY DEF AllHeard
<1>1. CASE r \in truth
  <2>1. Decodes(r) \/ Misses(r)
    BY <1>1 DEF TruthInv, AllHeard, Steps, Judged
  <2>2. collector.events \subseteq collector'.events
    BY DEF Steps, Judged
  <2> QED
    BY <2>1, <2>2 DEF Decodes, Misses, Events, Vouches
<1>2. CASE r \notin truth
  <2>1. PICK g \in gone : r = Retired(g, last)
    BY <1>2 DEF Steps, Recorded
  <2>2. g \in EntryType /\ g.first <= feed.prev /\ last \in Int /\ feed.prev <= last
    BY <2>1, GoneWas DEF Steps, Advances
  <2>3. g.first <= last
    BY <2>2 DEF TruthInv, TruthTyped, FeedType, EntryType
  <2>4. r.pass = g.id
    BY <2>1, <2>2, RetiredTyped
  <2>5. PICK v \in collector'.events : v \in EventsOf(g, last)
    BY <2>4 DEF Steps, Judged
  <2>6. IF v.kind = "pass" THEN v.pass = r.pass ELSE v.kind = "miss" /\ Vouches(v, r)
    BY <2>1, <2>2, <2>3, <2>5, OwnEvent
  <2> QED
    BY <2>6 DEF Decodes, Misses, Events, Vouches
<1> QED
  BY <1>1, <1>2

(* One pass at a time: the windows of two passes are frames apart.         *)
LEMMA OwnMissesKeep ==
  ASSUME TruthInv, NEW gone, NEW last, Steps(gone, last)
  PROVE  OwnMisses'
<1> SUFFICES ASSUME feed'.slots = 1, NEW v \in collector'.events, NEW r \in truth',
                    v.kind = "miss", Vouches(v, r)'
             PROVE  v.pass = r.pass
  BY DEF OwnMisses
<1>1. feed.slots = 1 /\ feed.pc = "running" /\ last \in Int /\ feed.prev \in Int /\ feed.prev <= last
  BY DEF Steps, Advances, TruthInv, TruthTyped, FeedType
<1>2. Vouches(v, r)
  BY DEF Vouches
<1>3. ASSUME NEW g \in gone
      PROVE  /\ g \in EntryType /\ g.first \in Nat /\ g.first <= last
             /\ Clear(g.first - 4 * OneTick)
  <2>1. PICK f \in feed.active : g.id = f.id /\ g.first = f.first
    BY DEF Steps, Leave
  <2>2. Clear(f.first - 4 * OneTick)
    BY <1>1 DEF TruthInv, GapsKept
  <2>3. g \in EntryType /\ g.first <= feed.prev
    BY GoneWas DEF Steps
  <2> QED
    BY <1>1, <2>1, <2>2, <2>3 DEF EntryType
<1>4. ASSUME NEW g \in gone, NEW h \in gone PROVE g.id = h.id
  BY <1>1 DEF Steps, Leave, TruthInv, FeedFits
<1>5. CASE v \in collector.events /\ r \in truth
  BY <1>1, <1>2, <1>5 DEF TruthInv, OwnMisses
<1>6. CASE v \notin collector.events /\ r \notin truth
  <2>1. PICK g \in gone : v \in EventsOf(g, last)
    BY <1>6 DEF Steps, Judged
  <2>2. PICK h \in gone : r = Retired(h, last)
    BY <1>6 DEF Steps, Recorded
  <2> QED
    BY <1>1, <1>3, <1>4, <2>1, <2>2, EventsTyped, RetiredTyped
<1>7. CASE v \notin collector.events /\ r \in truth
  <2>1. PICK g \in gone : v \in EventsOf(g, last)
    BY <1>7 DEF Steps, Judged
  <2>2. v.start \in {g.first - OneTick, g.first + OneTick}
    BY <1>1, <1>3, <2>1, EventsTyped
  <2>3. OneTick * r.last_frame <= g.first - 4 * OneTick + 1
    BY <1>3, <1>7 DEF Clear
  <2>4. r.last_frame \in Int
    BY <1>7 DEF TruthInv, TruthTyped, RecordType
  <2> QED
    BY <1>2, <1>3, <2>2, <2>3, <2>4 DEF Vouches, FrameSlack, OneTick
<1>8. CASE v \in collector.events /\ r \notin truth
  <2>1. PICK g \in gone : r = Retired(g, last)
    BY <1>8 DEF Steps, Recorded
  <2>2. v.end <= g.first - 4 * OneTick + OneTick
    BY <1>3, <1>8 DEF Clear
  <2>3. PICK a \in Int : a = Rounded(g.first) /\ g.first - 1 <= OneTick * a
    BY <1>3, RoundedNear
  <2>4. r.first_frame = a
    BY <2>1, <2>3 DEF Retired
  <2>5. v.end \in Int
    BY <1>8 DEF TruthInv, TruthTyped, EventType
  <2> QED
    BY <1>2, <1>3, <2>2, <2>3, <2>4, <2>5 DEF Vouches, FrameSlack, OneTick
<1> QED
  BY <1>5, <1>6, <1>7, <1>8

-----------------------------------------------------------------------------
(* The pace of a source that shows one pass at a time.                     *)
NextIn == feed.prev + OneTick * feed.launch_in - 4 * OneTick

Paced(gone, last) ==
  feed'.pc = "running" /\ feed'.slots = 1 =>
    /\ gone # {} => feed'.active = {} /\ last <= NextIn'
    /\ gone = {} =>
         /\ \A e \in feed'.active : e.first \in Int /\ Clear(e.first - 4 * OneTick)
         /\ feed'.active = {} => feed.active = {} /\ NextIn <= NextIn'
    /\ feed'.launch_in >= 0
    /\ feed'.kind = "inject" => feed'.launch_in >= 1 /\ (feed'.active # {} => feed'.launch_in >= 4)

LEMMA ClearLater ==
  ASSUME TruthInv, NEW a \in Int, NEW b \in Int, a <= b, Clear(a)
  PROVE  Clear(b)
<1>1. \A r \in truth : r.last_frame \in Int
  BY DEF TruthInv, TruthTyped, RecordType
<1>2. \A v \in collector.events : v.end \in Int
  BY DEF TruthInv, TruthTyped, EventType
<1> QED
  BY <1>1, <1>2 DEF Clear, OneTick

LEMMA GapsKeep ==
  ASSUME TruthInv, NEW gone, NEW last, Steps(gone, last), Paced(gone, last)
  PROVE  GapsKept'
<1> SUFFICES ASSUME feed'.pc = "running", feed'.slots = 1
             PROVE  /\ \A e \in feed'.active : Clear(e.first - 4 * OneTick)'
                    /\ feed'.active = {} => Clear(NextIn)'
  BY DEF GapsKept, Paced, NextIn
<1>1. /\ feed.slots = 1 /\ feed.pc = "running" /\ last \in Int /\ feed.prev \in Int /\ feed.prev <= last
      /\ NextIn \in Int /\ NextIn' \in Int
  BY DEF Steps, Advances, TruthInv, TruthTyped, FeedType, NextIn, OneTick
<1>2. CASE gone = {}
  <2>1. (\A r \in truth' : r \in truth) /\ \A v \in collector'.events : v \in collector.events
    BY <1>2 DEF Steps, Recorded, Judged
  <2>2. ASSUME NEW e \in feed'.active PROVE Clear(e.first - 4 * OneTick)'
    <3>1. Clear(e.first - 4 * OneTick)
      BY <1>2 DEF Paced
    <3> QED
      BY <2>1, <3>1 DEF Clear
  <2>3. ASSUME feed'.active = {} PROVE Clear(NextIn)'
    <3>1. feed.active = {} /\ NextIn <= NextIn'
      BY <1>2, <2>3 DEF Paced
    <3>2. Clear(NextIn)
      BY <1>1, <3>1 DEF TruthInv, GapsKept, NextIn
    <3>3. PICK b \in Int : b = NextIn'
      BY <1>1
    <3>4. Clear(b)
      BY <1>1, <3>1, <3>2, <3>3, ClearLater
    <3> QED
      BY <2>1, <3>3, <3>4 DEF Clear
  <2> QED
    BY <2>2, <2>3
<1>3. CASE gone # {}
  <2>1. feed'.active = {} /\ last <= NextIn'
    BY <1>3 DEF Paced
  <2>2. PICK g \in gone : TRUE
    BY <1>3
  <2>3. PICK f \in feed.active : g.first = f.first
    BY DEF Steps, Leave
  <2>4. Clear(g.first - 4 * OneTick) /\ g.first \in Nat /\ g.first <= feed.prev
    BY <1>1, <2>3, GoneWas DEF Steps, TruthInv, GapsKept, EntryType
  <2>5. PICK b \in Int : b = NextIn'
    BY <1>1
  <2>6. Clear(b)
    BY <1>1, <2>1, <2>4, <2>5, ClearLater DEF OneTick
  <2>7. ASSUME NEW r \in truth' PROVE OneTick * r.last_frame <= b + 1
    <3>1. CASE r \in truth
      BY <2>6, <3>1 DEF Clear
    <3>2. CASE \E h \in gone : r = Retired(h, last)
      <4>1. PICK c \in Int : c = Rounded(last) /\ OneTick * c <= last + 1
        BY <1>1, RoundedNear
      <4>2. r.last_frame = c
        BY <3>2, <4>1 DEF Retired
      <4> QED
        BY <1>1, <2>1, <2>5, <4>1, <4>2 DEF OneTick
    <3> QED
      BY <3>1, <3>2 DEF Steps, Recorded
  <2>8. ASSUME NEW v \in collector'.events, v.kind = "miss" PROVE v.end <= b + OneTick
    <3>1. CASE v \in collector.events
      BY <2>6, <2>8, <3>1 DEF Clear
    <3>2. CASE \E h \in gone : v \in EventsOf(h, last)
      <4>1. v.end \in {last - OneTick, last + OneTick}
        BY <1>1, <2>8, <3>2, EventsTyped DEF Steps, Leave
      <4> QED
        BY <1>1, <2>1, <2>5, <4>1 DEF OneTick
    <3> QED
      BY <3>1, <3>2 DEF Steps, Judged
  <2> QED
    BY <2>1, <2>5, <2>7, <2>8 DEF Clear
<1> QED
  BY <1>2, <1>3

(* What a step of a source keeps of the invariant.                         *)
LEMMA StepsKeep ==
  ASSUME TruthInv, NEW gone, NEW last, Steps(gone, last), Paced(gone, last),
         FeedFits', IsFiniteSet(feed'.active), UNCHANGED soak
  PROVE  TruthInv'
<1>1. TruthTyped'
  BY PassesKeep DEF Steps, Advances, Judged, TruthInv, TruthTyped
<1>2. SoakFits'
  BY DEF Steps, Advances, TruthInv, SoakFits
<1> QED
  BY <1>1, <1>2, PassesKeep, RecordsKeep, AllHeardKeeps, OwnMissesKeep, GapsKeep DEF TruthInv

-----------------------------------------------------------------------------
(* The first states, the end of a run, and what follows from the invariant.*)
LEMMA PlansAreLong ==
  ASSUME NEW plan \in Plans
  PROVE  /\ plan.idle \in Nat /\ plan.idle >= 4
         /\ plan.frames \in Nat /\ plan.frames >= 2
<1>1. plan.idle \in IdleGaps /\ plan.frames \in PassLengths
  BY DEF Plans
<1>2. plan.idle \in Nat /\ plan.idle \notin 0 .. 3
  BY <1>1, TruthAssumption
<1>3. plan.frames \in Nat /\ plan.frames \notin {0, 1}
  BY <1>1, TruthAssumption
<1> QED
  BY <1>2, <1>3

LEMMA InitTruthInv == TruthInit => TruthInv
<1> SUFFICES ASSUME TruthInit PROVE TruthInv
  OBVIOUS
<1>1. PICK kind \in {"synthetic", "inject"}, slots \in MaxConcurrent, plan0 \in Plans :
        /\ kind = "synthetic" => slots = 1
        /\ feed = NewFeed(kind, slots, plan0)
  BY DEF TruthInit
<1>2. /\ truth = {} /\ lost = {} /\ collector.events = {} /\ collector.dropped = 0
      /\ soak = [ segments |-> 0, problems |-> FALSE, lost |-> FALSE, dropped |-> FALSE ]
  BY DEF TruthInit, NoEvents
<1>3. slots \in Nat \ {0} /\ plan0.idle \in Nat /\ plan0.idle >= 4
  BY PlansAreLong, TruthAssumption
<1>4. feed \in FeedType /\ feed.active = {} /\ feed.next = 1 /\ feed.prev = NoFrame /\ feed.ts = 0
      /\ feed.launch_in = plan0.idle /\ feed.kind = kind /\ feed.slots = slots
  BY <1>1, <1>3, TruthAssumption DEF NewFeed, FeedType, NoFrame
<1>5. TruthTyped
  BY <1>2, <1>4, FS_EmptySet DEF TruthTyped, TruthInit, NoEvents
<1>6. FeedFits /\ PassesFit /\ RecordsFit /\ AllHeard /\ OwnMisses /\ SoakFits
  BY <1>1, <1>2, <1>4 DEF FeedFits, PassesFit, RecordsFit, AllHeard, OwnMisses, SoakFits, NoFrame
<1>7. GapsKept
  BY <1>2, <1>3, <1>4 DEF GapsKept, Clear
<1> QED
  BY <1>5, <1>6, <1>7 DEF TruthInv

LEMMA LostIsUnaccounted ==
  ASSUME TruthInv, feed.slots = 1, NEW r \in truth, r.pass \in lost
  PROVE  r.pass \in Unaccounted
<1>1. ~ Decodes(r)
  BY DEF TruthInv, PassesFit, Decodes, Events
<1>2. ~ Misses(r)
  BY DEF TruthInv, PassesFit, OwnMisses, Misses, Events
<1> QED
  BY <1>1, <1>2 DEF Unaccounted

LEMMA UnaccountedIsLost ==
  ASSUME TruthInv, collector.dropped = 0, NEW i \in Unaccounted
  PROVE  i \in lost /\ \E r \in truth : r.pass \in lost
<1>1. PICK r \in truth : i = r.pass /\ ~ Decodes(r) /\ ~ Misses(r)
  BY DEF Unaccounted
<1> QED
  BY <1>1 DEF TruthInv, AllHeard

LEMMA SegmentEndsKeeps == TruthInv /\ SegmentEnds => TruthInv'
<1> SUFFICES ASSUME TruthInv, SegmentEnds PROVE TruthInv'
  OBVIOUS
<1>1. PICK plan0 \in Plans : feed' = NewFeed(feed.kind, feed.slots, plan0)
  BY DEF SegmentEnds
<1>2. /\ truth' = {} /\ lost' = {} /\ collector' = [ events |-> {}, dropped |-> 0 ]
      /\ soak' = [ segments |-> soak.segments + 1,
                   problems |-> soak.problems \/ Unaccounted # {} \/ collector.dropped > 0,
                   lost     |-> soak.lost \/ \E r \in truth : r.pass \in lost,
                   dropped  |-> soak.dropped \/ collector.dropped > 0 ]
  BY DEF SegmentEnds, NoEvents
<1>3. plan0.idle \in Nat /\ plan0.idle >= 4
  BY PlansAreLong
<1>4. feed.kind \in {"synthetic", "inject"} /\ feed.slots \in Nat \ {0}
      /\ (feed.kind = "synthetic" => feed.slots = 1)
  BY DEF TruthInv, TruthTyped, FeedType, FeedFits
<1>5. feed' \in FeedType /\ feed'.active = {} /\ feed'.next = 1 /\ feed'.prev = NoFrame /\ feed'.ts = 0
      /\ feed'.launch_in = plan0.idle /\ feed'.kind = feed.kind /\ feed'.slots = feed.slots
  BY <1>1, <1>3, <1>4, TruthAssumption DEF NewFeed, FeedType, NoFrame
<1>6. collector'.events = {} /\ collector'.dropped = 0
  BY <1>2
<1> DEFINE p == soak.problems \/ Unaccounted # {} \/ collector.dropped > 0
           l == soak.lost \/ \E r \in truth : r.pass \in lost
           d == soak.dropped \/ collector.dropped > 0
<1>7. /\ soak' \in [ segments : Int, problems : BOOLEAN, lost : BOOLEAN, dropped : BOOLEAN ]
      /\ soak'.problems <=> p
      /\ soak'.lost <=> l
      /\ soak'.dropped <=> d
  <2>1. soak \in [ segments : Int, problems : BOOLEAN, lost : BOOLEAN, dropped : BOOLEAN ]
    BY DEF TruthInv, TruthTyped
  <2>2. p \in BOOLEAN /\ l \in BOOLEAN /\ d \in BOOLEAN
    BY <2>1
  <2>3. soak' = [ segments |-> soak.segments + 1, problems |-> p, lost |-> l, dropped |-> d ]
    BY <1>2
  <2> HIDE DEF p, l, d
  <2> QED
    BY <2>1, <2>2, <2>3
<1>8. TruthTyped'
  BY <1>2, <1>5, <1>6, <1>7, FS_EmptySet DEF TruthTyped
<1>9. FeedFits' /\ PassesFit' /\ RecordsFit' /\ AllHeard' /\ OwnMisses'
  BY <1>2, <1>4, <1>5, <1>6 DEF FeedFits, PassesFit, RecordsFit, AllHeard, OwnMisses, NoFrame
<1>10. GapsKept'
  BY <1>2, <1>3, <1>5, <1>6 DEF GapsKept, Clear
<1>11. feed'.slots = 1 /\ soak'.lost => soak'.problems
  <2>1. feed.slots = 1 /\ (\E r \in truth : r.pass \in lost) => Unaccounted # {}
    BY LostIsUnaccounted
  <2> QED
    BY <1>5, <1>7, <2>1 DEF TruthInv, SoakFits
<1>12. soak'.problems => soak'.lost \/ soak'.dropped
  <2>1. Unaccounted # {} /\ collector.dropped = 0 => \E r \in truth : r.pass \in lost
    BY UnaccountedIsLost
  <2>2. collector.dropped = 0 \/ collector.dropped > 0
    BY DEF TruthInv, TruthTyped
  <2> QED
    BY <1>7, <2>1, <2>2 DEF TruthInv, SoakFits
<1> QED
  BY <1>8, <1>9, <1>10, <1>11, <1>12 DEF TruthInv, SoakFits

LEMMA InvReconciles == TruthInv => TruthReconciles
<1> SUFFICES ASSUME TruthInv PROVE TruthReconciles
  OBVIOUS
<1>1. ASSUME feed.pc \in {"running", "ended"}
      PROVE  { r.pass : r \in truth } = (1 .. (feed.next - 1)) \ { e.id : e \in feed.active }
  <2>1. \A i \in 1 .. (feed.next - 1) : (\E r \in truth : r.pass = i) \/ \E e \in feed.active : e.id = i
    BY <1>1 DEF TruthInv, RecordsFit
  <2>2. \A r \in truth : r.pass \in 1 .. (feed.next - 1) /\ \A e \in feed.active : e.id # r.pass
    BY DEF TruthInv, PassesFit
  <2> QED
    BY <2>1, <2>2
<1>2. feed.slots = 1 => lost \cap { r.pass : r \in truth } \subseteq Unaccounted
  BY LostIsUnaccounted
<1>3. collector.dropped = 0 => Unaccounted \subseteq lost
  BY UnaccountedIsLost
<1>4. \A r, s \in truth : r.pass = s.pass => r = s
  BY DEF TruthInv, PassesFit
<1> QED
  BY <1>1, <1>2, <1>3, <1>4 DEF TruthReconciles, TruthInv, SoakFits

-----------------------------------------------------------------------------
(* The steps of the sources.                                               *)
LEMMA FeedParts ==
  ASSUME TruthInv
  PROVE  /\ feed \in FeedType /\ IsFiniteSet(feed.active)
         /\ feed.active \subseteq EntryType /\ feed.prev \in Int /\ feed.ts \in Nat /\ feed.prev <= feed.ts
         /\ feed.launch_in \in Int /\ feed.next \in Nat \ {0} /\ feed.slots \in Nat \ {0}
         /\ feed.plan \in Plans
  BY DEF TruthInv, TruthTyped, FeedFits, FeedType

LEMMA AllMayLeave ==
  ASSUME TruthInv, NEW gone \in SUBSET feed.active
  PROVE  Leave(gone)
<1>1. IsFiniteSet(gone)
  BY FeedParts, FS_Subset
<1> QED
  BY <1>1, FeedParts DEF Leave, TruthInv, FeedFits

LEMMA EndsEarlyKeeps ==
  ASSUME TruthInv, NEW pc \in {"stopped", "failed"}, EndsEarly(pc)
  PROVE  TruthInv'
<1> DEFINE gone == feed.active
<1>1. Leave(gone)
  BY AllMayLeave
<1>2. Judged(gone, feed.prev)
  BY <1>1, FeedParts, JudgesJudged DEF EndsEarly
<1>3. /\ feed' \in FeedType /\ feed'.active = {} /\ feed'.pc = pc /\ feed'.kind = feed.kind
      /\ feed'.slots = feed.slots /\ feed'.next = feed.next /\ feed'.prev = feed.prev /\ feed'.ts = feed.ts
  BY FeedParts DEF EndsEarly, FeedType
<1>4. Advances(gone, feed.prev)
  BY <1>3, FeedParts DEF Advances
<1>5. Recorded(gone, feed.prev)
  BY <1>3 DEF EndsEarly, Recorded
<1>6. Steps(gone, feed.prev) /\ Paced(gone, feed.prev)
  BY <1>1, <1>2, <1>3, <1>4, <1>5 DEF Steps, Paced, EndsEarly
<1>7. FeedFits' /\ IsFiniteSet(feed'.active)
  BY <1>3, FS_EmptySet DEF FeedFits, TruthInv
<1> QED
  BY <1>6, <1>7, StepsKeep DEF EndsEarly

(* A frame further.                                                        *)
Ahead(e)  == [ e EXCEPT !.k = @ + 1 ]
Drawn(es) == { Ahead(e) : e \in es }

LEMMA DrawnFacts ==
  ASSUME NEW es \in SUBSET EntryType, IsFiniteSet(es)
  PROVE  /\ Drawn(es) \subseteq EntryType /\ IsFiniteSet(Drawn(es))
         /\ \A d \in Drawn(es) : \E e \in es :
              d = Ahead(e) /\ d.id = e.id /\ d.first = e.first /\ d.k = e.k + 1 /\ d.plan = e.plan
         /\ \A e \in es : \E d \in Drawn(es) : d.id = e.id
<1>1. \A e \in es : /\ Ahead(e) \in EntryType /\ Ahead(e).id = e.id /\ Ahead(e).first = e.first
                    /\ Ahead(e).k = e.k + 1 /\ Ahead(e).plan = e.plan
  BY DEF Ahead, EntryType
<1>2. IsFiniteSet(Drawn(es))
  <2>1. [ e \in es |-> Ahead(e) ] \in Surjection(es, Drawn(es))
    BY DEF Surjection, Drawn
  <2> QED
    BY <2>1, FS_Surjection
<1> QED
  BY <1>1, <1>2 DEF Drawn

LEMMA ComposedFields ==
  ASSUME NEW f \in FeedType, IsFiniteSet(f.active)
  PROVE  /\ Composited(f) \in FeedType
         /\ Composited(f) = [ f EXCEPT !.active = Drawn(f.active) ]
<1>1. Composited(f) = [ f EXCEPT !.active = Drawn(f.active) ]
  BY DEF Composited, Drawn, Ahead
<1>2. f.active \subseteq EntryType
  BY DEF FeedType
<1>3. PICK es \in SUBSET EntryType : es = Drawn(f.active)
  BY <1>2, DrawnFacts
<1> QED
  BY <1>1, <1>3 DEF FeedType

(* The record of a source after each of its assignments.                   *)
AtClock(f, ts, prev)     == [ f EXCEPT !.ts = ts, !.prev = prev ]
WithPasses(f, es, prev)  == [ f EXCEPT !.active = es, !.prev = prev ]
WithArrival(f, es, prev) == [ f EXCEPT !.active = es, !.next = @ + 1, !.prev = prev ]
WithCount(f, prev)       == [ f EXCEPT !.launch_in = @ - 1, !.prev = prev ]
WithTail(f, prev)        == [ f EXCEPT !.tail = @ - 1, !.prev = prev ]
WithEnd(f)               == [ f EXCEPT !.pc = "ended" ]

SameRun(f, g) == g \in FeedType /\ g.kind = f.kind /\ g.slots = f.slots

LEMMA ClockSet ==
  ASSUME NEW f \in FeedType, NEW ts \in Nat, NEW prev \in Int
  PROVE  LET g == AtClock(f, ts, prev)
         IN  /\ SameRun(f, g) /\ g.ts = ts /\ g.prev = prev /\ g.active = f.active /\ g.next = f.next
             /\ g.launch_in = f.launch_in /\ g.tail = f.tail /\ g.pc = f.pc
  BY DEF FeedType, SameRun, AtClock

LEMMA PassesSet ==
  ASSUME NEW f \in FeedType, NEW es \in SUBSET EntryType, NEW prev \in Int
  PROVE  LET g == WithPasses(f, es, prev)
         IN  /\ SameRun(f, g) /\ g.ts = f.ts /\ g.prev = prev /\ g.active = es /\ g.next = f.next
             /\ g.launch_in = f.launch_in /\ g.tail = f.tail /\ g.pc = f.pc
  BY DEF FeedType, SameRun, WithPasses

LEMMA ArrivalSet ==
  ASSUME NEW f \in FeedType, NEW es \in SUBSET EntryType, NEW prev \in Int
  PROVE  LET g == WithArrival(f, es, prev)
         IN  /\ SameRun(f, g) /\ g.ts = f.ts /\ g.prev = prev /\ g.active = es /\ g.next = f.next + 1
             /\ g.launch_in = f.launch_in /\ g.tail = f.tail /\ g.pc = f.pc
<1>1. PICK n \in Nat \ {0} : n = f.next + 1
  BY DEF FeedType
<1>2. WithArrival(f, es, prev) = [ f EXCEPT !.active = es, !.next = n, !.prev = prev ]
  BY <1>1 DEF WithArrival
<1> QED
  BY <1>1, <1>2 DEF FeedType, SameRun

LEMMA CountSet ==
  ASSUME NEW f \in FeedType, NEW prev \in Int
  PROVE  LET g == WithCount(f, prev)
         IN  /\ SameRun(f, g) /\ g.ts = f.ts /\ g.prev = prev /\ g.active = f.active /\ g.next = f.next
             /\ g.launch_in = f.launch_in - 1 /\ g.tail = f.tail /\ g.pc = f.pc
<1>1. PICK n \in Int : n = f.launch_in - 1
  BY DEF FeedType
<1>2. WithCount(f, prev) = [ f EXCEPT !.launch_in = n, !.prev = prev ]
  BY <1>1 DEF WithCount
<1> QED
  BY <1>1, <1>2 DEF FeedType, SameRun

LEMMA TailSet ==
  ASSUME NEW f \in FeedType, NEW prev \in Int
  PROVE  LET g == WithTail(f, prev)
         IN  /\ SameRun(f, g) /\ g.ts = f.ts /\ g.prev = prev /\ g.active = f.active /\ g.next = f.next
             /\ g.launch_in = f.launch_in /\ g.pc = f.pc
<1>1. PICK n \in Int : n = f.tail - 1
  BY DEF FeedType
<1>2. WithTail(f, prev) = [ f EXCEPT !.tail = n, !.prev = prev ]
  BY <1>1 DEF WithTail
<1> QED
  BY <1>1, <1>2 DEF FeedType, SameRun

LEMMA EndSet ==
  ASSUME NEW f \in FeedType
  PROVE  LET g == WithEnd(f)
         IN  /\ SameRun(f, g) /\ g.ts = f.ts /\ g.prev = f.prev /\ g.active = f.active /\ g.next = f.next
             /\ g.launch_in = f.launch_in /\ g.pc = "ended"
  BY DEF FeedType, SameRun, WithEnd

LEMMA ArrivalTyped ==
  ASSUME NEW f \in FeedType, NEW plan \in Plans, NEW k \in Nat
  PROVE  /\ InFlight(f, plan, k) \in EntryType
         /\ InFlight(f, plan, k).id = f.next /\ InFlight(f, plan, k).first = f.ts
         /\ InFlight(f, plan, k).k = k /\ InFlight(f, plan, k).plan = plan
<1>1. f.next \in Nat /\ f.ts \in Nat
  BY DEF FeedType
<1> QED
  BY <1>1 DEF InFlight, EntryType

LEMMA SyntheticKeeps == TruthInv /\ SyntheticFrame => TruthInv'
<1> SUFFICES ASSUME TruthInv, SyntheticFrame PROVE TruthInv'
  OBVIOUS
<1> DEFINE gone == { e \in feed.active : Over(e) }
           idle == [ feed EXCEPT !.active = @ \ gone ]
           Ready(plan) == [ idle EXCEPT !.plan = plan,
                                        !.launch_in = IF gone # {} THEN plan.idle ELSE @ ]
           Frame(plan) == [ Ready(plan) EXCEPT !.ts = @ + OneTick, !.prev = @ ]
           Result(plan) ==
             IF Ready(plan).active # {} THEN [ Composited(Frame(plan)) EXCEPT !.prev = Frame(plan).ts ]
             ELSE IF ~ Launched(Ready(plan)) /\ Ready(plan).launch_in = 0
               THEN [ Frame(plan) EXCEPT !.active = {InFlight(Frame(plan), plan, 1)},
                                         !.next = @ + 1, !.prev = Frame(plan).ts ]
             ELSE IF ~ Launched(Ready(plan))
               THEN [ Frame(plan) EXCEPT !.launch_in = @ - 1, !.prev = Frame(plan).ts ]
             ELSE IF Ready(plan).tail = 0 THEN [ Ready(plan) EXCEPT !.pc = "ended" ]
             ELSE [ Frame(plan) EXCEPT !.tail = @ - 1, !.prev = Frame(plan).ts ]
<1>1. PICK plan \in IF gone # {} /\ ~ Launched(feed) THEN Plans ELSE {feed.plan} : feed' = Result(plan)
  BY DEF SyntheticFrame
<1>2. /\ truth' = truth \cup { Retired(e, feed.prev) : e \in gone }
      /\ Judges(gone, feed.prev) /\ soak' = soak
      /\ feed.kind = "synthetic" /\ feed.pc = "running"
  BY DEF SyntheticFrame
<1>3. plan \in Plans /\ plan.idle \in Nat /\ plan.idle >= 4
  BY <1>1, FeedParts, PlansAreLong
<1>4. feed.slots = 1 /\ \A e, f \in feed.active : e = f
  BY <1>2 DEF TruthInv, FeedFits
<1>5. Leave(gone) /\ Judged(gone, feed.prev)
  BY <1>2, AllMayLeave, FeedParts, JudgesJudged
<1>6. PICK r \in FeedType :
        /\ r = Ready(plan)
        /\ r.kind = "synthetic" /\ r.slots = 1 /\ r.pc = "running" /\ r.ts = feed.ts /\ r.prev = feed.prev
        /\ r.active = feed.active \ gone /\ r.next = feed.next /\ r.tail = feed.tail
        /\ r.launch_in = IF gone # {} THEN plan.idle ELSE feed.launch_in
  <2>1. feed \in FeedType
    BY FeedParts
  <2>2. PICK l \in Int : l = IF gone # {} THEN plan.idle ELSE feed.launch_in
    BY <1>3, FeedParts
  <2>3. PICK es \in SUBSET EntryType : es = feed.active \ gone
    BY FeedParts
  <2>4. Ready(plan) = [ feed EXCEPT !.active = es, !.plan = plan, !.launch_in = l ]
    BY <2>1, <2>2, <2>3 DEF FeedType
  <2> HIDE DEF gone, Ready
  <2> QED
    BY <1>2, <1>3, <1>4, <2>1, <2>2, <2>3, <2>4 DEF FeedType
<1>7. PICK t \in FeedType :
        /\ t = Frame(plan)
        /\ t.kind = "synthetic" /\ t.slots = 1 /\ t.pc = "running" /\ t.ts = feed.ts + 2 /\ t.prev = feed.prev
        /\ t.active = r.active /\ t.next = feed.next /\ t.tail = feed.tail /\ t.launch_in = r.launch_in
  <2>1. PICK t : t = Frame(plan)
    OBVIOUS
  <2>2. PICK ts \in Nat : ts = feed.ts + 2
    BY FeedParts
  <2>3. t = AtClock(r, ts, feed.prev)
    BY <1>6, <2>1, <2>2 DEF OneTick, AtClock
  <2> HIDE DEF Frame, gone, idle
  <2>4. /\ SameRun(r, t) /\ t.ts = ts /\ t.prev = feed.prev /\ t.active = r.active /\ t.next = r.next
        /\ t.launch_in = r.launch_in /\ t.tail = r.tail /\ t.pc = r.pc
    BY <2>2, <2>3, FeedParts, ClockSet
  <2> QED
    BY <1>6, <2>1, <2>2, <2>4 DEF SameRun
<1>8. feed' =
        IF r.active # {} THEN WithPasses(Composited(t), Composited(t).active, t.ts)
        ELSE IF ~ Launched(r) /\ r.launch_in = 0
          THEN WithArrival(t, {InFlight(t, plan, 1)}, t.ts)
        ELSE IF ~ Launched(r) THEN WithCount(t, t.ts)
        ELSE IF r.tail = 0 THEN WithEnd(r)
        ELSE WithTail(t, t.ts)
  <2>1. Composited(t) \in FeedType
    <3>1. IsFiniteSet(t.active)
      BY <1>6, <1>7, FeedParts, FS_Subset
    <3> QED
      BY <3>1, ComposedFields
  <2>2. [ Composited(t) EXCEPT !.prev = t.ts ] = WithPasses(Composited(t), Composited(t).active, t.ts)
    BY <2>1 DEF FeedType, WithPasses
  <2> HIDE DEF Ready, Frame
  <2> QED
    BY <1>1, <1>6, <1>7, <2>2 DEF WithArrival, WithCount, WithEnd, WithTail
<1>9. r.active # {} => gone = {} /\ r.active = feed.active
  BY <1>4, <1>6
<1> HIDE DEF gone, idle, Ready, Frame, Result
<1>10. /\ r.launch_in \in Int /\ r.launch_in >= 0 /\ (gone # {} => r.launch_in >= 4)
       /\ (gone = {} => r.launch_in = feed.launch_in)
  BY <1>2, <1>3, <1>4, <1>6, FeedParts DEF TruthInv, GapsKept
<1>11. gone = {} \/ r.active = {}
  BY <1>9
<1>12. /\ feed.prev \in Int /\ feed.ts \in Nat /\ feed.prev <= feed.ts /\ feed.next \in Nat \ {0}
       /\ IsFiniteSet(feed.active) /\ feed.active \subseteq EntryType
  BY FeedParts
<1>13. Recorded(gone, feed.prev)
  BY <1>2 DEF Recorded
<1> DEFINE Goal == /\ Advances(gone, feed.prev) /\ Paced(gone, feed.prev)
                   /\ FeedFits' /\ IsFiniteSet(feed'.active)
<1>14. ASSUME r.active # {} PROVE Goal
  <2>1. gone = {} /\ r.active = feed.active
    BY <1>9, <1>14
  <2>2. Composited(t) \in FeedType /\ Composited(t) = [ t EXCEPT !.active = Drawn(feed.active) ]
    BY <1>7, <1>12, <2>1, ComposedFields
  <2>3. PICK es \in SUBSET EntryType : es = Drawn(feed.active)
    BY <1>12, DrawnFacts
  <2>4. feed' = WithPasses(t, es, t.ts)
    BY <1>7, <1>8, <1>14, <2>2, <2>3 DEF FeedType, WithPasses
  <2>5. /\ feed' \in FeedType /\ feed'.kind = "synthetic" /\ feed'.slots = 1 /\ feed'.pc = "running"
        /\ feed'.ts = feed.ts + 2 /\ feed'.prev = feed.ts + 2 /\ feed'.next = feed.next
        /\ feed'.active = es /\ feed'.launch_in = feed.launch_in
    <3>1. t.ts \in Int
      BY <1>7, <1>12
    <3> QED
      BY <1>7, <1>10, <1>12, <2>1, <2>4, <3>1, PassesSet DEF SameRun
  <2>6. /\ IsFiniteSet(es)
        /\ \A d \in es : \E e \in feed.active : d = Ahead(e) /\ d.id = e.id /\ d.first = e.first
        /\ \A e \in feed.active : \E d \in es : d.id = e.id
    BY <1>12, <2>3, DrawnFacts
  <2>7. \A d, e \in es : d = e
    BY <1>4, <2>6
  <2>8. FeedFits'
    <3>1. \A d \in es : d.id \in 1 .. (feed.next - 1) /\ d.first <= feed.prev /\ d.first \in Nat
      BY <1>12, <2>6 DEF TruthInv, FeedFits, EntryType
    <3> QED
      BY <1>12, <2>5, <2>7, <3>1 DEF FeedFits
  <2>9. Advances(gone, feed.prev)
    BY <1>2, <1>4, <1>12, <2>1, <2>5, <2>6 DEF Advances
  <2>10. Paced(gone, feed.prev)
    <3>1. \A f \in feed.active : f.first \in Int /\ Clear(f.first - 4 * OneTick)
      BY <1>2, <1>4, <1>12 DEF TruthInv, GapsKept, EntryType
    <3>2. \A d \in es : d.first \in Int /\ Clear(d.first - 4 * OneTick)
      BY <2>6, <3>1
    <3>3. es # {}
      BY <1>14, <2>1, <2>6
    <3> QED
      BY <1>10, <2>1, <2>5, <3>2, <3>3 DEF Paced
  <2> QED
    BY <2>5, <2>6, <2>8, <2>9, <2>10
<1>15. ASSUME r.active = {}, ~ Launched(r), r.launch_in = 0 PROVE Goal
  <2>1. gone = {} /\ feed.active = {} /\ feed.launch_in = 0
    BY <1>6, <1>10, <1>15
  <2>2. PICK e \in EntryType : e = InFlight(t, plan, 1) /\ e.id = feed.next /\ e.first = feed.ts + 2
    BY <1>3, <1>7, ArrivalTyped
  <2>3. feed' = WithArrival(t, {e}, t.ts)
    BY <1>8, <1>15, <2>2
  <2>4. /\ feed' \in FeedType /\ feed'.kind = "synthetic" /\ feed'.slots = 1 /\ feed'.pc = "running"
        /\ feed'.ts = feed.ts + 2 /\ feed'.prev = feed.ts + 2 /\ feed'.next = feed.next + 1
        /\ feed'.active = {e} /\ feed'.launch_in = 0
    <3>1. t.ts \in Int /\ {e} \in SUBSET EntryType
      BY <1>7, <1>12
    <3> QED
      BY <1>7, <1>12, <1>15, <2>3, <3>1, ArrivalSet DEF SameRun
  <2>5. FeedFits'
    BY <1>12, <2>2, <2>4 DEF FeedFits
  <2>6. Advances(gone, feed.prev)
    BY <1>2, <1>4, <1>12, <2>1, <2>2, <2>4 DEF Advances
  <2>7. Paced(gone, feed.prev)
    <3>1. Clear(NextIn) /\ NextIn \in Int
      BY <1>2, <1>4, <1>12, <2>1 DEF TruthInv, GapsKept, NextIn, OneTick
    <3>2. PICK b \in Int : b = feed.ts + 2 - 4 * OneTick
      BY <1>12 DEF OneTick
    <3>3. NextIn <= b
      BY <1>12, <2>1, <3>2 DEF NextIn, OneTick
    <3>4. Clear(b)
      BY <3>1, <3>2, <3>3, ClearLater
    <3>5. e.first \in Int /\ Clear(e.first - 4 * OneTick)
      BY <1>12, <2>2, <3>2, <3>4 DEF OneTick
    <3> QED
      BY <2>1, <2>4, <3>5 DEF Paced
  <2> QED
    BY <2>4, <2>5, <2>6, <2>7, FS_Singleton
<1>16. ASSUME r.active = {}, ~ (~ Launched(r) /\ r.launch_in = 0) PROVE Goal
  <2>1. feed.active = gone
    BY <1>6, <1>16 DEF gone
  <2>2. /\ feed' \in FeedType /\ feed'.kind = "synthetic" /\ feed'.slots = 1
        /\ feed'.next = feed.next /\ feed'.active = {} /\ feed'.prev <= feed'.ts
        /\ feed'.pc = "running" =>
             /\ feed'.prev = feed.ts + 2
             /\ feed'.launch_in \in {r.launch_in, r.launch_in - 1} /\ feed'.launch_in >= 0
    <3>1. CASE ~ Launched(r)
      <4>1. feed' = WithCount(t, t.ts)
        BY <1>8, <1>16, <3>1
      <4>2. r.launch_in # 0
        BY <1>16, <3>1
      <4>3. t.ts \in Int
        BY <1>7, <1>12
      <4>4. /\ SameRun(t, feed') /\ feed'.ts = t.ts /\ feed'.prev = t.ts /\ feed'.active = t.active
            /\ feed'.next = t.next /\ feed'.launch_in = t.launch_in - 1
        BY <4>1, <4>3, CountSet
      <4> QED
        BY <1>7, <1>10, <1>12, <1>16, <4>2, <4>4 DEF SameRun
    <3>2. CASE Launched(r) /\ r.tail = 0
      <4>1. feed' = WithEnd(r)
        BY <1>8, <1>16, <3>2
      <4> QED
        BY <1>6, <1>10, <1>12, <1>16, <4>1, EndSet DEF SameRun
    <3>3. CASE Launched(r) /\ r.tail # 0
      <4>1. feed' = WithTail(t, t.ts)
        BY <1>8, <1>16, <3>3
      <4>2. t.ts \in Int
        BY <1>7, <1>12
      <4>3. /\ SameRun(t, feed') /\ feed'.ts = t.ts /\ feed'.prev = t.ts /\ feed'.active = t.active
            /\ feed'.next = t.next /\ feed'.launch_in = t.launch_in
        BY <4>1, <4>2, TailSet
      <4> QED
        BY <1>7, <1>10, <1>12, <1>16, <4>3 DEF SameRun
    <3> QED
      BY <3>1, <3>2, <3>3
  <2>3. FeedFits'
    BY <2>2 DEF FeedFits
  <2>4. Advances(gone, feed.prev)
    BY <1>2, <1>4, <1>12, <2>1, <2>2 DEF Advances
  <2>5. Paced(gone, feed.prev)
    <3> SUFFICES ASSUME feed'.pc = "running", feed'.slots = 1
                 PROVE  /\ gone # {} => feed.prev <= NextIn'
                        /\ gone = {} => feed.active = {} /\ NextIn <= NextIn'
      BY <2>2 DEF Paced
    <3>1. feed'.prev = feed.ts + 2 /\ feed'.launch_in \in {r.launch_in, r.launch_in - 1}
      BY <2>2
    <3>2. gone # {} => feed.prev <= NextIn'
      BY <1>10, <1>12, <3>1 DEF NextIn, OneTick
    <3>3. gone = {} => NextIn <= NextIn'
      BY <1>10, <1>12, <3>1 DEF NextIn, OneTick
    <3> QED
      BY <2>1, <3>2, <3>3
  <2> QED
    BY <2>2, <2>3, <2>4, <2>5, FS_EmptySet
<1>17. Goal
  <2> HIDE DEF Goal
  <2> QED
    BY <1>14, <1>15, <1>16
<1>18. Steps(gone, feed.prev)
  BY <1>2, <1>5, <1>13, <1>17 DEF Steps
<1> QED
  BY <1>2, <1>17, <1>18, StepsKeep

-----------------------------------------------------------------------------
(* A live frame of the injection.                                          *)
AtFrame(f, torn, late) ==
  [ f EXCEPT !.ts = @ + OneTick + late, !.jitter = @ + late, !.active = @ \ torn ]

LEMMA FrameSet ==
  ASSUME NEW f \in FeedType, NEW torn, NEW late \in Nat
  PROVE  LET g == AtFrame(f, torn, late)
         IN  /\ SameRun(f, g) /\ g.ts = f.ts + 2 + late /\ g.prev = f.prev /\ g.active = f.active \ torn
             /\ g.next = f.next /\ g.launch_in = f.launch_in /\ g.pc = f.pc
<1>1. PICK ts \in Nat, jitter \in Int, es \in SUBSET EntryType :
        ts = f.ts + 2 + late /\ jitter = f.jitter + late /\ es = f.active \ torn
  <2>1. f.ts \in Nat /\ f.jitter \in Int /\ f.active \in SUBSET EntryType
    BY DEF FeedType
  <2>2. PICK es \in SUBSET EntryType : es = f.active \ torn
    BY <2>1
  <2>3. f.ts + 2 + late \in Nat /\ f.jitter + late \in Int
    BY <2>1
  <2> QED
    BY <2>2, <2>3
<1>2. AtFrame(f, torn, late) = [ f EXCEPT !.ts = ts, !.jitter = jitter, !.active = es ]
  BY <1>1 DEF AtFrame, OneTick
<1> QED
  BY <1>1, <1>2 DEF FeedType, SameRun

(* What Launch and the drawing leave in flight.                            *)
Waits(f, d)  == d.active = Drawn(f.active) /\ d.next = f.next /\ d.launch_in = f.launch_in
Counts(f, d) ==
  /\ d.active = Drawn(f.active) /\ d.next = f.next
  /\ d.launch_in = f.launch_in - 1 /\ f.launch_in > 1 /\ Cardinality(f.active) < f.slots
Comes(f, plan, d) ==
  /\ d.active = Drawn(f.active \cup {InFlight(f, plan, 0)}) /\ d.next = f.next + 1
  /\ d.launch_in = plan.idle /\ f.launch_in <= 1 /\ Cardinality(f.active) < f.slots

LEMMA LaunchSet ==
  ASSUME NEW f \in FeedType, IsFiniteSet(f.active), NEW plan \in Plans
  PROVE  LET d == Composited(Launch(f, plan))
         IN  /\ SameRun(f, d) /\ d.ts = f.ts /\ d.pc = f.pc
             /\ Waits(f, d) \/ Counts(f, d) \/ Comes(f, plan, d)
<1> DEFINE l == Launch(f, plan)
           at == [ f EXCEPT !.launch_in = @ - 1 ]
<1>1. PICK n \in Int : n = f.launch_in - 1
  BY DEF FeedType
<1>2. at = [ f EXCEPT !.launch_in = n ]
  BY <1>1
<1>3. at \in FeedType /\ at.launch_in = n /\ at.active = f.active /\ at.next = f.next
      /\ at.kind = f.kind /\ at.slots = f.slots /\ at.ts = f.ts /\ at.pc = f.pc
  BY <1>2 DEF FeedType
<1>4. InFlight(f, plan, 0) \in EntryType
  BY ArrivalTyped
<1>5. PICK es \in SUBSET EntryType : es = f.active \cup {InFlight(f, plan, 0)}
  BY <1>4 DEF FeedType
<1>6. PICK m \in Nat \ {0}, idle \in Int : m = f.next + 1 /\ idle = plan.idle
  BY PlansAreLong DEF FeedType
<1> DEFINE come == [ at EXCEPT !.active = es, !.next = m, !.launch_in = idle ]
<1>7. come = [ at EXCEPT !.active = @ \cup {InFlight(f, plan, 0)}, !.next = @ + 1, !.launch_in = plan.idle ]
  BY <1>3, <1>5, <1>6
<1>8. l = IF Launched(f) \/ Cardinality(f.active) >= f.slots THEN f
          ELSE IF at.launch_in > 0 THEN at ELSE come
  BY <1>7 DEF Launch
<1> HIDE DEF at, l
<1>9. /\ come \in FeedType /\ come.active = es /\ come.next = m /\ come.launch_in = idle
      /\ come.kind = f.kind /\ come.slots = f.slots /\ come.ts = f.ts /\ come.pc = f.pc
  BY <1>3 DEF FeedType
<1> HIDE DEF come
<1>10. IsFiniteSet(es)
  BY <1>5, FS_AddElement
<1>11. l \in {f, at, come} /\ l \in FeedType /\ IsFiniteSet(l.active)
  BY <1>3, <1>8, <1>9, <1>10
<1>12. PICK d : d = Composited(l)
  OBVIOUS
<1>13. d \in FeedType /\ d = [ l EXCEPT !.active = Drawn(l.active) ]
  BY <1>11, <1>12, ComposedFields
<1>14. /\ d.active = Drawn(l.active) /\ d.next = l.next /\ d.launch_in = l.launch_in
       /\ d.kind = l.kind /\ d.slots = l.slots /\ d.ts = l.ts /\ d.pc = l.pc
  BY <1>11, <1>13 DEF FeedType
<1>15. SameRun(f, d) /\ d.ts = f.ts /\ d.pc = f.pc
  BY <1>3, <1>9, <1>11, <1>13, <1>14 DEF SameRun
<1>16. Waits(f, d) \/ Counts(f, d) \/ Comes(f, plan, d)
  <2>1. CASE Launched(f) \/ Cardinality(f.active) >= f.slots
    BY <1>8, <1>14, <2>1 DEF Waits
  <2>2. ASSUME ~ (Launched(f) \/ Cardinality(f.active) >= f.slots) PROVE Cardinality(f.active) < f.slots
    <3>1. Cardinality(f.active) \in Nat /\ f.slots \in Nat
      BY FS_CardinalityType DEF FeedType
    <3> QED
      BY <2>2, <3>1
  <2>3. CASE ~ (Launched(f) \/ Cardinality(f.active) >= f.slots) /\ at.launch_in > 0
    <3>1. l = at
      BY <1>8, <2>3
    <3>2. n > 0 /\ f.launch_in \in Int
      BY <1>3, <2>3 DEF FeedType
    <3>3. f.launch_in > 1
      BY <1>1, <3>2
    <3> QED
      BY <1>1, <1>3, <1>14, <2>2, <2>3, <3>1, <3>3 DEF Counts
  <2>4. CASE ~ (Launched(f) \/ Cardinality(f.active) >= f.slots) /\ ~ (at.launch_in > 0)
    <3>1. l = come
      BY <1>8, <2>4
    <3>2. ~ (n > 0) /\ f.launch_in \in Int
      BY <1>3, <2>4 DEF FeedType
    <3>3. f.launch_in <= 1
      BY <1>1, <3>2
    <3> QED
      BY <1>5, <1>6, <1>9, <1>14, <2>2, <2>4, <3>1, <3>3 DEF Comes
  <2> QED
    BY <2>1, <2>3, <2>4
<1> QED
  BY <1>12, <1>15, <1>16 DEF l

LEMMA TailRunsSet ==
  ASSUME NEW f \in FeedType
  PROVE  LET g == TailRuns(f)
         IN  /\ SameRun(f, g) /\ g.ts = f.ts /\ g.prev = f.prev /\ g.active = f.active
             /\ g.next = f.next /\ g.launch_in = f.launch_in
<1>1. PICK n \in Int, pc \in {"running", "ended", "stopped", "failed"} :
        n = f.tail - 1 /\ pc = IF f.tail > 1 THEN f.pc ELSE "ended"
  BY DEF FeedType
<1>2. TailRuns(f) = IF Launched(f) /\ f.active = {} THEN [ f EXCEPT !.tail = n, !.pc = pc ] ELSE f
  BY <1>1 DEF TailRuns
<1> QED
  BY <1>1, <1>2 DEF FeedType, SameRun

LEMMA InjectKeeps ==
  ASSUME TruthInv, NEW late \in Nat, NEW reconnected \in BOOLEAN, InjectFrame(late, reconnected)
  PROVE  TruthInv'
<1> DEFINE torn == IF reconnected THEN feed.active ELSE {}
           Now == AtFrame(feed, torn, late)
           Drawing(plan) == Composited(Launch(Now, plan))
           Past(plan) == { e \in Drawing(plan).active : Over(e) }
<1>1. PICK plan \in Replanned :
        /\ feed' = TailRuns([ Drawing(plan) EXCEPT !.active = @ \ Past(plan), !.prev = Now.ts ])
        /\ truth' = truth \cup { Retired(e, feed.prev) : e \in torn }
                          \cup { Retired(e, Now.ts) : e \in Past(plan) }
        /\ IF torn # {} THEN Judges(torn, feed.prev) ELSE Judges(Past(plan), Now.ts)
  BY DEF InjectFrame, AtFrame
<1>2. feed.kind = "inject" /\ feed.pc = "running" /\ soak' = soak
  BY DEF InjectFrame
<1>3. /\ feed \in FeedType /\ feed.prev \in Int /\ feed.ts \in Nat /\ feed.prev <= feed.ts
      /\ feed.next \in Nat \ {0} /\ feed.launch_in \in Int /\ feed.slots \in Nat \ {0}
      /\ IsFiniteSet(feed.active) /\ feed.active \subseteq EntryType
  BY FeedParts
<1>4. plan \in Plans /\ plan.idle \in Nat /\ plan.idle >= 4 /\ plan.frames \in Nat /\ plan.frames >= 2
  BY <1>1, FeedParts, PlansAreLong DEF Replanned
<1>5. PICK n \in FeedType :
        /\ n = Now
        /\ n.kind = "inject" /\ n.slots = feed.slots /\ n.ts = feed.ts + 2 + late
        /\ n.active = feed.active \ torn /\ n.next = feed.next /\ n.launch_in = feed.launch_in
        /\ n.pc = "running"
  BY <1>2, <1>3, FrameSet DEF SameRun
<1> HIDE DEF Now
<1>6. IsFiniteSet(n.active) /\ n.active \subseteq EntryType
  BY <1>3, <1>5, FS_Subset
<1>7. PICK d \in FeedType :
        /\ d = Drawing(plan)
        /\ d.kind = "inject" /\ d.slots = feed.slots /\ d.ts = n.ts /\ d.pc = "running"
        /\ Waits(n, d) \/ Counts(n, d) \/ Comes(n, plan, d)
  BY <1>4, <1>5, <1>6, LaunchSet DEF SameRun
<1> DEFINE over == { e \in d.active : Over(e) }
<1>8. over = Past(plan)
  BY <1>7
<1>9. d.active \subseteq EntryType
  BY DEF FeedType
<1> HIDE DEF Drawing, Past
<1> DEFINE rest == d.active \ over
<1>10. feed' = TailRuns(WithPasses(d, rest, n.ts))
  <2>1. [ d EXCEPT !.active = @ \ Past(plan), !.prev = Now.ts ] = WithPasses(d, rest, n.ts)
    BY <1>5, <1>8 DEF WithPasses, FeedType
  <2> QED
    BY <1>1, <1>7, <2>1
<1>11. /\ feed' \in FeedType /\ feed'.kind = "inject" /\ feed'.slots = feed.slots
       /\ feed'.ts = n.ts /\ feed'.prev = n.ts /\ feed'.active = rest /\ feed'.next = d.next
       /\ feed'.launch_in = d.launch_in
  <2>1. n.ts \in Int /\ rest \in SUBSET EntryType
    BY <1>9 DEF FeedType
  <2>2. PICK w \in FeedType :
          /\ w = WithPasses(d, rest, n.ts) /\ w.kind = d.kind /\ w.slots = d.slots
          /\ w.ts = d.ts /\ w.prev = n.ts /\ w.active = rest /\ w.next = d.next
          /\ w.launch_in = d.launch_in
    BY <2>1, PassesSet DEF SameRun
  <2>3. feed' = TailRuns(w)
    BY <1>10, <2>2
  <2> QED
    BY <1>7, <2>2, <2>3, TailRunsSet DEF SameRun
(* Who is in the picture: those that were, and perhaps one that came in.   *)
<1> DEFINE came == InFlight(n, plan, 0)
           Was(e) == \E f \in n.active : e = Ahead(f) /\ e.id = f.id /\ e.first = f.first
           New(e) == /\ e = Ahead(came) /\ e.id = feed.next /\ e.first = n.ts /\ ~ Over(e)
                     /\ Comes(n, plan, d)
<1>12. came \in EntryType /\ came.id = feed.next /\ came.first = n.ts /\ came.k = 0 /\ came.plan = plan
  BY <1>4, <1>5, ArrivalTyped
<1> HIDE DEF came
<1>13. /\ IsFiniteSet(d.active)
       /\ \A e \in d.active : Was(e) \/ New(e)
       /\ \A f \in n.active : \E e \in d.active : e.id = f.id
       /\ Comes(n, plan, d) => \E e \in d.active : New(e)
  <2>1. CASE ~ Comes(n, plan, d)
    <3>1. d.active = Drawn(n.active)
      BY <1>7, <2>1 DEF Waits, Counts
    <3> QED
      BY <1>6, <2>1, <3>1, DrawnFacts
  <2>2. CASE Comes(n, plan, d)
    <3>1. PICK es \in SUBSET EntryType : es = n.active \cup {came}
      BY <1>6, <1>12
    <3>2. d.active = Drawn(es)
      BY <2>2, <3>1 DEF Comes, came
    <3>3. IsFiniteSet(es)
      BY <1>6, <3>1, FS_AddElement
    <3>4. /\ IsFiniteSet(d.active)
          /\ \A e \in d.active : \E f \in es :
               e = Ahead(f) /\ e.id = f.id /\ e.first = f.first /\ e.k = f.k + 1 /\ e.plan = f.plan
          /\ \A f \in es : \E e \in d.active : e.id = f.id
      BY <3>2, <3>3, DrawnFacts
    <3>5. ASSUME NEW e \in d.active, e = Ahead(came), e.id = came.id, e.first = came.first,
                 e.k = came.k + 1, e.plan = came.plan
          PROVE  New(e)
      BY <1>4, <1>12, <2>2, <3>5 DEF Over
    <3>6. \A e \in d.active : Was(e) \/ New(e)
      BY <3>1, <3>4, <3>5
    <3>7. \E e \in d.active : New(e)
      <4>1. PICK e \in d.active : e.id = came.id
        BY <3>1, <3>4
      <4>2. ~ Was(e)
        BY <1>3, <1>5, <1>12, <4>1 DEF TruthInv, FeedFits
      <4> QED
        BY <3>6, <4>1, <4>2
    <3> QED
      BY <3>1, <3>4, <3>6, <3>7
  <2> QED
    BY <2>1, <2>2
<1>14. d.next \in {feed.next, feed.next + 1} /\ (d.next = feed.next + 1 => Comes(n, plan, d))
  BY <1>3, <1>5, <1>7 DEF Waits, Counts, Comes
<1>15. \A e \in d.active : Was(e) => \E f \in feed.active : e = Ahead(f) /\ e.id = f.id /\ e.first = f.first
  BY <1>5
<1>16. torn = {} => n.active = feed.active
  BY <1>5
<1>17. torn # {} => torn = feed.active /\ n.active = {}
  BY <1>5
<1> HIDE DEF torn
<1>18. \A e, f \in d.active : e.id = f.id => e = f
  <2> SUFFICES ASSUME NEW e \in d.active, NEW f \in d.active, e.id = f.id PROVE e = f
    OBVIOUS
  <2>1. CASE Was(e) /\ Was(f)
    BY <1>15, <2>1 DEF TruthInv, FeedFits
  <2>2. ASSUME NEW g \in d.active, Was(g) PROVE g.id # feed.next
    BY <1>3, <1>15, <2>2 DEF TruthInv, FeedFits
  <2>3. CASE New(e) /\ New(f)
    BY <2>3
  <2> QED
    BY <1>13, <2>1, <2>2, <2>3
(* Who has left it.                                                        *)
<1> DEFINE gone == IF torn # {} THEN torn ELSE over
           last == IF torn # {} THEN feed.prev ELSE n.ts
<1>19. torn # {} => over = {}
  BY <1>13, <1>17
<1>20. over = { e \in d.active : Over(e) } /\ rest = d.active \ over
  OBVIOUS
<1> HIDE DEF over, rest
<1>21. Leave(gone)
  <2>1. CASE torn # {}
    BY <1>17, <2>1, AllMayLeave
  <2>2. CASE torn = {}
    <3>1. \A e \in over : Was(e)
      BY <1>13, <1>20
    <3>2. IsFiniteSet(over) /\ over \subseteq EntryType
      BY <1>9, <1>13, <1>20, FS_Subset
    <3> QED
      BY <1>15, <1>18, <1>20, <2>2, <3>1, <3>2 DEF Leave
  <2> QED
    BY <2>1, <2>2
<1>22. Judges(gone, last) /\ truth' = truth \cup { Retired(e, last) : e \in gone }
  <2>1. CASE torn # {}
    BY <1>1, <1>8, <1>19, <2>1
  <2>2. CASE torn = {}
    BY <1>1, <1>5, <1>8, <2>2
  <2> QED
    BY <2>1, <2>2
<1>23. last \in Int /\ feed.prev <= last
  BY <1>3, <1>5
<1>24. (gone = torn /\ torn # {}) \/ (gone = over /\ torn = {})
  OBVIOUS
<1>25. last = IF torn # {} THEN feed.prev ELSE n.ts
  OBVIOUS
<1> HIDE DEF gone, last
<1>26. Judged(gone, last) /\ Recorded(gone, last)
  BY <1>21, <1>22, <1>23, JudgesJudged DEF Recorded
<1>27. \A e \in rest : e \in d.active /\ ~ Over(e) /\ (Was(e) \/ New(e))
  BY <1>13, <1>20
<1>28. ASSUME NEW e \in rest, Was(e) PROVE torn = {} /\ \A g \in gone : g.id # e.id
  <2>1. torn = {}
    BY <1>17, <1>28
  <2> QED
    BY <1>18, <1>20, <1>24, <2>1
<1>29. Comes(n, plan, d) => \E e \in rest : New(e)
  BY <1>13, <1>20
<1>30. \A f \in feed.active : \E e \in rest \cup gone : e.id = f.id
  <2>1. CASE torn # {}
    BY <1>17, <1>24, <2>1
  <2>2. CASE torn = {}
    BY <1>13, <1>16, <1>20, <1>24, <2>2
  <2> QED
    BY <2>1, <2>2
<1>31. Advances(gone, last)
  <2>1. \A e \in rest :
          \/ /\ \E f \in feed.active : e.id = f.id /\ e.first = f.first
             /\ \A g \in gone : g.id # e.id
          \/ e.id = feed.next /\ d.next = feed.next + 1
    <3> SUFFICES ASSUME NEW e \in rest
                 PROVE  \/ /\ \E f \in feed.active : e.id = f.id /\ e.first = f.first
                           /\ \A g \in gone : g.id # e.id
                        \/ e.id = feed.next /\ d.next = feed.next + 1
      OBVIOUS
    <3>1. CASE Was(e)
      BY <1>15, <1>27, <1>28, <3>1
    <3>2. CASE New(e)
      BY <1>5, <3>2 DEF Comes
    <3> QED
      BY <1>27, <3>1, <3>2
  <2>2. d.next = feed.next + 1 => \E e \in rest : e.id = feed.next
    BY <1>14, <1>29
  <2> QED
    BY <1>2, <1>11, <1>14, <1>23, <1>30, <2>1, <2>2 DEF Advances
<1>32. Steps(gone, last)
  BY <1>2, <1>21, <1>26, <1>31 DEF Steps
<1>33. IsFiniteSet(feed'.active)
  BY <1>11, <1>13, <1>20, FS_Subset
(* With one slot, none comes in while another is there.                    *)
<1>34. feed.slots = 1 /\ Cardinality(n.active) < n.slots => n.active = {}
  <2>1. PICK c \in Nat : c = Cardinality(n.active)
    BY <1>6, FS_CardinalityType
  <2>2. c = 0 => n.active = {}
    BY <1>6, <2>1, FS_EmptySet
  <2>3. feed.slots = 1 /\ c < n.slots => c = 0
    BY <1>5
  <2> QED
    BY <2>1, <2>2, <2>3
<1>35. ASSUME feed.slots = 1, NEW e \in d.active, NEW f \in d.active PROVE e = f
  <2>1. \A g, h \in feed.active : g = h
    BY <1>35 DEF TruthInv, FeedFits
  <2>2. CASE Was(e) /\ Was(f)
    BY <1>15, <2>1, <2>2
  <2>3. CASE New(e) /\ New(f)
    BY <2>3
  <2>4. \A g, h \in d.active : New(g) => ~ Was(h)
    BY <1>34, <1>35 DEF Comes
  <2> QED
    BY <1>13, <2>2, <2>3, <2>4
<1>36. FeedFits'
  <2>1. \A e \in rest : e.id \in 1 .. (d.next - 1) /\ e.first <= n.ts
    <3> SUFFICES ASSUME NEW e \in rest PROVE e.id \in 1 .. (d.next - 1) /\ e.first <= n.ts
      OBVIOUS
    <3>1. CASE Was(e)
      <4>1. PICK f \in feed.active : e.id = f.id /\ e.first = f.first
        BY <1>15, <1>27, <3>1
      <4>2. f.id \in 1 .. (feed.next - 1) /\ f.first <= feed.prev /\ f.first \in Nat
        BY <1>3 DEF TruthInv, FeedFits, EntryType
      <4> QED
        BY <1>3, <1>5, <1>14, <4>1, <4>2
    <3>2. CASE New(e)
      BY <1>3, <1>5, <3>2 DEF Comes
    <3> QED
      BY <1>27, <3>1, <3>2
  <2>2. \A e, f \in rest : (e.id = f.id => e = f) /\ (feed.slots = 1 => e = f)
    BY <1>18, <1>27, <1>35
  <2>3. n.ts <= n.ts
    BY <1>3, <1>5
  <2> QED
    BY <1>11, <2>1, <2>2, <2>3 DEF FeedFits
<1>37. Paced(gone, last)
  <2> SUFFICES ASSUME feed.slots = 1
               PROVE  /\ gone # {} => rest = {} /\ last <= NextIn'
                      /\ gone = {} =>
                           /\ \A e \in rest : e.first \in Int /\ Clear(e.first - 4 * OneTick)
                           /\ rest = {} => feed.active = {} /\ NextIn <= NextIn'
                      /\ d.launch_in >= 1 /\ (rest # {} => d.launch_in >= 4)
    <3>1. d.launch_in \in Int
      BY DEF FeedType
    <3> QED
      BY <1>11, <3>1 DEF Paced
  <2>1. feed.launch_in >= 1 /\ (feed.active # {} => feed.launch_in >= 4)
    BY <1>2 DEF TruthInv, GapsKept
  <2>2. Counts(n, d) \/ Comes(n, plan, d) => n.active = {}
    BY <1>34 DEF Counts, Comes
  <2>3. ~ Comes(n, plan, d) /\ n.active = {} => d.active = {}
    BY <1>13
  <2>4. d.launch_in >= 1 /\ (d.active # {} => d.launch_in >= 4)
    <3>1. CASE Waits(n, d)
      <4>1. d.active # {} => feed.active # {}
        <5>1. d.active # {} => n.active # {}
          BY <1>6, <3>1, DrawnFacts DEF Waits
        <5> QED
          BY <1>5, <5>1
      <4> QED
        BY <1>5, <2>1, <3>1, <4>1 DEF Waits
    <3>2. CASE Counts(n, d)
      <4>1. d.active = {}
        BY <1>6, <2>2, <3>2, DrawnFacts DEF Counts
      <4> QED
        BY <1>3, <1>5, <3>2, <4>1 DEF Counts
    <3>3. CASE Comes(n, plan, d)
      BY <1>4, <3>3 DEF Comes
    <3> QED
      BY <1>7, <3>1, <3>2, <3>3
  <2>5. n.ts \in Int /\ feed.prev + 2 <= n.ts /\ feed.ts + 2 <= n.ts /\ d.launch_in \in Int
    <3>1. d.launch_in \in Int
      BY DEF FeedType
    <3> QED
      BY <1>3, <1>5, <3>1
  <2>6. NextIn' = n.ts + 2 * d.launch_in - 8 /\ NextIn = feed.prev + 2 * feed.launch_in - 8
    BY <1>11 DEF NextIn, OneTick
  <2>7. ~ Comes(n, plan, d) => d.launch_in \in {feed.launch_in, feed.launch_in - 1}
    BY <1>5, <1>7 DEF Waits, Counts
  <2>8. ASSUME gone # {} PROVE rest = {} /\ last <= NextIn'
    <3>1. CASE torn # {}
      <4>1. feed.active # {} /\ feed.launch_in >= 4
        BY <1>17, <2>1, <3>1
      <4>2. ~ Comes(n, plan, d)
        BY <1>3, <1>5, <4>1 DEF Comes
      <4>3. d.active = {}
        BY <1>17, <2>3, <3>1, <4>2
      <4> QED
        BY <1>3, <1>20, <1>25, <2>5, <2>6, <2>7, <3>1, <4>1, <4>2, <4>3
    <3>2. CASE torn = {}
      <4>1. PICK e \in d.active : e \in over
        BY <1>20, <1>24, <2>8, <3>2
      <4>2. rest = {}
        BY <1>20, <1>35, <4>1
      <4>3. d.launch_in >= 4
        BY <2>4, <4>1
      <4> QED
        BY <1>25, <2>5, <2>6, <3>2, <4>2, <4>3
    <3> QED
      BY <3>1, <3>2
  <2>9. ASSUME gone = {}
        PROVE  /\ \A e \in rest : e.first \in Int /\ Clear(e.first - 4 * OneTick)
               /\ rest = {} => feed.active = {} /\ NextIn <= NextIn'
    <3>1. torn = {} /\ over = {} /\ rest = d.active /\ n.active = feed.active
      BY <1>16, <1>20, <1>24, <2>9
    <3>2. ASSUME NEW e \in rest, Was(e) PROVE e.first \in Int /\ Clear(e.first - 4 * OneTick)
      <4>1. PICK f \in feed.active : e.first = f.first
        BY <1>15, <1>27, <3>2
      <4>2. Clear(f.first - 4 * OneTick) /\ f.first \in Int
        BY <1>2, <1>3 DEF TruthInv, GapsKept, EntryType
      <4> QED
        BY <4>1, <4>2
    <3>3. ASSUME NEW e \in rest, New(e) PROVE e.first \in Int /\ Clear(e.first - 4 * OneTick)
      <4>1. feed.active = {} /\ feed.launch_in <= 1
        BY <1>5, <2>2, <3>1, <3>3 DEF Comes
      <4>2. Clear(NextIn) /\ NextIn \in Int
        BY <1>2, <1>3, <4>1 DEF TruthInv, GapsKept, NextIn, OneTick
      <4>3. PICK b \in Int : b = n.ts - 4 * OneTick
        BY <2>5 DEF OneTick
      <4>4. NextIn <= b
        BY <1>3, <2>5, <2>6, <4>1, <4>3 DEF OneTick
      <4>5. Clear(b)
        BY <4>2, <4>3, <4>4, ClearLater
      <4>6. e.first = n.ts
        BY <3>3
      <4> QED
        BY <2>5, <4>3, <4>5, <4>6
    <3>4. ASSUME rest = {} PROVE feed.active = {} /\ NextIn <= NextIn'
      <4>1. feed.active = {}
        BY <1>13, <3>1, <3>4
      <4>2. ~ Comes(n, plan, d)
        BY <1>29, <3>4
      <4> QED
        BY <1>3, <2>5, <2>6, <2>7, <4>1, <4>2
    <3> QED
      BY <1>27, <3>2, <3>3, <3>4
  <2> QED
    BY <2>4, <2>8, <2>9, <1>20
<1> QED
  BY <1>2, <1>32, <1>33, <1>36, <1>37, StepsKeep

-----------------------------------------------------------------------------
LEMMA StepTruthInv == TruthInv /\ [TruthNext]_truthVars => TruthInv'
<1> SUFFICES ASSUME TruthInv, [TruthNext]_truthVars PROVE TruthInv'
  OBVIOUS
<1>1. CASE InjectFrame(0, FALSE)
  BY <1>1, InjectKeeps
<1>2. CASE \E late \in {1, 5} : \E reconnected \in BOOLEAN : InjectFrame(late, reconnected)
  <2>1. PICK late \in Nat, reconnected \in BOOLEAN : InjectFrame(late, reconnected)
    BY <1>2
  <2> QED
    BY <2>1, InjectKeeps
<1>3. CASE SyntheticFrame
  BY <1>3, SyntheticKeeps
<1>4. CASE StopFeed
  BY <1>4, EndsEarlyKeeps DEF StopFeed
<1>5. CASE FeedFails
  BY <1>5, EndsEarlyKeeps DEF FeedFails
<1>6. CASE SegmentEnds
  BY <1>6, SegmentEndsKeeps
<1>7. CASE UNCHANGED truthVars
  BY <1>7 DEF truthVars, TruthInv, TruthTyped, FeedFits, PassesFit, RecordsFit, AllHeard, OwnMisses,
              GapsKept, SoakFits, Clear, Decodes, Misses, Events, Vouches
<1> QED
  BY <1>1, <1>2, <1>3, <1>4, <1>5, <1>6, <1>7 DEF TruthNext

(* Each drawn pass that is over has one record, what was read or flagged   *)
(* is never reported lost, and with one pass at a time what was lost       *)
(* always is: for any plans, jitter, number of passes and collector.       *)
THEOREM TruthIsReconciled == TruthSpec => []TruthReconciles
  BY InitTruthInv, StepTruthInv, InvReconciles, PTL DEF TruthSpec
=============================================================================
