------------------------------ MODULE Evidence ------------------------------
(***************************************************************************)
(* EvidenceWriter: the bursts of misses on disk, and the prune behind      *)
(* every write that keeps the tree under its caps.  The recordings of      *)
(* SegmentRecorder use a writer of their own on a root of their own.       *)
(*                                                                         *)
(* Abstraction.  A file is its name (a frame index, or 0 for meta.json)    *)
(* and the number of the write it is of; frames have size one, meta.json   *)
(* none, and a torn file is no file.  The disk fails any probe, mkdir or   *)
(* write it likes.  A directory with an open file cannot be deleted whole  *)
(* (stuck); somebody else may delete or release one at any time.  One      *)
(* write_burst is one step: every failure in it is an outcome of it.       *)
(***************************************************************************)
EXTENDS Integers, FiniteSets

CONSTANTS
  Candidates,    \* candidate ids; a restart of the process reuses them
  FrameSets,     \* the frame indices a burst may have after the stride
  SizeCap,       \* max_total_mb, in frames
  MaxAge,        \* max_age_days, in steps of the clock
  MaxWrites      \* bound: bursts written, hence the clock

Meta == 0        \* the name of meta.json among the files of a burst

ASSUME EvidenceAssumption ==
  /\ SizeCap \in Nat /\ MaxAge \in Nat /\ MaxWrites \in Nat
  /\ \A frames \in FrameSets : frames \subseteq Nat \ {Meta} /\ IsFiniteSet(frames)

VARIABLES
  bursts,      \* the candidate directories on disk
  ref,         \* the EvidenceRef the last write_burst returned
  now          \* the wall clock: a step for each write

evidenceVars == <<bursts, ref, now>>

(* Two fields are history: which write it was, and whether the search for  *)
(* a free directory had failed.                                            *)
NoRef(failed) ==
  [ of |-> 0, dir |-> <<>>, count |-> 0, failed |-> failed, blind |-> FALSE ]

EvidenceInit == bursts = {} /\ ref = NoRef(FALSE) /\ now = 0

-----------------------------------------------------------------------------
Name(b) == <<b.id, b.suffix>>

Exists(id, r) == \E b \in bursts : Name(b) = <<id, r>>

(* Mutant: a burst goes where its id says.                                 *)
Target_Plain(id, probed) == {0}

(* The first of id, id-r1, id-r2, .. that is not there yet; or, when a     *)
(* probe fails, the one it was about, there or not.                        *)
Target(id, probed) ==
  { r \in 0 .. MaxWrites : /\ \A q \in 0 .. (r - 1) : Exists(id, q)
                           /\ probed => ~ Exists(id, r) }

(* The frames on disk, of one size each.                                   *)
FramesOf(bs) == UNION { {b} \X { f \in b.files : f[1] # Meta } : b \in bs }
SizeOf(bs)   == Cardinality(FramesOf(bs))

Latest(bs, b) == b \in bs /\ \A c \in bs : c.mtime <= b.mtime

(* The directories the size cap tries to remove: oldest first, in any      *)
(* order among equals, passing over the kept one, which counts all the     *)
(* same, and no longer than the rest exceeds the cap.                      *)
TriedForSize(young, keep, tried) ==
  /\ tried \subseteq young \ {keep}
  /\ \A b \in tried, c \in young \ (tried \cup {keep}) : b.mtime <= c.mtime
  /\ SizeOf(young \ tried) <= SizeCap \/ tried = young \ {keep}
  /\ tried # {} => \E last \in tried : Latest(tried, last)
                                     /\ SizeOf((young \ tried) \cup {last}) > SizeCap

(* What rmtree leaves of a stuck directory: all but what it could delete.  *)
Reduced(b, gone) ==
  [ b EXCEPT !.files = { f \in @ : <<b, f>> \notin gone },
             !.mtime = IF \E f \in b.files : <<b, f>> \in gone THEN now ELSE @ ]

(* prune(keep): the age cap, then the size cap over the survivors.         *)
Prune(bs, keep) ==
  LET old   == { b \in bs : b # keep /\ now - b.mtime > MaxAge }
      young == bs \ old
  IN  \E tried \in SUBSET young :
        LET stuck == { b \in old \cup tried : b.stuck }
        IN  /\ TriedForSize(young, keep, tried)
            /\ \E gone \in SUBSET UNION { {b} \X b.files : b \in stuck } :
                 bursts' = (young \ tried) \cup { Reduced(b, gone) : b \in stuck }

(* write_burst: the probe may fail, mkdir may, any frame may and so may    *)
(* meta.json; but for the probe, each leaves its trace in the ref.         *)
MkdirFails == ref' = NoRef(TRUE) /\ UNCHANGED bursts

(* What was in the directory: mkdir accepts one that exists.               *)
WasThere(id, r) == { b \in bursts : Name(b) = <<id, r>> }

(* Files of the same name are overwritten, or lost in the attempt.         *)
Filled(id, r, tried, written, survive, mtime) ==
  [ id |-> id, suffix |-> r, mtime |-> mtime,
    stuck |-> \E b \in WasThere(id, r) : b.stuck,
    files |-> (written \X {now + 1})
                \cup { f \in UNION { b.files : b \in WasThere(id, r) } :
                         f[1] \notin tried \/ (f[1] \notin written /\ f \in survive) } ]

Burst(id, probed, r, frames, written) ==
  \E survive \in SUBSET UNION { b.files : b \in WasThere(id, r) },
     mtime \in {now} \cup { b.mtime : b \in WasThere(id, r) } :
    LET target == Filled(id, r, frames \cup {Meta}, written, survive, mtime)
    IN  /\ Prune((bursts \ WasThere(id, r)) \cup {target}, target)
        /\ ref' = [ of |-> now + 1, dir |-> <<id, r>>,
                    count |-> Cardinality(written \ {Meta}),
                    failed |-> written # frames \cup {Meta}, blind |-> ~ probed ]

WriteBurst ==
  /\ now < MaxWrites
  /\ \/ MkdirFails
     \/ \E id \in Candidates, probed \in BOOLEAN, frames \in FrameSets :
          \E r \in Target(id, probed), written \in SUBSET (frames \cup {Meta}) :
            Burst(id, probed, r, frames, written)
  /\ now' = now + 1

-----------------------------------------------------------------------------
(* Around the writer: a cleanup from outside, a file opened or closed.     *)
CleanedUp ==
  /\ \E b \in bursts : bursts' = bursts \ {b}
  /\ UNCHANGED <<ref, now>>

FileOpened ==
  /\ \E b \in bursts : bursts' = (bursts \ {b}) \cup {[b EXCEPT !.stuck = ~ @]}
  /\ UNCHANGED <<ref, now>>

EvidenceNext == WriteBurst \/ CleanedUp \/ FileOpened

-----------------------------------------------------------------------------
(* write_burst and prune together.  The directory a miss event points to   *)
(* holds, once the write returns, every frame it reports and, unless the   *)
(* ref is flagged, its meta.json.  Unless the search for a free directory  *)
(* failed it holds nothing else and was not there before, so a restart     *)
(* that reuses an id overwrites nothing.  Any other directory is as it     *)
(* was, unless it is too old or it and the newer ones leave no room: then  *)
(* it is gone, or, with a file open, keeps some of what it had.  And one   *)
(* that could have been deleted stays only when the caps allow it.         *)
BurstsAreKept ==
  [][ now' # now /\ ref'.of # 0 =>
        LET others == { b \in bursts : Name(b) # ref'.dir }
            fresh  == { b \in others : now - b.mtime <= MaxAge }
            kept   == others \cap bursts'
        IN  \E own \in bursts' :
              /\ Name(own) = ref'.dir
              /\ Cardinality({ f \in own.files : f[1] # Meta /\ f[2] = ref'.of }) = ref'.count
              /\ ~ ref'.failed => <<Meta, ref'.of>> \in own.files
              /\ ~ ref'.blind => others = bursts /\ \A f \in own.files : f[2] = ref'.of
              /\ \A d \in bursts' \ {own} : \E b \in others :
                   Name(d) = Name(b) /\ d.files \subseteq b.files /\ (b.stuck \/ d = b)
              /\ \A b \in others \ kept :
                   \/ b \notin fresh
                   \/ SizeOf({ c \in fresh : c.mtime >= b.mtime } \cup {own}) > SizeCap
              /\ \A b \in kept : ~ b.stuck =>
                   /\ b \in fresh
                   /\ SizeOf({ c \in kept : c.mtime > b.mtime } \cup {b, own}) <= SizeCap
    ]_evidenceVars
=============================================================================
