------------------------------ MODULE MotionGate ------------------------------
(***************************************************************************)
(* The single-object motion gate: per frame it debounces "something moved" *)
(* into motion segments.  A segment opens after OpenFrames consecutive     *)
(* moving frames, backdated to the first of them, and closes after         *)
(* QuietFrames consecutive still frames, at the last moving frame.         *)
(*                                                                         *)
(* The gate is an object called by one thread, so its state is a record    *)
(* and each method is an operator from the record to the new record; the   *)
(* modules that own a gate apply them inside their own actions.            *)
(*                                                                         *)
(* Abstraction.  A frame is its timestamp and whether its thresholded      *)
(* motion mask covers min_area_frac; masks, ROIs and the downscale are     *)
(* left out.  Debounce given in seconds is converted to the two frame      *)
(* counts once, in the constructor, so only the counts appear here.        *)
(***************************************************************************)
EXTENDS Integers

CONSTANTS
  OpenFrames,   \* motion.open_frames, or the converted motion.open_s
  QuietFrames   \* motion.quiet_frames, or the converted motion.quiet_s

ASSUME GateAssumption ==
  /\ OpenFrames \in Nat \ {0}
  /\ QuietFrames \in Nat \ {0}

NoSegment == 0                     \* _open_id is None; real ids count from 1

(***************************************************************************)
(* primed is false while the motion model has no reference image: the next *)
(* frame only primes it and has no mask, so it can never be active.        *)
(***************************************************************************)
NewGate ==
  [ primed       |-> FALSE,
    segmentCount |-> 0,
    activeStreak |-> 0,
    quietStreak  |-> 0,
    openId       |-> NoSegment,
    backdate     |-> 0,
    lastActive   |-> 0 ]

GateType ==
  [ primed : BOOLEAN, segmentCount : Nat, activeStreak : Nat,
    quietStreak : Nat, openId : Nat, backdate : Nat, lastActive : Nat ]

IsOpen(g) == g.openId # NoSegment

(* _mask returns None on the first frame after a (re)start.                *)
IsActive(g, moving) == g.primed /\ moving

OnActive(g, ts) ==
  LET streak == g.activeStreak + 1
      opens  == ~ IsOpen(g) /\ streak >= OpenFrames
  IN  [ g EXCEPT !.activeStreak = streak,
                 !.quietStreak  = 0,
                 !.backdate     = IF streak = 1 THEN ts ELSE @,
                 !.lastActive   = ts,
                 !.segmentCount = IF opens THEN @ + 1 ELSE @,
                 !.openId       = IF opens THEN g.segmentCount + 1 ELSE @ ]

CloseSegment(g) ==
  [ g EXCEPT !.openId = NoSegment, !.quietStreak = 0, !.activeStreak = 0 ]

(* Mutant: one still frame too many before the close.                      *)
OnQuiet_Late(g) ==
  LET quieter == [ g EXCEPT !.activeStreak = 0, !.quietStreak = @ + 1 ]
  IN  IF ~ IsOpen(g) THEN [ g EXCEPT !.activeStreak = 0 ]
      ELSE IF quieter.quietStreak > QuietFrames THEN CloseSegment(quieter)
      ELSE quieter

OnQuiet(g) ==
  LET quieter == [ g EXCEPT !.activeStreak = 0, !.quietStreak = @ + 1 ]
  IN  IF ~ IsOpen(g) THEN [ g EXCEPT !.activeStreak = 0 ]
      ELSE IF quieter.quietStreak >= QuietFrames THEN CloseSegment(quieter)
      ELSE quieter

(* update(frame): at most one segment event, read off the two gates.       *)
Update(g, ts, moving) ==
  [ (IF IsActive(g, moving) THEN OnActive(g, ts) ELSE OnQuiet(g))
      EXCEPT !.primed = TRUE ]

Opens(g, h)  == ~ IsOpen(g) /\ IsOpen(h)     \* OPEN(h.openId) at h.backdate
Closes(g, h) == IsOpen(g) /\ ~ IsOpen(h)     \* CLOSE(g.openId) at h.lastActive

(* flush(): close whatever is open, at the last active frame.              *)
Flush(g) == IF IsOpen(g) THEN CloseSegment(g) ELSE g

(* break_segment(): a source discontinuity is a hard segment boundary, and *)
(* the motion model warms up again.                                        *)
BreakSegment(g) ==
  [ Flush(g) EXCEPT !.activeStreak = 0, !.quietStreak = 0,
                    !.backdate = 0, !.lastActive = 0, !.primed = FALSE ]
=============================================================================
