----------------------------- MODULE SegmentLedger -----------------------------
(***************************************************************************)
(* What the pipeline promises about motion segments, and nothing about how *)
(* it keeps the promise: every segment that opens is carried through to    *)
(* exactly one outcome, read or missed; an outcome, once given, is never   *)
(* revised; a missed segment may first wait for its post-roll; and when    *)
(* the stream is done no segment is without an outcome.                    *)
(***************************************************************************)
EXTENDS Naturals

VARIABLES
  ledger,      \* segment id -> its status; ids are allotted 1, 2, 3, ...
  done         \* the stream has ended and been accounted for

Outcomes == {"read", "missed"}

(* The statuses a segment in status s may have one step later.             *)
Successors(s) ==
  CASE s = "open"    -> {"open", "waiting"} \cup Outcomes
    [] s = "waiting" -> {"waiting", "missed"}
    [] OTHER         -> {s}

Init == ledger = [ id \in {} |-> "open" ] /\ done = FALSE

Advance ==
  /\ DOMAIN ledger \subseteq DOMAIN ledger'
  /\ \A id \in DOMAIN ledger : ledger'[id] \in Successors(ledger[id])
  /\ \A id \in DOMAIN ledger' \ DOMAIN ledger : ledger'[id] = "open"

(* One frame of a running stream.                                          *)
Frame == ~ done /\ Advance /\ UNCHANGED done

(* The end of the stream settles every segment and opens none.             *)
Finish ==
  /\ ~ done /\ done'
  /\ Advance
  /\ DOMAIN ledger' = DOMAIN ledger
  /\ \A id \in DOMAIN ledger : ledger'[id] \in Outcomes

Spec == Init /\ [][Frame \/ Finish]_<<ledger, done>>
=============================================================================
