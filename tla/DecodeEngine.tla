---------------------------- MODULE DecodeEngine ----------------------------
(***************************************************************************)
(* DecodeEngine.decode_frame: the cascade of decoders one frame goes       *)
(* through, under a soft time budget, with the decode context of a pass    *)
(* carried from frame to frame.                                            *)
(*                                                                         *)
(* Abstraction.  A decoder answers nothing, only payloads the shape gate   *)
(* rejects, at least one it accepts, or raises.  Time is the ticks left of *)
(* the budget: any call may take any number of them, more than are left    *)
(* too, since a C call cannot be cancelled.  The variant tasks run on an   *)
(* executor, each asking its own decoders one after the other, and finish  *)
(* in any order or not in time.                                            *)
(***************************************************************************)
EXTENDS Integers, Sequences, FiniteSets

CONSTANTS
  Budget,           \* frame_budget_ms, in ticks
  FallbackAfter,    \* fallback_after_frames
  DmStride,         \* _CONFIRMED_DM_STRIDE
  Variants,         \* the names of preprocess.VARIANTS
  MaxAttempts       \* bound: frames decoded for one pass

ASSUME DecodeAssumption ==
  /\ Budget \in Nat \ {0} /\ FallbackAfter \in Nat
  /\ DmStride \in Nat \ {0} /\ MaxAttempts \in Nat
  /\ "crop" \notin Variants    \* the picture the inline decoders are shown

VARIABLES
  ctx,         \* PassDecodeContext of the pass
  priority,    \* the decoders of the inline cascade, in order
  cascade,     \* the frame being decoded
  dm_gap       \* unread frames of the confirmed pass in a row without a probe

decodeVars == <<ctx, priority, cascade, dm_gap>>

Answers == {"nothing", "rejected", "accepted", "raises"}

(* One zxing call reads every symbology; the legacy engine has one decoder *)
(* for each, in the configured order.                                      *)
Priorities == { <<"zxing">>, <<"qr", "dm">>, <<"dm", "qr">> }

(* What a frame's cascade keeps: the inline decoders still to ask, what    *)
(* each variant task still has to ask (nothing once it is over), and, as   *)
(* history, who was shown which picture and whose hits were all rejected.  *)
NoTask == [ v \in Variants |-> <<>> ]

Idle == [ pc |-> "idle", left |-> 0, todo |-> <<>>, pending |-> NoTask,
          asked |-> {}, rejected |-> {}, starved |-> FALSE, result |-> "none" ]

DecodeInit ==
  /\ priority \in Priorities
  /\ ctx = [ confirmed |-> FALSE, frames_attempted |-> 0, fallback_runs |-> 0 ]
  /\ cascade = Idle
  /\ dm_gap = 0

-----------------------------------------------------------------------------
(* The tracker may have confirmed the pass since the last frame.           *)
DecodeBegins ==
  /\ cascade.pc = "idle" /\ ctx.frames_attempted < MaxAttempts
  /\ cascade' = [ Idle EXCEPT !.pc = "inline", !.left = Budget, !.todo = priority ]
  /\ \E confirmed \in {ctx.confirmed, TRUE} : ctx' = [ ctx EXCEPT !.confirmed = confirmed ]
  /\ UNCHANGED <<priority, dm_gap>>

(* The finally of decode_frame: the attempt counts whatever happened.      *)
Ends(c, result) ==
  /\ cascade' = [ c EXCEPT !.pc = "done", !.result = result, !.pending = NoTask ]
  /\ ctx' = [ ctx EXCEPT !.frames_attempted = @ + 1 ]
  /\ dm_gap' = IF ctx.confirmed /\ result = "nothing" /\ ~ c.starved
                      /\ <<"crop", "dm">> \notin c.asked
                 THEN dm_gap + 1 ELSE 0

Goes(c) == cascade' = c /\ UNCHANGED <<ctx, dm_gap>>

(* Mutant: hits end the cascade, even when the gate rejected every one.    *)
Answered_AnyHit(c, answer) ==
  CASE answer = "raises"                 -> Ends(c, "raised")
    [] answer \in {"accepted", "rejected"} -> Ends(c, answer)
    [] OTHER                             -> Goes(c)

(* Hits stop the cascade only when the gate accepted one of them.          *)
Answered(c, answer) ==
  CASE answer = "raises"   -> Ends(c, "raised")
    [] answer = "accepted" -> Ends(c, "accepted")
    [] OTHER               -> Goes(c)

(* A confirmed pass probes Data Matrix on every DmStride-th frame only.    *)
Strides(who) == who = "dm" /\ ctx.confirmed /\ ctx.frames_attempted % DmStride # 0

InlineSkips ==
  /\ cascade.pc = "inline" /\ cascade.todo # <<>>
  /\ Strides(Head(cascade.todo))
  /\ Goes([ cascade EXCEPT !.todo = Tail(@) ])
  /\ UNCHANGED priority

(* No time for a Data Matrix probe: the cascade stops asking.              *)
InlineBreaks ==
  /\ cascade.pc = "inline" /\ cascade.todo # <<>>
  /\ Head(cascade.todo) = "dm" /\ ~ Strides("dm") /\ cascade.left <= 0
  /\ Goes([ cascade EXCEPT !.todo = <<>>, !.starved = TRUE ])
  /\ UNCHANGED priority

InlineAsks ==
  /\ cascade.pc = "inline" /\ cascade.todo # <<>>
  /\ LET who == Head(cascade.todo)
     IN  /\ ~ Strides(who)
         /\ who = "dm" => cascade.left > 0
         /\ \E answer \in Answers, ticks \in 0 .. (Budget + 1) :
              Answered([ cascade EXCEPT !.todo = Tail(@), !.left = @ - ticks,
                                        !.asked = @ \cup {<<"crop", who>>} ], answer)
  /\ UNCHANGED priority

(* Step 3 is for a stubborn pass that is not confirmed, while time is left *)
NoFallback ==
  /\ cascade.pc = "inline" /\ cascade.todo = <<>>
  /\ \/ ctx.confirmed
     \/ ctx.frames_attempted < FallbackAfter
     \/ cascade.left <= 0
  /\ Ends([ cascade EXCEPT !.starved = @ \/ cascade.left <= 0 ], "nothing")
  /\ UNCHANGED priority

FansOut ==
  /\ cascade.pc = "inline" /\ cascade.todo = <<>>
  /\ ~ ctx.confirmed /\ ctx.frames_attempted >= FallbackAfter /\ cascade.left > 0
  /\ ctx' = [ ctx EXCEPT !.fallback_runs = @ + 1 ]
  /\ cascade' = [ cascade EXCEPT !.pc = "fan",
                                !.pending = [ v \in Variants |-> priority ] ]
  /\ UNCHANGED <<priority, dm_gap>>

(* _variant_task returns at the first decoder with raw hits, before the    *)
(* gate of decode_frame has seen them: a task whose hits are all rejected  *)
(* is over, and the decoders behind are never shown this variant.          *)
VariantAsks ==
  /\ cascade.pc = "fan"
  /\ \E v \in Variants, answer \in Answers, ticks \in 0 .. 1 :
       LET task == cascade.pending[v]
           pair == <<v, Head(task)>>
           left == IF answer = "nothing" THEN Tail(task) ELSE <<>>
       IN  /\ task # <<>>
           /\ Answered([ cascade EXCEPT !.pending[v] = left, !.left = @ - ticks,
                           !.asked = @ \cup {pair},
                           !.rejected = @ \cup (IF answer = "rejected" THEN {pair} ELSE {}) ],
                       answer)
  /\ UNCHANGED priority

(* Every task is over, or the budget is: what still runs is cancelled or   *)
(* abandoned.                                                              *)
FanEnds ==
  /\ cascade.pc = "fan"
  /\ \/ cascade.pending = NoTask /\ Ends(cascade, "nothing")
     \/ cascade.pending # NoTask /\ Ends([ cascade EXCEPT !.left = 0, !.starved = TRUE ], "nothing")
  /\ UNCHANGED priority

FrameDone ==
  /\ cascade.pc = "done"
  /\ cascade' = Idle
  /\ UNCHANGED <<ctx, priority, dm_gap>>

DecodeNext ==
  \/ DecodeBegins \/ InlineSkips \/ InlineBreaks \/ InlineAsks
  \/ NoFallback \/ FansOut \/ VariantAsks \/ FanEnds \/ FrameDone

-----------------------------------------------------------------------------
(* A rejected phantom stands before this decoder in this variant's task.   *)
Shadowed(v, who) ==
  \E i, j \in DOMAIN priority :
    i < j /\ priority[j] = who /\ <<v, priority[i]>> \in cascade.rejected

Owed ==
  LET attempt  == ctx.frames_attempted - 1      \* before this frame counted
      probed   == ~ ctx.confirmed \/ attempt % DmStride = 0
      decoders == { priority[i] : i \in DOMAIN priority }
      inline   == decoders \ (IF probed THEN {} ELSE {"dm"})
      fallback == IF ~ ctx.confirmed /\ attempt >= FallbackAfter THEN Variants ELSE {}
  IN  ({"crop"} \X inline)
        \cup { pair \in fallback \X decoders : ~ Shadowed(pair[1], pair[2]) }

(* decode_frame and its comments on the gate: a frame reported unreadable  *)
(* while the budget lasted was shown to every decoder it is owed.  Hits    *)
(* the gate rejects hide neither another inline decoder nor any variant;   *)
(* all they can hide is what stands behind them in the task of their own   *)
(* variant, which the legacy _variant_task leaves at its first raw hits.   *)
(* And of DmStride such frames of a confirmed pass in a row at least one   *)
(* went through a Data Matrix probe.                                       *)
NoDecoderIsHidden ==
  cascade.pc = "done" =>
    /\ cascade.result \in {"nothing", "rejected"} /\ ~ cascade.starved =>
         Owed \subseteq cascade.asked
    /\ "dm" \in { priority[i] : i \in DOMAIN priority } => dm_gap < DmStride
=============================================================================
