----------------------------- MODULE WatchdogProofs -----------------------------
(***************************************************************************)
(* Theorems about the watchdog source, for any handoff size, any limits    *)
(* and any number of connections: an outage is bounded, no zombie tears a  *)
(* connection down, and exactly the first frame of a connection is marked. *)
(***************************************************************************)
EXTENDS Watchdog, SequenceTheorems, TLAPS

-----------------------------------------------------------------------------
(* The invariant.                                                          *)

Messages == [ kind : {"frame", "end", "error", "stop"}, gen : Gens, conn : Conns \cup {NoCap} ]

InHandoff == { handoff[i] : i \in DOMAIN handoff }

(* A connection is opened before its generation begins.                    *)
ConnectionsCounted ==
  /\ gen + 1 <= conns
  /\ consumer \in {"set up", "opened"} => gen + 2 <= conns
  /\ consumer \in {"set up", "opened", "spawn"} =>
       cap \in {NoCap, conns} /\ yielded.conn < conns
  /\ yielded.conn <= conns /\ cap <= conns
  /\ \A g \in Gens : reader[g].cap <= conns

(* The readers of generations to come do not exist.                        *)
Unborn ==
  \A g \in Gens : g > gen \/ (g = gen /\ consumer = "spawn")
                    => reader[g] = [ at |-> "none", cap |-> NoCap ]

(* A reader that reads has a capture; only the current one may still have  *)
(* to bind its own, and the consumer waits for it before it reconnects.    *)
Bound ==
  /\ \A g \in Gens : reader[g].at \in {"read", "frame", "put"} => reader[g].cap # NoCap
  /\ \A g \in Gens : reader[g].at = "start" =>
       /\ g = gen /\ gen \in current /\ reader[g].cap = NoCap
       /\ consumer \in {"top", "get", "yielded", "recover", "reap", "ended"}

(* What a message says of its reader, whichever generation that is of.     *)
MessagesTrue ==
  \A m \in InHandoff :
    /\ m.kind = "frame" => m.conn = reader[m.gen].cap /\ m.conn # NoCap
    /\ m.kind \in {"end", "error"} => reader[m.gen].at = "gone"
    /\ m.kind = "stop" => stop

(* The mark is pending as long as no frame of the connection was yielded.  *)
First(conn) == IF pending THEN yielded.conn < conn ELSE yielded.conn = conn

MarkPending ==
  /\ reader[gen].cap # NoCap => First(reader[gen].cap)
  /\ reader[gen].at = "start" /\ cap # NoCap => First(cap)

(* The outage clock is ahead of the attempts.                              *)
OutageRuns ==
  /\ outage = NoOutage =>
       tries = 0 /\ consumer \in {"top", "get", "yielded", "recover", "ended"}
  /\ outage # NoOutage => tries <= outage
  /\ consumer = "slept" => tries + 1 <= outage
  /\ tries <= MaxOutage

(* While the consumer goes on, its limits are not reached.                 *)
WithinLimits ==
  /\ outage > MaxOutage =>
       consumer \in {"recover", "reap", "retry", "slept", "escalated", "ended"}
         \/ (stop /\ consumer = "top")
  /\ zombies > MaxZombies => consumer = "escalated"

ClosersStop == \A c \in Closers : closer[c] # "idle" => stop

IInv ==
  /\ TypeOK /\ ConnectionsCounted /\ Unborn /\ Bound /\ MessagesTrue /\ MarkPending
  /\ OutageRuns /\ WithinLimits /\ ClosersStop

-----------------------------------------------------------------------------
(* The handoff queue.                                                      *)

LEMMA HandoffTyped ==
  ASSUME TypeOK
  PROVE  /\ handoff \in Seq(Messages) /\ Len(handoff) \in Nat /\ Len(handoff) <= HandoffSize
         /\ InHandoff \subseteq Messages
<1>1. handoff \in Seq(Messages) /\ Len(handoff) <= HandoffSize
  BY DEF TypeOK, Messages
<1>2. DOMAIN handoff = 1 .. Len(handoff) /\ \A i \in 1 .. Len(handoff) : handoff[i] \in Messages
  BY <1>1
<1> QED
  BY <1>1, <1>2 DEF InHandoff

LEMMA HandoffGrows ==
  ASSUME TypeOK, NEW m \in Messages, Len(handoff) < HandoffSize, handoff' = Append(handoff, m)
  PROVE  /\ handoff' \in Seq(Messages) /\ Len(handoff') <= HandoffSize
         /\ InHandoff' = InHandoff \cup {m}
<1>1. handoff \in Seq(Messages) /\ Len(handoff) \in Nat
  BY HandoffTyped
<1>2. PICK n \in Nat : n = Len(handoff)
  BY <1>1
<1>3. /\ handoff' \in Seq(Messages) /\ Len(handoff') = n + 1
      /\ \A i \in 1 .. n : handoff'[i] = handoff[i]
      /\ handoff'[n + 1] = m
  BY <1>1, <1>2
<1>4. DOMAIN handoff = 1 .. n /\ DOMAIN handoff' = 1 .. (n + 1)
  BY <1>1, <1>2, <1>3
<1>5. 1 .. (n + 1) = (1 .. n) \cup {n + 1}
  OBVIOUS
<1>6. InHandoff' = { handoff'[i] : i \in 1 .. (n + 1) }
  BY <1>4 DEF InHandoff
<1>7. InHandoff = { handoff[i] : i \in 1 .. n }
  BY <1>4 DEF InHandoff
<1>8. InHandoff' = InHandoff \cup {m}
  BY <1>3, <1>5, <1>6, <1>7
<1>9. n + 1 <= HandoffSize
  BY <1>2, WatchdogAssumption
<1> QED
  BY <1>3, <1>8, <1>9

LEMMA HandoffShrinks ==
  ASSUME TypeOK, handoff # <<>>, handoff' = Tail(handoff)
  PROVE  /\ handoff' \in Seq(Messages) /\ Len(handoff') <= HandoffSize
         /\ InHandoff' \subseteq InHandoff
         /\ Head(handoff) \in InHandoff
<1>1. handoff \in Seq(Messages) /\ Len(handoff) \in Nat /\ Len(handoff) <= HandoffSize
  BY HandoffTyped
<1>2. PICK n \in Nat : n = Len(handoff) /\ n <= HandoffSize
  BY <1>1
<1>3. n > 0 /\ DOMAIN handoff = 1 .. n
  BY <1>1, <1>2
<1>4. /\ handoff' \in Seq(Messages) /\ Len(handoff') = n - 1
      /\ \A i \in 1 .. (n - 1) : handoff'[i] = handoff[i + 1]
      /\ Head(handoff) = handoff[1]
  BY <1>1, <1>2, <1>3
<1>5. DOMAIN handoff' = 1 .. (n - 1)
  BY <1>3, <1>4
<1>6. \A i \in 1 .. (n - 1) : i + 1 \in 1 .. n
  OBVIOUS
<1>7. InHandoff' \subseteq InHandoff
  BY <1>3, <1>4, <1>5, <1>6 DEF InHandoff
<1>8. Head(handoff) \in InHandoff
  BY <1>3, <1>4 DEF InHandoff
<1>9. n - 1 <= HandoffSize
  BY <1>2, WatchdogAssumption
<1> QED
  BY <1>4, <1>7, <1>8, <1>9

LEMMA HandoffEmpties ==
  ASSUME handoff' = <<>>
  PROVE  handoff' \in Seq(Messages) /\ Len(handoff') <= HandoffSize /\ InHandoff' = {}
BY WatchdogAssumption DEF InHandoff

-----------------------------------------------------------------------------
LEMMA InitIInv == Init => IInv
<1> SUFFICES ASSUME Init PROVE IInv
  OBVIOUS
<1> USE WatchdogAssumption
<1>1. 1 \in Conns /\ 0 \in Gens /\ NoCap = 0
  BY DEF Conns, Gens, NoCap
<1>2. /\ cap = 1 /\ closed = FALSE /\ conns = 1 /\ gen = 0 /\ current = {0}
      /\ \A g \in Gens : reader[g] = [ at |-> IF g = 0 THEN "start" ELSE "none", cap |-> NoCap ]
      /\ handoff = <<>> /\ consumer = "top" /\ pending = FALSE
      /\ zombies = 0 /\ outage = NoOutage /\ tries = 0 /\ stop = FALSE
      /\ \A c \in Closers : closer[c] = "idle"
      /\ yielded = [ conn |-> 1, mark |-> FALSE ]
  BY DEF Init
<1>3. TypeOK
  <2>1. reader \in [ Gens -> [ at : {"none", "start", "read", "frame", "put", "end", "error", "gone"},
                               cap : Conns \cup {NoCap} ] ]
    BY DEF Init
  <2>2. closer \in [ Closers -> {"idle", "release", "drain", "wake", "done"} ]
    BY DEF Init
  <2>3. handoff \in Seq([ kind : {"frame", "end", "error", "stop"}, gen : Gens,
                          conn : Conns \cup {NoCap} ]) /\ Len(handoff) <= HandoffSize
    BY <1>2
  <2>4. yielded \in [ conn : Conns, mark : BOOLEAN ]
    BY <1>1, <1>2
  <2>5. zombies \in 0 .. MaxZombies + 1 /\ outage \in NoOutage .. MaxOutage + 1 /\ tries \in Nat
    BY <1>2 DEF NoOutage
  <2> QED
    BY <1>1, <1>2, <2>1, <2>2, <2>3, <2>4, <2>5 DEF TypeOK
<1>4. InHandoff = {}
  BY <1>2 DEF InHandoff
<1>5. ConnectionsCounted /\ Unborn /\ Bound
  <2>1. ASSUME NEW g \in Gens
        PROVE  /\ reader[g].cap = 0 /\ reader[g].at \in {"start", "none"}
               /\ reader[g].at = "start" <=> g = 0
    <3>1. reader[g] = [ at |-> IF g = 0 THEN "start" ELSE "none", cap |-> NoCap ]
      BY <1>2
    <3>2. reader[g].at = (IF g = 0 THEN "start" ELSE "none") /\ reader[g].cap = NoCap
      BY <3>1
    <3> QED
      BY <1>1, <3>2
  <2>2. \A g \in Gens : g # 0 => reader[g] = [ at |-> "none", cap |-> NoCap ]
    BY <1>2
  <2>3. ConnectionsCounted
    BY <1>1, <1>2, <2>1 DEF ConnectionsCounted
  <2>4. Unborn
    BY <1>1, <1>2, <2>2 DEF Unborn
  <2>5. Bound
    BY <1>1, <1>2, <2>1 DEF Bound
  <2> QED
    BY <2>3, <2>4, <2>5
<1>6. MessagesTrue /\ MarkPending
  <2>1. reader[0] = [ at |-> "start", cap |-> NoCap ]
    BY <1>1, <1>2
  <2>2. MarkPending
    BY <1>2, <2>1 DEF MarkPending, First
  <2> QED
    BY <1>4, <2>2 DEF MessagesTrue
<1>7. OutageRuns /\ WithinLimits /\ ClosersStop
  BY <1>2 DEF OutageRuns, WithinLimits, ClosersStop, NoOutage
<1> QED
  BY <1>3, <1>5, <1>6, <1>7 DEF IInv

-----------------------------------------------------------------------------
(* The readers.                                                            *)

Places == {"none", "start", "read", "frame", "put", "end", "error", "gone"}

(* What a step of the reader of generation g may do: bind the capture that *)
(* is published, or go on; and leave a message that is true of it.         *)
ReaderEffect(g) ==
  /\ reader[g].at \notin {"none", "gone"}
  /\ reader' \in [ Gens -> [ at : Places, cap : Conns \cup {NoCap} ] ]
  /\ \A h \in Gens : h # g => reader'[h] = reader[h]
  /\ reader'[g].at \notin {"none", "start"}
  /\ reader'[g].cap = (IF reader[g].at = "start" THEN cap ELSE reader[g].cap)
  /\ reader'[g].at \in {"read", "frame", "put"} => reader'[g].cap # NoCap
  /\ handoff' \in Seq(Messages) /\ Len(handoff') <= HandoffSize
  /\ \A m \in InHandoff' :
       m \in InHandoff
         \/ /\ m.gen = g
            /\ \/ m.kind = "frame" /\ m.conn = reader'[g].cap /\ m.conn # NoCap
               \/ m.kind \in {"end", "error"} /\ reader'[g].at = "gone"

LEMMA ReaderMoves ==
  ASSUME TypeOK, NEW g \in Gens, NEW place \in Places, ReaderGoes(g, place)
  PROVE  /\ reader' \in [ Gens -> [ at : Places, cap : Conns \cup {NoCap} ] ]
         /\ \A h \in Gens : h # g => reader'[h] = reader[h]
         /\ reader'[g].at = place /\ reader'[g].cap = reader[g].cap
<1>1. reader \in [ Gens -> [ at : Places, cap : Conns \cup {NoCap} ] ]
  BY DEF TypeOK, Places
<1>2. reader' = [ reader EXCEPT ![g].at = place ]
  BY DEF ReaderGoes
<1> QED
  BY <1>1, <1>2

LEMMA ReaderStepEffect ==
  ASSUME TypeOK, Bound, NEW g \in Gens, ReaderStep(g) \/ ReadReturns(g)
  PROVE  ReaderEffect(g)
<1>1. reader[g] \in [ at : Places, cap : Conns \cup {NoCap} ] /\ cap \in Conns \cup {NoCap}
  BY DEF TypeOK, Places
<1>2. handoff \in Seq(Messages) /\ Len(handoff) <= HandoffSize
  BY HandoffTyped
<1>3. reader[g].at \in {"read", "frame", "put"} => reader[g].cap # NoCap
  BY DEF Bound
<1>4. CASE Bind(g)
  <2>1. /\ reader[g].at = "start" /\ UNCHANGED handoff
        /\ reader' = [ reader EXCEPT ![g] =
                         [ at |-> IF cap = NoCap THEN "error" ELSE "read", cap |-> cap ] ]
    BY <1>4 DEF Bind
  <2>2. reader' \in [ Gens -> [ at : Places, cap : Conns \cup {NoCap} ] ]
    BY <1>1, <2>1 DEF TypeOK, Places
  <2>3. reader'[g] = [ at |-> IF cap = NoCap THEN "error" ELSE "read", cap |-> cap ]
    BY <2>1 DEF TypeOK
  <2>4. \A h \in Gens : h # g => reader'[h] = reader[h]
    BY <2>1 DEF TypeOK
  <2>5. InHandoff' = InHandoff
    BY <2>1 DEF InHandoff
  <2> QED
    BY <1>2, <2>1, <2>2, <2>3, <2>4, <2>5 DEF ReaderEffect
<1>5. CASE ReadReturns(g)
  <2>1. PICK place \in {"end", "frame", "error"} : ReaderGoes(g, place)
    BY <1>5 DEF ReadReturns
  <2>2. reader[g].at = "read" /\ UNCHANGED handoff /\ InHandoff' = InHandoff
    BY <1>5 DEF ReadReturns, InHandoff
  <2>3. place \in Places
    BY DEF Places
  <2> QED
    BY <1>2, <1>3, <2>1, <2>2, <2>3, ReaderMoves DEF ReaderEffect
<1>6. CASE CheckFrame(g)
  <2>1. PICK place \in {"gone", "put"} : ReaderGoes(g, place)
    BY <1>6 DEF CheckFrame
  <2>2. reader[g].at = "frame" /\ UNCHANGED handoff /\ InHandoff' = InHandoff
    BY <1>6 DEF CheckFrame, InHandoff
  <2>3. place \in Places
    BY DEF Places
  <2> QED
    BY <1>2, <1>3, <2>1, <2>2, <2>3, ReaderMoves DEF ReaderEffect
<1>7. CASE PutFrame(g)
  <2> DEFINE m == Message("frame", g, reader[g].cap)
  <2>1. /\ reader[g].at = "put" /\ Len(handoff) < HandoffSize
        /\ handoff' = Append(handoff, m) /\ ReaderGoes(g, "read")
    BY <1>7 DEF PutFrame
  <2>2. m \in Messages /\ m.gen = g /\ m.kind = "frame" /\ m.conn = reader[g].cap
    BY <1>1 DEF Message, Messages
  <2> HIDE DEF m
  <2>3. "read" \in Places
    BY DEF Places
  <2>4. /\ handoff' \in Seq(Messages) /\ Len(handoff') <= HandoffSize
        /\ InHandoff' = InHandoff \cup {m}
    BY <2>1, <2>2, HandoffGrows
  <2> QED
    BY <1>3, <2>1, <2>2, <2>3, <2>4, ReaderMoves DEF ReaderEffect
<1>8. CASE PutMarker(g)
  <2> DEFINE m == Message(reader[g].at, g, NoCap)
  <2>1. /\ reader[g].at \in {"end", "error"} /\ ReaderGoes(g, "gone")
        /\ \/ Len(handoff) < HandoffSize /\ handoff' = Append(handoff, m)
           \/ UNCHANGED handoff
    BY <1>8 DEF PutMarker
  <2>2. m \in Messages /\ m.gen = g /\ m.kind \in {"end", "error"}
    BY <2>1 DEF Message, Messages
  <2> HIDE DEF m
  <2>3. "gone" \in Places
    BY DEF Places
  <2>4. /\ handoff' \in Seq(Messages) /\ Len(handoff') <= HandoffSize
        /\ InHandoff' \subseteq InHandoff \cup {m}
    <3>1. CASE UNCHANGED handoff
      BY <1>2, <3>1 DEF InHandoff
    <3> QED
      BY <2>1, <2>2, <3>1, HandoffGrows
  <2> QED
    BY <2>1, <2>2, <2>3, <2>4, ReaderMoves DEF ReaderEffect
<1> QED
  BY <1>4, <1>5, <1>6, <1>7, <1>8 DEF ReaderStep

LEMMA ReaderKeeps ==
  ASSUME IInv, NEW g \in Gens, ReaderStep(g) \/ ReadReturns(g)
  PROVE  IInv'
<1> USE WatchdogAssumption
<1>1. UNCHANGED <<cap, closed, conns, gen, current, consumer, pending, zombies, outage, tries,
                  stop, closer, yielded>>
  BY DEF ReaderStep, ReadReturns, Bind, CheckFrame, PutFrame, PutMarker, ReaderOnly, cameraVars,
         countVars, closeVars
<1>2. ReaderEffect(g)
  BY ReaderStepEffect DEF IInv
<1>3. /\ reader[g].at \notin {"none", "gone"}
      /\ \A h \in Gens : h # g => reader'[h] = reader[h]
      /\ reader'[g].at \notin {"none", "start"}
      /\ reader'[g].cap = (IF reader[g].at = "start" THEN cap ELSE reader[g].cap)
      /\ reader'[g].at \in {"read", "frame", "put"} => reader'[g].cap # NoCap
  BY <1>2 DEF ReaderEffect
<1>4. TypeOK'
  BY <1>1, <1>2 DEF ReaderEffect, IInv, TypeOK, Messages, Places
<1>5. ConnectionsCounted'
  BY <1>1, <1>3 DEF IInv, ConnectionsCounted
<1>6. Unborn'
  <2>1. ~ (g > gen \/ (g = gen /\ consumer = "spawn"))
    BY <1>3 DEF IInv, Unborn
  <2> QED
    BY <1>1, <1>3, <2>1 DEF IInv, Unborn
<1>7. Bound'
  BY <1>1, <1>3 DEF IInv, Bound
<1>8. MessagesTrue'
  <2> SUFFICES ASSUME NEW m \in InHandoff'
               PROVE  /\ m.kind = "frame" => m.conn = reader'[m.gen].cap /\ m.conn # NoCap
                      /\ m.kind \in {"end", "error"} => reader'[m.gen].at = "gone"
                      /\ m.kind = "stop" => stop'
    BY DEF MessagesTrue
  <2>1. CASE m \in InHandoff
    <3>1. m.gen \in Gens
      BY <2>1, HandoffTyped DEF IInv, Messages
    <3>2. /\ m.kind = "frame" => m.conn = reader[m.gen].cap /\ m.conn # NoCap
          /\ m.kind \in {"end", "error"} => reader[m.gen].at = "gone"
          /\ m.kind = "stop" => stop
      BY <2>1 DEF IInv, MessagesTrue
    <3>3. reader[g].at = "start" => reader[g].cap = NoCap
      BY DEF IInv, Bound
    <3> QED
      BY <1>1, <1>3, <3>1, <3>2, <3>3
  <2>2. CASE m \notin InHandoff
    BY <1>2, <2>2 DEF ReaderEffect
  <2> QED
    BY <2>1, <2>2
<1>9. MarkPending'
  <2>1. gen \in Gens
    BY DEF IInv, TypeOK
  <2>2. reader'[gen].cap # NoCap => First(reader'[gen].cap)
    BY <1>3, <2>1 DEF IInv, MarkPending
  <2>3. reader'[gen].at = "start" => reader[gen].at = "start"
    BY <1>3, <2>1
  <2> QED
    BY <1>1, <2>2, <2>3 DEF IInv, MarkPending, First
<1>10. OutageRuns' /\ WithinLimits' /\ ClosersStop'
  BY <1>1 DEF IInv, OutageRuns, WithinLimits, ClosersStop
<1> QED
  BY <1>4, <1>5, <1>6, <1>7, <1>8, <1>9, <1>10 DEF IInv

-----------------------------------------------------------------------------
(* The callers of close().                                                 *)

LEMMA NoCapIsLeast ==
  ASSUME TypeOK
  PROVE  NoCap <= conns
<1>1. conns \in Conns
  BY DEF TypeOK
<1> QED
  BY <1>1, WatchdogAssumption DEF Conns, NoCap

LEMMA CloserKeeps ==
  ASSUME IInv, NEW c \in Closers, BeginClose(c) \/ CloserStep(c)
  PROVE  IInv'
<1> USE WatchdogAssumption
<1>1. UNCHANGED <<conns, gen, reader, current, consumer, pending, zombies, outage, tries, yielded>>
  BY DEF BeginClose, CloserStep, Release, Drain, Wake, CloseCamera, cameraVars, readerVars, countVars
<1>2. /\ cap' \in {cap, NoCap} /\ closed' \in BOOLEAN /\ stop' \in BOOLEAN /\ (stop => stop')
      /\ closer' \in [ Closers -> {"idle", "release", "drain", "wake", "done"} ]
      /\ \A d \in Closers : closer'[d] # "idle" => stop'
  <2>1. /\ cap' \in {cap, NoCap} /\ closed' \in BOOLEAN /\ stop' \in {stop, TRUE}
        /\ stop' = stop => closer[c] # "idle" \/ stop
    BY DEF BeginClose, CloserStep, Release, Drain, Wake, CloseCamera, cameraVars, IInv, TypeOK
  <2>2. PICK at \in {"release", "drain", "wake", "done"} : closer' = [ closer EXCEPT ![c] = at ]
    BY DEF BeginClose, CloserStep, Release, Drain, Wake, CloserGoes
  <2>3. /\ closer' \in [ Closers -> {"idle", "release", "drain", "wake", "done"} ]
        /\ \A d \in Closers : d # c => closer'[d] = closer[d]
    BY <2>2 DEF IInv, TypeOK
  <2>4. stop \in BOOLEAN /\ \A d \in Closers : closer[d] # "idle" => stop
    BY DEF IInv, TypeOK, ClosersStop
  <2>5. stop'
    BY <2>1, <2>4
  <2> QED
    BY <2>1, <2>3, <2>5
<1>3. /\ handoff' \in Seq(Messages) /\ Len(handoff') <= HandoffSize
      /\ \A m \in InHandoff' : m \in InHandoff \/ (m.kind = "stop" /\ stop')
  <2>1. CASE UNCHANGED handoff
    BY <2>1, HandoffTyped DEF IInv, InHandoff
  <2>2. CASE handoff' = <<>>
    BY <2>2, HandoffEmpties
  <2>3. CASE /\ closer[c] = "wake" /\ Len(handoff) < HandoffSize
             /\ handoff' = Append(handoff, Message("stop", gen, NoCap))
    <3> DEFINE m == Message("stop", gen, NoCap)
    <3>1. m \in Messages /\ m.kind = "stop"
      BY DEF IInv, TypeOK, Message, Messages
    <3>2. stop'
      BY <1>2, <2>3 DEF IInv, ClosersStop
    <3> HIDE DEF m
    <3>3. /\ handoff' \in Seq(Messages) /\ Len(handoff') <= HandoffSize
          /\ InHandoff' = InHandoff \cup {m}
      BY <2>3, <3>1, HandoffGrows DEF IInv, m
    <3> QED
      BY <3>1, <3>2, <3>3
  <2> QED
    BY <2>1, <2>2, <2>3 DEF BeginClose, CloserStep, Release, Drain, Wake
<1>4. TypeOK'
  BY <1>1, <1>2, <1>3 DEF IInv, TypeOK, Messages
<1>5. ConnectionsCounted'
  BY <1>1, <1>2, NoCapIsLeast DEF IInv, ConnectionsCounted
<1>6. Unborn' /\ Bound'
  BY <1>1 DEF IInv, Unborn, Bound
<1>7. MessagesTrue'
  BY <1>1, <1>2, <1>3 DEF IInv, MessagesTrue
<1>8. MarkPending'
  BY <1>1, <1>2 DEF IInv, MarkPending, First
<1>9. OutageRuns' /\ WithinLimits' /\ ClosersStop'
  BY <1>1, <1>2 DEF IInv, OutageRuns, WithinLimits, ClosersStop
<1> QED
  BY <1>4, <1>5, <1>6, <1>7, <1>8, <1>9 DEF IInv

-----------------------------------------------------------------------------
(* The consumer.                                                           *)

Spots == {"top", "get", "yielded", "recover", "reap", "retry", "sleep", "slept",
          "connect", "set up", "opened", "spawn", "ended", "escalated"}

Waiting == {"top", "get", "yielded", "recover", "reap", "ended"}

Limits == zombies \in 0 .. MaxZombies + 1 /\ outage \in NoOutage .. MaxOutage + 1 /\ tries \in Nat

(* A step that neither yields nor begins a connection or a generation.     *)
Calm ==
  /\ UNCHANGED <<conns, gen, reader, pending, stop, closer, yielded>>
  /\ cap' \in {cap, NoCap} /\ closed' \in BOOLEAN
  /\ handoff' \in Seq(Messages) /\ Len(handoff') <= HandoffSize /\ InHandoff' \subseteq InHandoff
  /\ consumer' \in Spots \ {"spawn", "set up"}
  /\ consumer' = "opened" => consumer = "set up"
  /\ current' \in SUBSET Gens
  /\ \A g \in Gens : reader[g].at = "start" => g \in current' /\ consumer' \in Waiting

LEMMA CalmKeeps ==
  ASSUME IInv, Calm, Limits', OutageRuns', WithinLimits'
  PROVE  IInv'
<1> USE WatchdogAssumption
<1>1. TypeOK'
  <2>1. consumer' \in {"top", "get", "yielded", "recover", "reap", "retry", "sleep", "slept",
                       "connect", "set up", "opened", "spawn", "ended", "escalated"}
    BY DEF Calm, Spots
  <2>2. handoff' \in Seq([ kind : {"frame", "end", "error", "stop"}, gen : Gens,
                           conn : Conns \cup {NoCap} ])
    BY DEF Calm, Messages
  <2>3. zombies' \in 0 .. MaxZombies + 1 /\ outage' \in NoOutage .. MaxOutage + 1 /\ tries' \in Nat
    BY DEF Limits
  <2> QED
    BY <2>1, <2>2, <2>3 DEF Calm, IInv, TypeOK
<1>2. ConnectionsCounted'
  BY NoCapIsLeast DEF Calm, IInv, ConnectionsCounted
<1>3. Unborn'
  BY DEF Calm, IInv, Unborn
<1>4. Bound'
  BY DEF Calm, IInv, Bound, Waiting
<1>5. MessagesTrue'
  BY DEF Calm, IInv, MessagesTrue
<1>6. MarkPending'
  BY DEF Calm, IInv, MarkPending, First
<1>7. ClosersStop'
  BY DEF Calm, IInv, ClosersStop
<1> QED
  BY <1>1, <1>2, <1>3, <1>4, <1>5, <1>6, <1>7 DEF IInv

(* The outage clock and the counters while the consumer waits, tears the   *)
(* connection down and tries again.                                        *)
LEMMA CalmStepKeeps ==
  ASSUME IInv, Top \/ Stall \/ Resume \/ Recover \/ ReapDrain \/ Reap \/ Retry \/ Sleep
                 \/ Reopen \/ ConnectFails \/ Connected
  PROVE  IInv'
<1> USE WatchdogAssumption DEF Goes
<1>1. /\ NoOutage = -1 /\ outage \in Int /\ outage >= NoOutage /\ outage <= MaxOutage + 1
      /\ tries \in Nat /\ zombies \in Nat /\ zombies <= MaxZombies + 1
      /\ Limits /\ OutageRuns /\ WithinLimits /\ TypeOK /\ Bound
  <2>1. /\ zombies \in 0 .. MaxZombies + 1 /\ outage \in NoOutage .. MaxOutage + 1 /\ tries \in Nat
    BY DEF IInv, TypeOK
  <2>2. Limits
    BY <2>1 DEF Limits
  <2> QED
    BY <2>1, <2>2 DEF IInv, NoOutage
<1>2. /\ handoff \in Seq(Messages) /\ Len(handoff) <= HandoffSize
      /\ cap \in {cap, NoCap} /\ closed \in BOOLEAN /\ current \in SUBSET Gens /\ consumer \in Spots
  BY <1>1, HandoffTyped DEF TypeOK, Spots
<1>3. \A g \in Gens : reader[g].at = "start" => g \in current /\ consumer \in Waiting
  BY <1>1 DEF Bound, Waiting
<1>4. UNCHANGED handoff => /\ handoff' \in Seq(Messages) /\ Len(handoff') <= HandoffSize
                           /\ InHandoff' \subseteq InHandoff
  BY <1>2 DEF InHandoff
<1>5. CASE Top
  <2>1. /\ consumer = "top" /\ consumer' = (IF stop THEN "ended" ELSE "get")
        /\ UNCHANGED <<conns, gen, reader, pending, stop, closer, yielded, cap, closed, handoff,
                       current, zombies, outage, tries>>
    BY <1>5 DEF Top, cameraVars, readerVars, countVars, closeVars
  <2>2. Calm
    BY <1>2, <1>3, <1>4, <2>1 DEF Calm, Spots, Waiting
  <2>3. Limits' /\ OutageRuns' /\ WithinLimits'
    BY <1>1, <2>1 DEF Limits, OutageRuns, WithinLimits
  <2> QED
    BY <2>2, <2>3, CalmKeeps
<1>6. CASE Stall
  <2>1. /\ consumer = "get" /\ consumer' = "recover"
        /\ outage' = (IF outage = NoOutage THEN NoOutage ELSE outage + 1)
        /\ UNCHANGED <<conns, gen, reader, pending, stop, closer, yielded, cap, closed, handoff,
                       current, zombies, tries>>
    BY <1>6 DEF Stall, Waits, cameraVars, readerVars, closeVars
  <2>2. Calm
    BY <1>2, <1>3, <1>4, <2>1 DEF Calm, Spots, Waiting
  <2>3. outage <= MaxOutage
    BY <1>1, <2>1 DEF WithinLimits
  <2>4. Limits'
    BY <1>1, <2>1, <2>3 DEF Limits
  <2>5. OutageRuns' /\ WithinLimits'
    BY <1>1, <2>1, <2>3 DEF OutageRuns, WithinLimits
  <2> QED
    BY <2>2, <2>4, <2>5, CalmKeeps
<1>7. CASE Resume
  <2>1. /\ consumer = "yielded" /\ consumer' \in {"top", "ended"}
        /\ UNCHANGED <<conns, gen, reader, pending, stop, closer, yielded, cap, closed, handoff,
                       current, zombies, outage, tries>>
    BY <1>7 DEF Resume, cameraVars, readerVars, countVars, closeVars
  <2>2. Calm
    BY <1>2, <1>3, <1>4, <2>1 DEF Calm, Spots, Waiting
  <2>3. Limits' /\ OutageRuns' /\ WithinLimits'
    BY <1>1, <2>1 DEF Limits, OutageRuns, WithinLimits
  <2> QED
    BY <2>2, <2>3, CalmKeeps
<1>8. CASE Recover
  <2>1. /\ consumer = "recover" /\ consumer' = "reap" /\ closed' = TRUE /\ cap' = NoCap
        /\ outage' = (IF outage = NoOutage THEN 0 ELSE outage)
        /\ UNCHANGED <<conns, gen, reader, pending, stop, closer, yielded, handoff, current,
                       zombies, tries>>
    BY <1>8 DEF Recover, CloseCamera, cameraVars, readerVars, closeVars
  <2>2. Calm
    BY <1>2, <1>3, <1>4, <2>1 DEF Calm, Spots, Waiting
  <2>3. Limits' /\ OutageRuns' /\ WithinLimits'
    BY <1>1, <2>1 DEF Limits, OutageRuns, WithinLimits
  <2> QED
    BY <2>2, <2>3, CalmKeeps
<1>9. CASE ReapDrain
  <2>1. /\ consumer = "reap" /\ handoff' = <<>>
        /\ UNCHANGED <<conns, gen, reader, pending, stop, closer, yielded, cap, closed, consumer,
                       current, zombies, outage, tries>>
    BY <1>9 DEF ReapDrain, cameraVars, readerVars, countVars, closeVars
  <2>2. handoff' \in Seq(Messages) /\ Len(handoff') <= HandoffSize /\ InHandoff' \subseteq InHandoff
    BY <2>1, HandoffEmpties
  <2>3. Calm
    BY <1>2, <1>3, <2>1, <2>2 DEF Calm, Spots, Waiting
  <2>4. Limits' /\ OutageRuns' /\ WithinLimits'
    BY <1>1, <2>1 DEF Limits, OutageRuns, WithinLimits
  <2> QED
    BY <2>3, <2>4, CalmKeeps
<1>10. CASE Reap
  <2>1. /\ consumer = "reap" /\ current' = {}
        /\ \A g \in current : reader[g].at \in {"read", "gone"}
        /\ \/ zombies' = zombies + 1
                /\ consumer' = (IF zombies + 1 > MaxZombies THEN "escalated" ELSE "retry")
           \/ zombies' = zombies /\ consumer' = "retry"
        /\ UNCHANGED <<conns, gen, reader, pending, stop, closer, yielded, cap, closed, handoff,
                       outage, tries>>
    BY <1>10 DEF Reap, Reaped, cameraVars, closeVars
  <2>2. \A g \in Gens : reader[g].at # "start"
    BY <1>3, <2>1
  <2>3. Calm
    BY <1>2, <1>4, <2>1, <2>2 DEF Calm, Spots
  <2>4. zombies <= MaxZombies
    BY <1>1, <2>1 DEF WithinLimits
  <2>5. Limits'
    BY <1>1, <2>1, <2>4 DEF Limits
  <2>6. OutageRuns' /\ WithinLimits'
    BY <1>1, <2>1, <2>4 DEF OutageRuns, WithinLimits
  <2> QED
    BY <2>3, <2>5, <2>6, CalmKeeps
<1>11. CASE Retry
  <2>1. /\ consumer = "retry"
        /\ consumer' = (IF stop THEN "top" ELSE IF OutageTooLong THEN "escalated" ELSE "sleep")
        /\ UNCHANGED <<conns, gen, reader, pending, stop, closer, yielded, cap, closed, handoff,
                       current, zombies, outage, tries>>
    BY <1>11 DEF Retry, cameraVars, readerVars, countVars, closeVars
  <2>2. Calm
    BY <1>2, <1>3, <1>4, <2>1 DEF Calm, Spots, Waiting
  <2>3. outage # NoOutage
    BY <1>1, <2>1 DEF OutageRuns
  <2>4. Limits' /\ OutageRuns'
    BY <1>1, <2>1, <2>3 DEF Limits, OutageRuns
  <2>5. WithinLimits'
    BY <1>1, <2>1, <2>3 DEF WithinLimits, OutageTooLong
  <2> QED
    BY <2>2, <2>4, <2>5, CalmKeeps
<1>12. CASE Sleep
  <2>1. /\ consumer = "sleep"
        /\ \/ stop /\ consumer' = "top" /\ outage' = outage
           \/ /\ consumer' = "slept"
              /\ outage' = (IF outage = NoOutage THEN NoOutage ELSE outage + 1)
        /\ UNCHANGED <<conns, gen, reader, pending, stop, closer, yielded, cap, closed, handoff,
                       current, zombies, tries>>
    BY <1>12 DEF Sleep, Waits, cameraVars, readerVars, closeVars
  <2>2. Calm
    BY <1>2, <1>3, <1>4, <2>1 DEF Calm, Spots, Waiting
  <2>3. outage # NoOutage /\ outage <= MaxOutage /\ tries <= outage
    BY <1>1, <2>1 DEF OutageRuns, WithinLimits
  <2>4. Limits'
    BY <1>1, <2>1, <2>3 DEF Limits
  <2>5. OutageRuns' /\ WithinLimits'
    BY <1>1, <2>1, <2>3 DEF OutageRuns, WithinLimits
  <2> QED
    BY <2>2, <2>4, <2>5, CalmKeeps
<1>13. CASE Reopen
  <2>1. /\ consumer = "slept"
        /\ \/ OutageTooLong /\ consumer' = "escalated" /\ UNCHANGED <<cap, closed, tries>>
           \/ /\ ~ OutageTooLong /\ consumer' = "connect"
              /\ cap' = NoCap /\ closed' = FALSE /\ tries' = tries + 1
        /\ UNCHANGED <<conns, gen, reader, pending, stop, closer, yielded, handoff, current,
                       zombies, outage>>
    BY <1>13 DEF Reopen, readerVars, closeVars
  <2>2. Calm
    BY <1>2, <1>3, <1>4, <2>1 DEF Calm, Spots, Waiting
  <2>3. outage # NoOutage /\ tries + 1 <= outage
    BY <1>1, <2>1 DEF OutageRuns
  <2>4. OutageTooLong <=> outage > MaxOutage
    BY <2>3 DEF OutageTooLong
  <2>5. Limits'
    BY <1>1, <2>1 DEF Limits
  <2>6. OutageRuns' /\ WithinLimits'
    BY <1>1, <2>1, <2>3, <2>4 DEF OutageRuns, WithinLimits
  <2> QED
    BY <2>2, <2>5, <2>6, CalmKeeps
<1>14. CASE ConnectFails \/ Connected
  <2>1. /\ \/ consumer \in {"connect", "set up"} /\ consumer' = "retry"
           \/ consumer = "set up" /\ consumer' = "opened"
        /\ UNCHANGED <<conns, gen, reader, pending, stop, closer, yielded, cap, closed, handoff,
                       current, zombies, outage, tries>>
    BY <1>14 DEF ConnectFails, Connected, cameraVars, readerVars, countVars, closeVars
  <2>2. Calm
    BY <1>2, <1>3, <1>4, <2>1 DEF Calm, Spots, Waiting
  <2>3. Limits' /\ OutageRuns' /\ WithinLimits'
    BY <1>1, <2>1 DEF Limits, OutageRuns, WithinLimits
  <2> QED
    BY <2>2, <2>3, CalmKeeps
<1> QED
  BY <1>5, <1>6, <1>7, <1>8, <1>9, <1>10, <1>11, <1>12, <1>13, <1>14

(* What is yielded is a frame of the connection of this generation.        *)
LEMMA YieldsOwn ==
  ASSUME IInv, Get, consumer' = "yielded"
  PROVE  /\ reader[gen].cap \in Conns /\ reader[gen].cap # NoCap /\ First(reader[gen].cap)
         /\ reader[gen].at # "start"
         /\ yielded' = [ conn |-> reader[gen].cap, mark |-> pending ]
         /\ pending' = FALSE /\ outage' = NoOutage /\ tries' = 0
<1> DEFINE m == Head(handoff)
<1>1. /\ handoff # <<>> /\ handoff' = Tail(handoff) /\ ~ Stale(m) /\ m.kind = "frame"
      /\ yielded' = [ conn |-> m.conn, mark |-> pending ]
      /\ pending' = FALSE /\ outage' = NoOutage /\ tries' = 0
  BY DEF Get, Yield, Goes
<1>2. m \in InHandoff
  BY <1>1, HandoffShrinks DEF IInv
<1> HIDE DEF m
<1>3. m.gen = gen /\ m.conn = reader[m.gen].cap /\ m.conn # NoCap
  BY <1>1, <1>2 DEF Stale, IInv, MessagesTrue
<1>4. gen \in Gens /\ reader[gen].cap \in Conns \cup {NoCap}
  BY DEF IInv, TypeOK
<1> QED
  BY <1>1, <1>3, <1>4 DEF IInv, Bound, MarkPending

LEMMA GetKeeps ==
  ASSUME IInv, Get
  PROVE  IInv'
<1> USE WatchdogAssumption
<1>1. /\ consumer = "get" /\ handoff # <<>> /\ handoff' = Tail(handoff)
      /\ UNCHANGED <<cap, closed, conns, gen, reader, current, zombies, stop, closer>>
  BY DEF Get, cameraVars, readerVars, closeVars
<1>2. /\ handoff' \in Seq(Messages) /\ Len(handoff') <= HandoffSize /\ InHandoff' \subseteq InHandoff
  BY <1>1, HandoffShrinks DEF IInv
<1>3. \A g \in Gens : reader[g].at = "start" => g \in current /\ g = gen
  BY DEF IInv, Bound
<1>4. Limits /\ OutageRuns /\ WithinLimits
  BY DEF IInv, TypeOK, Limits
<1>5. CASE consumer' # "yielded"
  <2>1. consumer' \in {"top", "ended", "recover"} /\ UNCHANGED <<pending, outage, tries, yielded>>
    BY <1>5 DEF Get, Goes, Yield
  <2>2. Calm
    <3>1. closed \in BOOLEAN /\ current \in SUBSET Gens
      BY DEF IInv, TypeOK
    <3> QED
      BY <1>1, <1>2, <1>3, <2>1, <3>1 DEF Calm, Spots, Waiting
  <2>3. outage <= MaxOutage \/ ~ (outage > MaxOutage)
    BY <1>1, <1>4 DEF WithinLimits
  <2>4. Limits' /\ OutageRuns' /\ WithinLimits'
    BY <1>1, <1>4, <2>1 DEF Limits, OutageRuns, WithinLimits
  <2> QED
    BY <2>2, <2>4, CalmKeeps
<1>6. CASE consumer' = "yielded"
  <2> DEFINE c == reader[gen].cap
  <2>1. /\ c \in Conns /\ c # NoCap /\ First(c) /\ reader[gen].at # "start"
        /\ yielded' = [ conn |-> c, mark |-> pending ]
        /\ pending' = FALSE /\ outage' = NoOutage /\ tries' = 0
    BY <1>6, YieldsOwn
  <2>2. gen \in Gens /\ pending \in BOOLEAN /\ conns \in Conns /\ c <= conns
    <3>1. gen \in Gens /\ pending \in BOOLEAN /\ conns \in Conns
      BY DEF IInv, TypeOK
    <3> QED
      BY <3>1 DEF IInv, ConnectionsCounted
  <2> HIDE DEF c
  <2>3. yielded' \in [ conn : Conns, mark : BOOLEAN ] /\ yielded'.conn = c
    BY <2>1, <2>2
  <2>4. TypeOK'
    <3>1. outage' \in NoOutage .. MaxOutage + 1 /\ tries' \in Nat
      BY <2>1 DEF NoOutage
    <3> QED
      BY <1>1, <1>2, <1>6, <2>1, <2>3, <3>1 DEF IInv, TypeOK, Messages
  <2>5. ConnectionsCounted'
    BY <1>1, <1>6, <2>2, <2>3 DEF IInv, ConnectionsCounted
  <2>6. Unborn' /\ Bound'
    BY <1>1, <1>6 DEF IInv, Unborn, Bound
  <2>7. MessagesTrue' /\ ClosersStop'
    BY <1>1, <1>2 DEF IInv, MessagesTrue, ClosersStop
  <2>8. MarkPending'
    BY <1>1, <2>1, <2>3 DEF MarkPending, First, c
  <2>9. OutageRuns' /\ WithinLimits'
    BY <1>1, <1>4, <1>6, <2>1 DEF OutageRuns, WithinLimits, NoOutage
  <2> QED
    BY <2>4, <2>5, <2>6, <2>7, <2>8, <2>9 DEF IInv
<1> QED
  BY <1>5, <1>6

LEMMA PublishKeeps ==
  ASSUME IInv, Publish
  PROVE  IInv'
<1> USE WatchdogAssumption
<1>1. /\ consumer = "connect" /\ conns < MaxConns /\ conns' = conns + 1 /\ cap' = conns + 1
      /\ consumer' = "set up"
      /\ UNCHANGED <<closed, gen, reader, current, handoff, pending, zombies, outage, tries,
                     stop, closer, yielded>>
  BY DEF Publish, Goes, readerVars, countVars, closeVars
<1>2. conns \in Nat /\ conns > 0 /\ conns' \in Conns /\ cap' \in Conns
  <2>0. conns \in Conns
    BY DEF IInv, TypeOK
  <2>1. PICK n \in Nat : n = conns /\ n > 0
    BY <2>0 DEF Conns
  <2>2. n < MaxConns
    BY <1>1, <2>1
  <2>3. n + 1 \in Conns
    BY <2>1, <2>2 DEF Conns
  <2> QED
    BY <1>1, <2>1, <2>3
<1>3. TypeOK'
  BY <1>1, <1>2 DEF IInv, TypeOK
<1>4. gen \in Nat /\ yielded.conn \in Nat /\ \A g \in Gens : reader[g].cap \in Nat
  <2>1. gen \in Gens /\ yielded.conn \in Conns /\ \A g \in Gens : reader[g].cap \in Conns \cup {NoCap}
    BY DEF IInv, TypeOK
  <2> QED
    BY <2>1 DEF Gens, Conns, NoCap
<1>5. ConnectionsCounted'
  <2>1. PICK n \in Nat, k \in Nat, y \in Nat : n = conns /\ k = gen /\ y = yielded.conn
    BY <1>2, <1>4
  <2>2. k + 1 <= n /\ y <= n /\ \A g \in Gens : reader[g].cap <= n
    BY <2>1 DEF IInv, ConnectionsCounted
  <2>3. k + 2 <= n + 1 /\ k + 1 <= n + 1 /\ y <= n + 1 /\ y < n + 1 /\ n + 1 <= n + 1
    BY <2>2
  <2>4. \A g \in Gens : reader[g].cap <= n + 1
    BY <1>4, <2>2
  <2> QED
    BY <1>1, <2>1, <2>3, <2>4 DEF ConnectionsCounted
<1>6. \A g \in Gens : reader[g].at # "start"
  BY <1>1 DEF IInv, Bound
<1>7. Unborn' /\ Bound'
  BY <1>1, <1>6 DEF IInv, Unborn, Bound
<1>8. MessagesTrue' /\ ClosersStop'
  BY <1>1 DEF IInv, MessagesTrue, InHandoff, ClosersStop
<1>9. MarkPending'
  <2>1. gen \in Gens
    BY DEF IInv, TypeOK
  <2> QED
    BY <1>1, <1>6, <2>1 DEF IInv, MarkPending, First
<1>10. OutageRuns' /\ WithinLimits'
  BY <1>1 DEF IInv, OutageRuns, WithinLimits
<1> QED
  BY <1>3, <1>5, <1>7, <1>8, <1>9, <1>10 DEF IInv

(* The next generation: its reader does not exist before it is spawned.    *)
LEMMA OpenedKeeps ==
  ASSUME IInv, Opened
  PROVE  IInv'
<1> USE WatchdogAssumption
<1>1. /\ consumer = "opened"
      /\ UNCHANGED <<conns, reader, current, handoff, pending, zombies, outage, tries,
                     stop, closer, yielded>>
  BY DEF Opened, CloseCamera, cameraVars, countVars, closeVars
<1>2. \A g \in Gens : reader[g].at # "start"
  BY <1>1 DEF IInv, Bound
<1>3. outage # NoOutage /\ ~ (outage > MaxOutage) /\ ~ (zombies > MaxZombies)
  BY <1>1 DEF IInv, OutageRuns, WithinLimits
<1>4. CASE stop
  <2>1. closed' = TRUE /\ cap' = NoCap /\ consumer' = "top" /\ gen' = gen
    BY <1>4 DEF Opened, CloseCamera, Goes
  <2>2. Calm
    <3>1. /\ handoff \in Seq(Messages) /\ Len(handoff) <= HandoffSize /\ current \in SUBSET Gens
          /\ InHandoff' = InHandoff
      BY <1>1, HandoffTyped DEF IInv, TypeOK, InHandoff
    <3> QED
      BY <1>1, <1>2, <2>1, <3>1 DEF Calm, Spots, Waiting
  <2>3. Limits' /\ OutageRuns' /\ WithinLimits'
    BY <1>1, <1>3, <2>1 DEF IInv, TypeOK, Limits, OutageRuns, WithinLimits
  <2> QED
    BY <2>2, <2>3, CalmKeeps
<1>5. CASE ~ stop
  <2>1. consumer' = "spawn" /\ gen' = gen + 1 /\ cap' = cap /\ closed' = closed
    BY <1>5 DEF Opened, Goes, cameraVars
  <2>2. gen \in Nat /\ conns \in Nat /\ gen + 2 <= conns /\ conns <= MaxConns
    <3>1. gen \in Gens /\ conns \in Conns /\ gen + 2 <= conns
      BY <1>1 DEF IInv, TypeOK, ConnectionsCounted
    <3> QED
      BY <3>1 DEF Gens, Conns
  <2>3. gen' \in Gens
    BY <2>1, <2>2 DEF Gens
  <2>4. TypeOK'
    BY <1>1, <2>1, <2>3 DEF IInv, TypeOK
  <2>5. ConnectionsCounted'
    BY <1>1, <2>1, <2>2 DEF IInv, ConnectionsCounted
  <2>6. Unborn'
    <3>1. \A g \in Gens : g > gen' \/ g = gen' => g > gen
      BY <2>1, <2>2 DEF Gens
    <3> QED
      BY <1>1, <2>1, <3>1 DEF IInv, Unborn
  <2>7. Bound'
    BY <1>1, <1>2, <2>1 DEF IInv, Bound
  <2>8. MessagesTrue' /\ ClosersStop'
    BY <1>1 DEF IInv, MessagesTrue, InHandoff, ClosersStop
  <2>9. MarkPending'
    <3>1. gen' > gen
      BY <2>1, <2>2
    <3>2. reader[gen'] = [ at |-> "none", cap |-> NoCap ]
      BY <2>3, <3>1 DEF IInv, Unborn
    <3> QED
      BY <1>1, <3>2 DEF MarkPending
  <2>10. OutageRuns' /\ WithinLimits'
    BY <1>1, <1>3, <2>1 DEF IInv, OutageRuns, WithinLimits
  <2> QED
    BY <2>4, <2>5, <2>6, <2>7, <2>8, <2>9, <2>10 DEF IInv
<1> QED
  BY <1>4, <1>5

LEMMA SpawnKeeps ==
  ASSUME IInv, Spawn
  PROVE  IInv'
<1> USE WatchdogAssumption
<1>1. /\ consumer = "spawn" /\ consumer' = "top" /\ handoff' = <<>>
      /\ reader' = [ reader EXCEPT ![gen] = [ at |-> "start", cap |-> NoCap ] ]
      /\ current' = {gen} /\ pending' = TRUE
      /\ UNCHANGED <<cap, closed, conns, gen, zombies, outage, tries, stop, closer, yielded>>
  BY DEF Spawn, Spawned, Goes, cameraVars, countVars, closeVars
<1>2. gen \in Gens
  BY DEF IInv, TypeOK
<1>3. /\ reader'[gen] = [ at |-> "start", cap |-> NoCap ]
      /\ \A g \in Gens : g # gen => reader'[g] = reader[g]
  BY <1>1, <1>2 DEF IInv, TypeOK
<1>4. reader' \in [ Gens -> [ at : {"none", "start", "read", "frame", "put", "end", "error", "gone"},
                              cap : Conns \cup {NoCap} ] ]
  BY <1>1, <1>2 DEF IInv, TypeOK
<1>5. handoff' \in Seq(Messages) /\ Len(handoff') <= HandoffSize /\ InHandoff' = {}
  BY <1>1, HandoffEmpties
<1>6. TypeOK'
  BY <1>1, <1>2, <1>4, <1>5 DEF IInv, TypeOK, Messages
<1>7. ConnectionsCounted'
  BY <1>1, <1>2, <1>3, NoCapIsLeast DEF IInv, ConnectionsCounted
<1>8. Unborn'
  <2>1. ~ (gen > gen)
    BY <1>2 DEF Gens
  <2> QED
    BY <1>1, <1>3, <2>1 DEF IInv, Unborn
<1>9. Bound'
  BY <1>1, <1>2, <1>3 DEF IInv, Bound
<1>10. MessagesTrue' /\ ClosersStop'
  BY <1>1, <1>5 DEF IInv, MessagesTrue, ClosersStop
<1>11. MarkPending'
  <2>1. cap \in {NoCap, conns} /\ yielded.conn < conns
    BY <1>1 DEF IInv, ConnectionsCounted
  <2> QED
    BY <1>1, <1>3, <2>1 DEF MarkPending, First
<1>12. OutageRuns' /\ WithinLimits'
  BY <1>1 DEF IInv, OutageRuns, WithinLimits
<1> QED
  BY <1>6, <1>7, <1>8, <1>9, <1>10, <1>11, <1>12 DEF IInv

-----------------------------------------------------------------------------
(* The theorems.                                                           *)

LEMMA StepIInv == IInv /\ [Next]_vars => IInv'
<1> SUFFICES ASSUME IInv, [Next]_vars PROVE IInv'
  OBVIOUS
<1>1. CASE \E g \in Gens : ReaderStep(g) \/ ReadReturns(g)
  BY <1>1, ReaderKeeps
<1>2. CASE \E c \in Closers : BeginClose(c) \/ CloserStep(c)
  BY <1>2, CloserKeeps
<1>3. CASE ConsumerStep \/ Stall
  BY <1>3, CalmStepKeeps, GetKeeps, PublishKeeps, OpenedKeeps, SpawnKeeps DEF ConsumerStep
<1>4. CASE UNCHANGED vars
  <2>1. UNCHANGED <<cap, closed, conns, gen, reader, current, handoff, consumer, pending, zombies,
                    outage, tries, stop, closer, yielded>>
    BY <1>4 DEF vars, cameraVars, readerVars, countVars, closeVars
  <2>2. TypeOK' /\ ConnectionsCounted' /\ Unborn' /\ Bound'
    BY <2>1 DEF IInv, TypeOK, ConnectionsCounted, Unborn, Bound
  <2>3. MessagesTrue' /\ MarkPending'
    BY <2>1 DEF IInv, MessagesTrue, InHandoff, MarkPending, First
  <2>4. OutageRuns' /\ WithinLimits' /\ ClosersStop'
    BY <2>1 DEF IInv, OutageRuns, WithinLimits, ClosersStop
  <2> QED
    BY <2>2, <2>3, <2>4 DEF IInv
<1> QED
  BY <1>1, <1>2, <1>3, <1>4 DEF Next, Done

(* The inductive invariant: types, the generations and connections in      *)
(* step, messages that are true of their reader, and the outage clock      *)
(* ahead of the reopen attempts.                                           *)
THEOREM WatchdogInvariance == Spec => []IInv
<1> QED
  BY InitIInv, StepIInv, PTL DEF Spec

(* A device that keeps opening and never delivers does not stretch the     *)
(* outage: the attempts since the last frame are bounded.                  *)
THEOREM OutagesAreBounded == Spec => []OutageIsBounded
<1>1. IInv => OutageIsBounded
  BY DEF IInv, OutageRuns, OutageIsBounded
<1> QED
  BY <1>1, WatchdogInvariance, PTL

(* A message makes the consumer tear its connection down only if the       *)
(* reader of that connection has ended, whatever zombies wake up.          *)
THEOREM ZombiesAreHarmless == Spec => ZombiesCannotPoison
<1>1. ASSUME IInv, [Next]_vars
      PROVE  [ consumer = "get" /\ consumer' = "recover" /\ handoff # <<>> =>
                 reader[gen].at = "gone" ]_vars
  <2> SUFFICES ASSUME Next, consumer = "get", consumer' = "recover", handoff # <<>>
               PROVE  reader[gen].at = "gone"
    BY <1>1
  <2>1. Get
    <3>1. ~ UNCHANGED consumer
      OBVIOUS
    <3>2. \A g \in Gens : ~ (ReaderStep(g) \/ ReadReturns(g))
      BY <3>1 DEF ReaderStep, ReadReturns, Bind, CheckFrame, PutFrame, PutMarker, ReaderOnly
    <3>3. \A c \in Closers : ~ (BeginClose(c) \/ CloserStep(c))
      BY <3>1 DEF BeginClose, CloserStep, Release, Drain, Wake
    <3>4. ~ Stall /\ ~ Done
      BY <3>1 DEF Stall, Done, vars
    <3> QED
      BY <3>2, <3>3, <3>4 DEF Next, ConsumerStep, Top, Resume, Recover, ReapDrain, Reap, Retry, Sleep,
           Reopen, Publish, ConnectFails, Connected, Opened, Spawn
  <2> DEFINE m == Head(handoff)
  <2>2. handoff' = Tail(handoff) /\ ~ Stale(m) /\ ~ stop /\ m.kind # "frame"
    BY <2>1 DEF Get, Yield, Goes
  <2>3. m \in InHandoff
    BY <1>1, <2>2, HandoffShrinks DEF IInv
  <2>4. m \in Messages
    BY <1>1, <2>3, HandoffTyped DEF IInv
  <2> HIDE DEF m
  <2>5. m.kind \in {"end", "error"}
    BY <1>1, <2>2, <2>3, <2>4 DEF Messages, IInv, MessagesTrue
  <2> QED
    BY <1>1, <2>2, <2>3, <2>5 DEF IInv, MessagesTrue, Stale
<1> QED
  BY <1>1, WatchdogInvariance, PTL DEF Spec, ZombiesCannotPoison

(* Frames are yielded connection by connection, and exactly the first one  *)
(* of a connection other than the last one's carries the mark.             *)
THEOREM FirstFramesAreMarked == Spec => FirstOfConnectionMarked
<1>1. ASSUME IInv, [Next]_vars
      PROVE  [ consumer # "yielded" /\ consumer' = "yielded" =>
                 /\ yielded'.conn >= yielded.conn
                 /\ yielded'.mark <=> yielded'.conn # yielded.conn ]_vars
  <2> SUFFICES ASSUME Next, consumer # "yielded", consumer' = "yielded"
               PROVE  /\ yielded'.conn >= yielded.conn
                      /\ yielded'.mark <=> yielded'.conn # yielded.conn
    BY <1>1
  <2>1. Get
    <3>1. ~ UNCHANGED consumer
      OBVIOUS
    <3>2. \A g \in Gens : ~ (ReaderStep(g) \/ ReadReturns(g))
      BY <3>1 DEF ReaderStep, ReadReturns, Bind, CheckFrame, PutFrame, PutMarker, ReaderOnly
    <3>3. \A c \in Closers : ~ (BeginClose(c) \/ CloserStep(c))
      BY <3>1 DEF BeginClose, CloserStep, Release, Drain, Wake
    <3>4. ~ Done
      BY <3>1 DEF Done, vars
    <3> QED
      BY <3>2, <3>3, <3>4 DEF Next, ConsumerStep, Goes, Top, Stall, Resume, Recover, ReapDrain, Reap,
           Reaped, Retry, Sleep, Reopen, Publish, ConnectFails, Connected, Opened, Spawn
  <2>2. /\ First(reader[gen].cap) /\ yielded' = [ conn |-> reader[gen].cap, mark |-> pending ]
        /\ reader[gen].cap \in Conns
    BY <1>1, <2>1, YieldsOwn
  <2>3. yielded.conn \in Conns /\ pending \in BOOLEAN
    BY <1>1 DEF IInv, TypeOK
  <2>4. PICK c \in Nat, y \in Nat : c = reader[gen].cap /\ y = yielded.conn
    BY <2>2, <2>3 DEF Conns
  <2>5. yielded'.conn = c /\ yielded'.mark = pending /\ (IF pending THEN y < c ELSE y = c)
    BY <2>2, <2>4 DEF First
  <2> QED
    BY <2>3, <2>4, <2>5
<1> QED
  BY <1>1, WatchdogInvariance, PTL DEF Spec, FirstOfConnectionMarked
=============================================================================
