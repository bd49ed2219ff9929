-------------------------------- MODULE Watchdog --------------------------------
(***************************************************************************)
(* WatchdogSource around a CameraSource: a reader thread per connection    *)
(* feeds a small handoff queue; the consumer (the source thread, inside    *)
(* frames()) yields what it finds there and, when the reader fails, ends   *)
(* or falls silent, tears the connection down and builds a new one.        *)
(* close() may come from another thread at any moment.                     *)
(*                                                                         *)
(* A reader can be stuck in the driver for as long as it likes, also after *)
(* its device was released; it is then abandoned as a zombie and may wake  *)
(* up in the middle of a later connection.                                 *)
(*                                                                         *)
(* Abstraction.  A frame is the connection it was read from.  Connections  *)
(* are numbered in the order in which they were opened, 0 is none.  The    *)
(* outage clock counts waits: a stall timeout or a backoff takes one unit. *)
(* yielded and tries are history: the last frame yielded, and the reopen   *)
(* attempts since.                                                         *)
(***************************************************************************)
EXTENDS Integers, Sequences, FiniteSets

CONSTANTS
  HandoffSize,    \* _HANDOFF_MAXSIZE
  MaxZombies,     \* watchdog.max_zombie_readers
  MaxOutage,      \* watchdog.max_outage_s, in waits
  MaxConns        \* bound: the device can be opened this many times

ASSUME WatchdogAssumption ==
  /\ HandoffSize \in Nat \ {0}
  /\ MaxZombies \in Nat \ {0}
  /\ MaxOutage \in Nat
  /\ MaxConns \in Nat \ {0}

NoCap == 0
Conns == 1 .. MaxConns
Gens  == 0 .. MaxConns - 1        \* every generation after 0 has reopened
Closers == {"stop", "source"}     \* runner.stop(), and the source thread at its end

VARIABLES
  cap, closed,       \* CameraSource._cap (as a connection), ._closed
  conns,             \* connections opened so far
  gen,               \* WatchdogSource._gen
  reader,            \* generation -> where that reader thread is, and its capture
  current,           \* WatchdogSource._reader, as a set of at most one generation
  handoff,           \* the queue between reader and consumer
  consumer,          \* where the consumer is
  pending,           \* _pending_discontinuity
  zombies,           \* zombie_readers
  outage,            \* waits since _outage_start, or NoOutage
  stop,              \* _stop
  closer,            \* where each caller of close() is
  yielded, tries

NoOutage == -1

cameraVars   == <<cap, closed, conns>>
readerVars   == <<gen, reader, current>>
countVars    == <<zombies, outage, tries>>
closeVars    == <<stop, closer>>
vars == <<cameraVars, readerVars, handoff, consumer, pending, countVars,
          closeVars, yielded>>

Message(kind, g, c) == [ kind |-> kind, gen |-> g, conn |-> c ]

(* _spawn_reader; the generator binds the capture when it first runs.      *)
Spawned(g) == [ reader EXCEPT ![g] = [ at |-> "start", cap |-> NoCap ] ]

Init ==
  /\ cap = 1 /\ closed = FALSE /\ conns = 1
  /\ gen = 0 /\ current = {0}
  /\ reader = [ g \in Gens |-> [ at |-> IF g = 0 THEN "start" ELSE "none", cap |-> NoCap ] ]
  /\ handoff = <<>>
  /\ consumer = "top"
  /\ pending = FALSE
  /\ zombies = 0 /\ outage = NoOutage /\ tries = 0
  /\ stop = FALSE
  /\ closer = [ c \in Closers |-> "idle" ]
  /\ yielded = [ conn |-> 1, mark |-> FALSE ]

-----------------------------------------------------------------------------
(* The reader threads: CameraSource.frames() inside _read_loop.            *)

ReaderGoes(g, at) == reader' = [ reader EXCEPT ![g].at = at ]

ReaderOnly == UNCHANGED <<cameraVars, gen, current, consumer, pending, countVars,
                          closeVars, yielded>>

Bind(g) ==
  /\ reader[g].at = "start"
  /\ reader' = [ reader EXCEPT ![g] =
                   [ at |-> IF cap = NoCap THEN "error" ELSE "read", cap |-> cap ] ]
  /\ UNCHANGED handoff /\ ReaderOnly

(* A read returns.  Whatever it brings, a reader whose source was closed   *)
(* or reconnected behind its back ends.                                    *)
ReadReturns(g) ==
  /\ reader[g].at = "read"
  /\ IF closed \/ cap # reader[g].cap THEN ReaderGoes(g, "end")
     ELSE ReaderGoes(g, "frame") \/ ReaderGoes(g, "error")
  /\ UNCHANGED handoff /\ ReaderOnly

CheckFrame(g) ==
  /\ reader[g].at = "frame"
  /\ ReaderGoes(g, IF stop \/ g # gen THEN "gone" ELSE "put")
  /\ UNCHANGED handoff /\ ReaderOnly

PutFrame(g) ==
  /\ reader[g].at = "put" /\ Len(handoff) < HandoffSize
  /\ handoff' = Append(handoff, Message("frame", g, reader[g].cap))
  /\ ReaderGoes(g, "read") /\ ReaderOnly

(* _put_marker: a marker that finds no room in time is dropped.            *)
PutMarker(g) ==
  /\ reader[g].at \in {"end", "error"}
  /\ IF Len(handoff) < HandoffSize
     THEN handoff' = Append(handoff, Message(reader[g].at, g, NoCap))
     ELSE UNCHANGED handoff
  /\ ReaderGoes(g, "gone") /\ ReaderOnly

ReaderStep(g) == Bind(g) \/ CheckFrame(g) \/ PutFrame(g) \/ PutMarker(g)

-----------------------------------------------------------------------------
(* The consumer, inside frames().                                          *)

Goes(at) == consumer' = at

Waits == outage' = IF outage = NoOutage THEN NoOutage ELSE outage + 1

Top ==
  /\ consumer = "top"
  /\ Goes(IF stop THEN "ended" ELSE "get")
  /\ UNCHANGED <<cameraVars, readerVars, handoff, pending, countVars, closeVars, yielded>>

(* Mutant: the generation of a message is not looked at.                   *)
Stale_Never(message) == FALSE

Stale(message) == message.gen # gen

(* Mutant: the mark stays pending after it was handed on.                  *)
Yield_MarksAll(conn) ==
  /\ yielded' = [ conn |-> conn, mark |-> pending ]
  /\ UNCHANGED pending
  /\ outage' = NoOutage /\ tries' = 0
  /\ Goes("yielded")

Yield(conn) ==
  /\ yielded' = [ conn |-> conn, mark |-> pending ]
  /\ pending' = FALSE
  /\ outage' = NoOutage /\ tries' = 0
  /\ Goes("yielded")

Get ==
  /\ consumer = "get" /\ handoff # <<>>
  /\ handoff' = Tail(handoff)
  /\ LET message == Head(handoff)
     IN  \/ /\ Stale(message)
            /\ Goes("top")
            /\ UNCHANGED <<pending, outage, tries, yielded>>
         \/ /\ ~ Stale(message) /\ stop
            /\ Goes("ended")
            /\ UNCHANGED <<pending, outage, tries, yielded>>
         \/ /\ ~ Stale(message) /\ ~ stop /\ message.kind = "frame"
            /\ Yield(message.conn)
         \/ /\ ~ Stale(message) /\ ~ stop /\ message.kind # "frame"
            /\ Goes("recover")
            /\ UNCHANGED <<pending, outage, tries, yielded>>
  /\ UNCHANGED <<cameraVars, readerVars, zombies, closeVars>>

(* Nothing came within stall_timeout_s.                                    *)
Stall ==
  /\ consumer = "get" /\ handoff = <<>>
  /\ Waits
  /\ Goes("recover")
  /\ UNCHANGED <<cameraVars, readerVars, handoff, pending, zombies, tries, closeVars, yielded>>

(* The source thread comes back for more, or leaves its loop.              *)
Resume ==
  /\ consumer = "yielded"
  /\ Goes("top") \/ (stop /\ Goes("ended"))
  /\ UNCHANGED <<cameraVars, readerVars, handoff, pending, countVars, closeVars, yielded>>

(* CameraSource.close.                                                     *)
CloseCamera == closed' = TRUE /\ cap' = NoCap /\ UNCHANGED conns

Recover ==
  /\ consumer = "recover"
  /\ outage' = IF outage = NoOutage THEN 0 ELSE outage
  /\ CloseCamera
  /\ Goes("reap")
  /\ UNCHANGED <<readerVars, handoff, pending, zombies, tries, closeVars, yielded>>

ReapDrain ==
  /\ consumer = "reap" /\ handoff # <<>>
  /\ handoff' = <<>>
  /\ UNCHANGED <<cameraVars, readerVars, consumer, pending, countVars, closeVars, yielded>>

(* The reader ended, or is abandoned as one zombie more.                   *)
Reaped(alive) ==
  IF alive THEN /\ zombies' = zombies + 1
                /\ Goes(IF zombies + 1 > MaxZombies THEN "escalated" ELSE "retry")
  ELSE UNCHANGED zombies /\ Goes("retry")

(* Only a reader stuck in a read outlasts the drained join.                *)
Reap ==
  /\ consumer = "reap"
  /\ \A g \in current : reader[g].at \in {"read", "gone"}
  /\ current' = {}
  /\ Reaped(\E g \in current : reader[g].at = "read")
  /\ UNCHANGED <<cameraVars, gen, reader, handoff, pending, outage, tries, closeVars, yielded>>

OutageTooLong == outage # NoOutage /\ outage > MaxOutage

Retry ==
  /\ consumer = "retry"
  /\ Goes(IF stop THEN "top" ELSE IF OutageTooLong THEN "escalated" ELSE "sleep")
  /\ UNCHANGED <<cameraVars, readerVars, handoff, pending, countVars, closeVars, yielded>>

Sleep ==
  /\ consumer = "sleep"
  /\ IF stop THEN Goes("top") /\ UNCHANGED outage ELSE Waits /\ Goes("slept")
  /\ UNCHANGED <<cameraVars, readerVars, handoff, pending, zombies, tries, closeVars, yielded>>

(* The backoff is over; the first half of CameraSource.reopen.             *)
Reopen ==
  /\ consumer = "slept"
  /\ IF OutageTooLong THEN Goes("escalated") /\ UNCHANGED <<cap, closed, tries>>
     ELSE /\ Goes("connect")
          /\ cap' = NoCap /\ closed' = FALSE
          /\ tries' = tries + 1
  /\ UNCHANGED <<conns, readerVars, handoff, pending, zombies, outage, closeVars, yielded>>

(* _connect publishes the capture before it talks to the device.           *)
Publish ==
  /\ consumer = "connect" /\ ~ closed /\ conns < MaxConns
  /\ conns' = conns + 1 /\ cap' = conns + 1
  /\ Goes("set up")
  /\ UNCHANGED <<closed, readerVars, handoff, pending, countVars, closeVars, yielded>>

(* The device is not there, was closed meanwhile, or fails while it is set *)
(* up; in the last case the capture stays published.                       *)
ConnectFails ==
  /\ consumer \in {"connect", "set up"}
  /\ Goes("retry")
  /\ UNCHANGED <<cameraVars, readerVars, handoff, pending, countVars, closeVars, yielded>>

Connected ==
  /\ consumer = "set up"
  /\ Goes("opened")
  /\ UNCHANGED <<cameraVars, readerVars, handoff, pending, countVars, closeVars, yielded>>

(* close() raced the reopen, or the new generation begins.                 *)
Opened ==
  /\ consumer = "opened"
  /\ IF stop THEN CloseCamera /\ Goes("top") /\ UNCHANGED gen
     ELSE Goes("spawn") /\ gen' = gen + 1 /\ UNCHANGED cameraVars
  /\ UNCHANGED <<reader, current, handoff, pending, countVars, closeVars, yielded>>

(* Mutant: a reopen that succeeds ends the outage, before any frame came.  *)
Spawn_EndsOutage ==
  /\ consumer = "spawn"
  /\ handoff' = <<>>
  /\ reader' = Spawned(gen) /\ current' = {gen}
  /\ pending' = TRUE
  /\ outage' = NoOutage
  /\ Goes("top")
  /\ UNCHANGED <<cameraVars, gen, zombies, tries, closeVars, yielded>>

Spawn ==
  /\ consumer = "spawn"
  /\ handoff' = <<>>
  /\ reader' = Spawned(gen) /\ current' = {gen}
  /\ pending' = TRUE
  /\ Goes("top")
  /\ UNCHANGED <<cameraVars, gen, countVars, closeVars, yielded>>

Over == consumer \in {"ended", "escalated"}

-----------------------------------------------------------------------------
(* close(): statement by statement, by whoever calls it.                   *)

CloserGoes(c, at) == closer' = [ closer EXCEPT ![c] = at ]

(* Mutant: a second close() returns at once.                               *)
BeginClose_OnlyOnce(c) ==
  /\ closer[c] = "idle"
  /\ c = "source" => Over
  /\ stop' = TRUE
  /\ CloserGoes(c, IF stop THEN "done" ELSE "release")
  /\ UNCHANGED <<cameraVars, readerVars, handoff, consumer, pending, countVars, yielded>>

BeginClose(c) ==
  /\ closer[c] = "idle"
  /\ c = "source" => Over
  /\ stop' = TRUE
  /\ CloserGoes(c, "release")
  /\ UNCHANGED <<cameraVars, readerVars, handoff, consumer, pending, countVars, yielded>>

Release(c) ==
  /\ closer[c] = "release"
  /\ CloseCamera
  /\ CloserGoes(c, "drain")
  /\ UNCHANGED <<readerVars, handoff, consumer, pending, countVars, stop, yielded>>

Drain(c) ==
  /\ closer[c] = "drain"
  /\ handoff' = <<>>
  /\ CloserGoes(c, "wake")
  /\ UNCHANGED <<cameraVars, readerVars, consumer, pending, countVars, stop, yielded>>

Wake(c) ==
  /\ closer[c] = "wake"
  /\ handoff' = IF Len(handoff) < HandoffSize
                THEN Append(handoff, Message("stop", gen, NoCap)) ELSE handoff
  /\ CloserGoes(c, "done")
  /\ UNCHANGED <<cameraVars, readerVars, consumer, pending, countVars, stop, yielded>>

CloserStep(c) == Release(c) \/ Drain(c) \/ Wake(c)

-----------------------------------------------------------------------------
ConsumerStep ==
  \/ Top \/ Get \/ Resume
  \/ Recover \/ ReapDrain \/ Reap \/ Retry \/ Sleep \/ Reopen
  \/ Publish \/ ConnectFails \/ Connected \/ Opened \/ Spawn

AllClosed == Over /\ closer["source"] = "done" /\ closer["stop"] \in {"idle", "done"}

Done == AllClosed /\ UNCHANGED vars

Next ==
  \/ \E g \in Gens : ReaderStep(g) \/ ReadReturns(g)
  \/ ConsumerStep \/ Stall
  \/ \E c \in Closers : BeginClose(c) \/ CloserStep(c)
  \/ Done

(* Threads run and device calls of a connect return; a read need not, and  *)
(* no property may wait for the stall timeout.                             *)
Fairness ==
  /\ \A g \in Gens : WF_vars(ReaderStep(g))
  /\ WF_vars(ConsumerStep)
  /\ \A c \in Closers : WF_vars(CloserStep(c))
  /\ WF_vars(BeginClose("source"))

Spec == Init /\ [][Next]_vars /\ Fairness

-----------------------------------------------------------------------------
TypeOK ==
  /\ cap \in Conns \cup {NoCap} /\ closed \in BOOLEAN /\ conns \in Conns
  /\ gen \in Gens /\ current \in SUBSET Gens
  /\ reader \in [ Gens -> [ at : {"none", "start", "read", "frame", "put", "end", "error", "gone"},
                            cap : Conns \cup {NoCap} ] ]
  /\ handoff \in Seq([ kind : {"frame", "end", "error", "stop"}, gen : Gens,
                       conn : Conns \cup {NoCap} ])
  /\ Len(handoff) <= HandoffSize
  /\ consumer \in {"top", "get", "yielded", "recover", "reap", "retry", "sleep", "slept",
                   "connect", "set up", "opened", "spawn", "ended", "escalated"}
  /\ pending \in BOOLEAN /\ stop \in BOOLEAN
  /\ zombies \in 0 .. MaxZombies + 1
  /\ outage \in NoOutage .. MaxOutage + 1 /\ tries \in Nat
  /\ closer \in [ Closers -> {"idle", "release", "drain", "wake", "done"} ]
  /\ yielded \in [ conn : Conns, mark : BOOLEAN ]

(* The generation counter against zombies, and the discontinuity mark:     *)
(* frames are yielded connection by connection, and exactly the first one  *)
(* of a connection other than the last one's is marked.                    *)
FirstOfConnectionMarked ==
  [][ consumer # "yielded" /\ consumer' = "yielded" =>
        /\ yielded'.conn >= yielded.conn
        /\ yielded'.mark <=> yielded'.conn # yielded.conn ]_vars

(* _outage_start survives a reopen that brings no frame: a device that     *)
(* keeps opening and never delivers does not stretch the outage.           *)
OutageIsBounded == tries <= MaxOutage

(* "A zombie can never poison the stream": a message makes the consumer    *)
(* tear the connection down only if the reader of that connection ended.   *)
ZombiesCannotPoison ==
  [][ consumer = "get" /\ consumer' = "recover" /\ handoff # <<>> =>
        reader[gen].at = "gone" ]_vars

(* close() interrupts the stall wait, the backoff and the retry loop, and  *)
(* leaves no reader blocked on the handoff: the consumer ends, and each    *)
(* reader thread is gone or stuck in the driver.  And whatever it raced, a *)
(* reopen or a connect that fails half way after it, the device is free in *)
(* the end: that depends on every caller of close() going through with it, *)
(* the second one too.                                                     *)
StopEndsEverything ==
  stop ~> /\ AllClosed /\ cap = NoCap
          /\ \A g \in Gens : reader[g].at \in {"none", "gone", "read"}
=============================================================================
