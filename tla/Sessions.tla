-------------------------------- MODULE Sessions --------------------------------
(***************************************************************************)
(* Operator sessions of the dashboard.  A session is a reporting window    *)
(* over the pipeline that never stops: it is opened with an expected       *)
(* count, and closing it stores what was counted between its two stamps.   *)
(* Requests run in any number of dashboard processes beside the pipeline   *)
(* that stores events; all they share is the SQLite file.  A statement, or *)
(* a transaction, is one step.                                             *)
(*                                                                         *)
(* Abstraction.  A desk is a dashboard process with the request it is      *)
(* serving.  An event carries the wall clock of the moment the pallet      *)
(* passed and is stored some time after it: a miss waits for its           *)
(* post-roll, any event for the bus.  Its cameras, decode counts and       *)
(* timings, which the summary also lists, are left out, and so are the     *)
(* operator's review marks, which no count reads.  The wall clock does not *)
(* step back while sessions are open.                                      *)
(***************************************************************************)
EXTENDS Integers, Sequences, FiniteSets

CONSTANTS
  Desks,
  Payloads,
  Expected,        \* the counts an operator may enter, at least 1
  MaxEvents,       \* bound: pallets that pass
  MaxSessions,     \* bound: sessions started
  MaxClock         \* bound on the wall clock

ASSUME SessionsAssumption ==
  /\ Expected \subseteq Nat \ {0}
  /\ MaxEvents \in Nat /\ MaxSessions \in Nat /\ MaxClock \in Nat

VARIABLES
  clock,
  underway,        \* events that happened and are not stored yet
  rows,            \* the events table
  manifest,        \* the uploaded payloads
  sessions,        \* the sessions table; the id is the position
  desk             \* the close request each desk serves

sessionVars == <<clock, underway, rows, manifest, sessions, desk>>

None == 0
AtRest == [pc |-> "idle"]

SessionsInit ==
  /\ clock = 1
  /\ underway = {} /\ rows = {} /\ manifest = {}
  /\ sessions = <<>>
  /\ desk = [ d \in Desks |-> AtRest ]

-----------------------------------------------------------------------------
(* The pipeline, as the store sees it.                                     *)

Tick ==
  /\ clock < MaxClock
  /\ clock' = clock + 1
  /\ UNCHANGED <<underway, rows, manifest, sessions, desk>>

(* A pallet passes; {} is a miss, {p} a pass of payload p.                 *)
Happens(read) ==
  /\ Cardinality(underway \cup rows) < MaxEvents
  /\ underway' = underway \cup
       { [ id |-> Cardinality(underway \cup rows) + 1, stamp |-> clock, read |-> read ] }
  /\ UNCHANGED <<clock, rows, manifest, sessions, desk>>

Stored(e) ==
  /\ underway' = underway \ {e}
  /\ rows' = rows \cup {e}
  /\ UNCHANGED <<clock, manifest, sessions, desk>>

-----------------------------------------------------------------------------
(* Requests of one statement.                                              *)

OpenIds == { s \in DOMAIN sessions : sessions[s].status = "open" }

MayStart == OpenIds = {}

(* open_session: BEGIN IMMEDIATE makes check and insert one step.          *)
Start(expected) ==
  /\ Len(sessions) < MaxSessions
  /\ MayStart
  /\ sessions' = Append(sessions,
       [ status |-> "open", expected |-> expected, started |-> clock, closed |-> None,
         note |-> FALSE, decoded |-> None, missed |-> None, matched |-> {}, known |-> {} ])
  /\ UNCHANGED <<clock, underway, rows, manifest, desk>>

Upload(payloads) ==
  /\ manifest' = payloads
  /\ UNCHANGED <<clock, underway, rows, sessions, desk>>

-----------------------------------------------------------------------------
(* session_close: four reads and one write, other requests in between.     *)

InWindow(e, from, to) == from <= e.stamp /\ e.stamp <= to

Decoded(from, to) == { e \in rows : e.read # {} /\ InWindow(e, from, to) }
Missed(from, to)  == { e \in rows : e.read = {} /\ InWindow(e, from, to) }

(* reconcile: the expected payloads that were scanned.                     *)
Matched(expected, scanned) == { p \in expected : \E e \in scanned : p \in e.read }

Unchanged == UNCHANGED <<clock, underway, rows, manifest>>

(* The current session, and the one stamp that ends its window.            *)
CloseBegins(d) ==
  /\ desk[d] = AtRest /\ OpenIds # {}
  /\ LET id == CHOOSE s \in OpenIds : \A t \in OpenIds : t <= s
     IN  desk' = [ desk EXCEPT ![d] =
           [ pc |-> "count", id |-> id, from |-> sessions[id].started, to |-> clock,
             expected |-> sessions[id].expected, known |-> rows ] ]
  /\ UNCHANGED sessions /\ Unchanged

(* Mutant: counted to the present, as the live view does.                  *)
CloseCounts_Live(d) ==
  /\ desk[d].pc = "count"
  /\ desk' = [ desk EXCEPT ![d] =
       [ pc |-> "manifest", id |-> @.id, from |-> @.from, to |-> @.to,
         expected |-> @.expected, known |-> @.known,
         decoded |-> Cardinality(Decoded(@.from, clock)),
         missed  |-> Cardinality(Missed(@.from, clock)) ] ]
  /\ UNCHANGED sessions /\ Unchanged

(* _session_counts: what the window holds so far.                          *)
CloseCounts(d) ==
  /\ desk[d].pc = "count"
  /\ desk' = [ desk EXCEPT ![d] =
       [ pc |-> "manifest", id |-> @.id, from |-> @.from, to |-> @.to,
         expected |-> @.expected, known |-> @.known,
         decoded |-> Cardinality(Decoded(@.from, @.to)),
         missed  |-> Cardinality(Missed(@.from, @.to)) ] ]
  /\ UNCHANGED sessions /\ Unchanged

ReadManifest(d) ==
  /\ desk[d].pc = "manifest"
  /\ desk' = [ desk EXCEPT ![d] =
       [ pc |-> "match", id |-> @.id, from |-> @.from, to |-> @.to,
         expected |-> @.expected, known |-> @.known,
         decoded |-> @.decoded, missed |-> @.missed, manifest |-> manifest ] ]
  /\ UNCHANGED sessions /\ Unchanged

(* A count that does not match needs the operator's note.                  *)
MayClose(r, note) == note \/ r.decoded + r.missed = r.expected

(* The rows are read once more for the manifest; then the request goes on  *)
(* to write or is refused; the note of the request is not looked at before *)
(* that.                                                                   *)
CloseMatches(d, note) ==
  /\ desk[d].pc = "match"
  /\ desk' = [ desk EXCEPT ![d] =
       IF MayClose(@, note)
       THEN [ pc |-> "write", id |-> @.id, to |-> @.to, note |-> note, known |-> @.known,
              decoded |-> @.decoded, missed |-> @.missed,
              matched |-> Matched(@.manifest, Decoded(@.from, @.to)) ]
       ELSE AtRest ]
  /\ UNCHANGED sessions /\ Unchanged

(* Mutant: the UPDATE names the session but not its status.                *)
StillOpen_AnyStatus(id) == TRUE

StillOpen(id) == sessions[id].status = "open"

(* close_session; a session somebody else has closed is a conflict.        *)
CloseWrites(d) ==
  /\ desk[d].pc = "write"
  /\ LET r == desk[d]
     IN  sessions' =
           IF StillOpen(r.id)
           THEN [ sessions EXCEPT ![r.id] =
                    [ @ EXCEPT !.status = "closed", !.closed = r.to, !.note = r.note,
                               !.decoded = r.decoded, !.missed = r.missed,
                               !.matched = r.matched, !.known = r.known ] ]
           ELSE sessions
  /\ desk' = [desk EXCEPT ![d] = AtRest]
  /\ Unchanged

Pipeline == Tick \/ (\E read \in { {p} : p \in Payloads } \cup {{}} : Happens(read))
                 \/ (\E e \in underway : Stored(e))

Requests ==
  \/ \E expected \in Expected : Start(expected)
  \/ \E payloads \in SUBSET Payloads \ {{}} : Upload(payloads)
  \/ \E d \in Desks :
       \/ CloseBegins(d) \/ CloseCounts(d) \/ ReadManifest(d)
       \/ \E note \in BOOLEAN : CloseMatches(d, note)
       \/ CloseWrites(d)

SessionsNext == Pipeline \/ Requests

-----------------------------------------------------------------------------
Closed(s) == sessions[s].status = "closed"

(* close_session's WHERE clause: whoever closes a session first has closed *)
(* it; a request that read the session as open and was overtaken by        *)
(* another close, or by a close and a new start, changes nothing.          *)
ClosedIsFinal ==
  [][ \A s \in DOMAIN sessions : Closed(s) => sessions'[s] = sessions[s] ]_sessionVars

(* _session_summary: the stored counts are those of the stored window -    *)
(* nothing outside it, and all of it that was stored when the close began, *)
(* whatever is stored while the request runs - and counts that are not the *)
(* expected ones were acknowledged.                                        *)
SummarizesItsWindow(s) ==
  LET passed == Decoded(s.started, s.closed)
      lost   == Missed(s.started, s.closed)
  IN  /\ s.decoded \in Cardinality(passed \cap s.known) .. Cardinality(passed)
      /\ s.missed \in Cardinality(lost \cap s.known) .. Cardinality(lost)
      /\ s.decoded + s.missed # s.expected => s.note
      /\ s.matched = Matched(s.matched, passed)

(* And no pallet is in two summaries: the windows of two sessions share at *)
(* most an instant (open_session, and the one close stamp).                *)
SummaryIsSound ==
  /\ \A s \in DOMAIN sessions : Closed(s) => SummarizesItsWindow(sessions[s])
  /\ \A s, t \in DOMAIN sessions : s < t => Closed(s) /\ sessions[s].closed <= sessions[t].started
=============================================================================
