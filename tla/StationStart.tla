---------------------------- MODULE StationStart ----------------------------
(***************************************************************************)
(* How a station comes up and goes away again, seen from the capture       *)
(* devices: StationRunner.__init__ opens one camera after another, builds  *)
(* one runner for each of them, and on any failure gives back what it has  *)
(* opened; run() leaves the closing to each runner's source thread.  An    *)
(* embedding program, or a test, may try again in the same process.        *)
(*                                                                         *)
(* Abstraction.  The k-th camera of a lineup opens the k-th device, which  *)
(* lets itself be opened once.  A source is the camera's id and the        *)
(* instant its clock calls zero.  What else the constructor builds, sinks, *)
(* bus, deduper and seeds, is there or has failed to be.                   *)
(***************************************************************************)
EXTENDS Integers, Sequences, Functions

CONSTANTS
  Lineups,    \* sequences of camera ids: source.cameras, or those of given sources
  MaxStarts   \* bound: stations constructed

ASSUME StartAssumption == MaxStarts \in Nat /\ Lineups \subseteq Seq(STRING)

VARIABLES
  station,  \* the constructor: where it is, its lineup, sources and runners
  held,     \* device -> it is open
  stuck,    \* devices whose release has raised
  starts,   \* constructions begun
  monotonic       \* the clock, in camera openings

stationVars == <<station, held, stuck, starts, monotonic>>

Captures == UNION { DOMAIN l : l \in Lineups }
Source(id, epoch) == [ id |-> id, epoch |-> epoch ]

NoStation ==
  [ at |-> "none", given |-> FALSE, lineup |-> <<>>, epoch |-> 0, opened |-> <<>>,
    runners |-> <<>>, todo |-> 0 ]

StationInit ==
  /\ station = NoStation
  /\ held = [ k \in Captures |-> FALSE ]
  /\ stuck = {} /\ starts = 0 /\ monotonic = 0

Distinct(ids) == IsInjective(ids)
Ids == [ k \in DOMAIN station.opened |-> station.opened[k].id ]

-----------------------------------------------------------------------------
(* StationRunner.__init__.                                                 *)

(* The configuration names distinct cameras (config.py), whose clocks      *)
(* share one anchor, taken before the first device opens.                  *)
FromConfig ==
  /\ station.at = "none" /\ starts < MaxStarts
  /\ \E l \in Lineups :
       /\ Distinct(l)
       /\ station' = [ NoStation EXCEPT !.at = "open", !.lineup = l, !.epoch = monotonic ]
  /\ starts' = starts + 1
  /\ UNCHANGED <<held, stuck, monotonic>>

(* Sources given by the caller are open already, each with its own clock,  *)
(* and may carry any ids.                                                  *)
FromSources ==
  /\ station.at = "none" /\ starts < MaxStarts
  /\ \E l \in Lineups :
       /\ \A k \in DOMAIN l : ~ held[k]
       /\ station' = [ NoStation EXCEPT !.at = "opened", !.given = TRUE, !.lineup = l,
            !.opened = [ k \in DOMAIN l |-> Source(l[k], monotonic + k) ] ]
       /\ held' = [ k \in Captures |-> held[k] \/ k \in DOMAIN l ]
  /\ starts' = starts + 1
  /\ UNCHANGED <<stuck, monotonic>>

Upcoming == Len(station.opened) + 1

OpenCamera ==
  /\ station.at = "open" /\ Upcoming \in DOMAIN station.lineup /\ ~ held[Upcoming]
  /\ held' = [ held EXCEPT ![Upcoming] = TRUE ]
  /\ station' = [ station EXCEPT
       !.opened = Append(@, Source(station.lineup[Upcoming], station.epoch)),
       !.at = IF Upcoming = Len(station.lineup) THEN "opened" ELSE "open" ]
  /\ monotonic' = monotonic + 1
  /\ UNCHANGED <<stuck, starts>>

(* The except branch: every source in the list is to be closed.            *)
Undo == station' = [ station EXCEPT !.at = "undo", !.todo = 1 ]

(* create_source() raises, the camera is absent, refused or busy; a        *)
(* CameraSource that raises has let go of its own device.                  *)
CameraFails ==
  /\ station.at = "open"
  /\ Undo
  /\ UNCHANGED <<held, stuck, starts, monotonic>>

(* Two sources with one id; or a sink, the seeds or a runner cannot be     *)
(* built; or Ctrl-C, whose handler is installed later.                     *)
AssemblyFails ==
  /\ station.at = "opened"
  /\ Undo
  /\ UNCHANGED <<held, stuck, starts, monotonic>>

(* A dictionary of runners: the last source of an id is the one it keeps.  *)
RunnersOf(ids) ==
  [ id \in Range(ids) |-> CHOOSE k \in DOMAIN ids :
      ids[k] = id /\ \A j \in DOMAIN ids : ids[j] = id => j <= k ]

Assembled ==
  /\ station.at = "opened" /\ Distinct(Ids)
  /\ station' = [ station EXCEPT !.at = "built", !.runners = RunnersOf(Ids) ]
  /\ UNCHANGED <<held, stuck, starts, monotonic>>

-----------------------------------------------------------------------------
(* Closing what was opened.                                                *)

Lets(k, freed) ==
  /\ held' = [ held EXCEPT ![k] = ~ freed ]
  /\ stuck' = IF freed THEN stuck ELSE stuck \cup {k}

(* Mutant: a close that raises ends the loop.                              *)
CloseOpened_StopsAtError ==
  /\ station.at = "undo" /\ station.todo <= Len(station.opened)
  /\ \E freed \in BOOLEAN :
       /\ Lets(station.todo, freed)
       /\ station' = [ station EXCEPT !.todo = IF freed THEN @ + 1 ELSE Len(station.opened) + 1 ]
  /\ UNCHANGED <<starts, monotonic>>

(* An exception of a close is logged, the next source is next.             *)
CloseOpened ==
  /\ station.at = "undo" /\ station.todo <= Len(station.opened)
  /\ \E freed \in BOOLEAN : Lets(station.todo, freed)
  /\ station' = [ station EXCEPT !.todo = @ + 1 ]
  /\ UNCHANGED <<starts, monotonic>>

(* The exception goes on to the caller.                                    *)
Raised ==
  /\ station.at = "undo" /\ station.todo > Len(station.opened)
  /\ station' = NoStation
  /\ UNCHANGED <<held, stuck, starts, monotonic>>

(* run(): the source thread of a runner closes its source when it ends.    *)
RunnerEnds ==
  /\ station.at = "built"
  /\ \E id \in DOMAIN station.runners, freed \in BOOLEAN :
       /\ Lets(station.runners[id], freed)
       /\ station' = [ station EXCEPT !.runners = Restrict(@, DOMAIN @ \ {id}) ]
  /\ UNCHANGED <<starts, monotonic>>

RunReturns ==
  /\ station.at = "built" /\ DOMAIN station.runners = {}
  /\ station' = NoStation
  /\ UNCHANGED <<held, stuck, starts, monotonic>>

(* The process ends: as every failed command does, with a station that was *)
(* built and never run too when the dashboard does not come up.            *)
ProcessExits ==
  /\ station.at \in {"none", "built"}
  /\ station' = NoStation
  /\ held' = [ k \in Captures |-> FALSE ] /\ stuck' = {}
  /\ UNCHANGED <<starts, monotonic>>

StationNext ==
  \/ FromConfig \/ FromSources \/ OpenCamera \/ CameraFails
  \/ AssemblyFails \/ Assembled \/ CloseOpened \/ Raised
  \/ RunnerEnds \/ RunReturns \/ ProcessExits

-----------------------------------------------------------------------------
(* "a failure partway through construction must release every capture      *)
(* already opened, or an embedder/retry loop holding the exception keeps   *)
(* the devices locked with no close path".  Of the devices that are open,  *)
(* each is in the list a constructor will still undo, or is driven by a    *)
(* runner whose source thread will close it, or its release has raised;    *)
(* and the cameras of a configured station tell one time, so that the      *)
(* deduper may compare their stamps.                                       *)
Owned(k) ==
  \/ k \in stuck
  \/ station.at \in {"open", "opened"} /\ k \in DOMAIN station.opened
  \/ station.at = "undo" /\ k \in station.todo .. Len(station.opened)
  \/ station.at = "built" /\ k \in Range(station.runners)

EveryCaptureHasAnOwner ==
  /\ \A k \in Captures : held[k] => Owned(k)
  /\ station.at = "built" /\ ~ station.given =>
       \A j, k \in DOMAIN station.opened : station.opened[j].epoch = station.opened[k].epoch
=============================================================================
