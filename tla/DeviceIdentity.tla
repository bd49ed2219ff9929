--------------------------- MODULE DeviceIdentity ---------------------------
(***************************************************************************)
(* Which physical camera a configured name opens: the enumeration, the     *)
(* index it resolves to, the fingerprint calibrate records and the guard   *)
(* that compares it at every connect, across replugs that reorder the bus. *)
(*                                                                         *)
(* Abstraction.  A unit either carries the configured name or not, and has *)
(* a device path and a product (vid:pid, parsed from the path), or lacks   *)
(* them.  Opening an index under a backend other than the one that         *)
(* enumerated gives some unit of the bus: its order is not known.          *)
(* PYGRABBER enumerates and opens as DSHOW does and is not told apart.     *)
(***************************************************************************)
EXTENDS Integers, Sequences, FiniteSets, SequencesExt

CONSTANTS
  Units, Named,          \* the cameras there are, those the name matches
  PathOf, ProductOf,     \* their device path and vid:pid, or Absent
  Absent,
  Buses,                 \* the orders in which units may be plugged in
  MaxReplugs             \* bound: changes of the bus

ASSUME IdentityAssumption ==
  /\ Named \subseteq Units /\ MaxReplugs \in Nat /\ Buses \subseteq Seq(Units)
  /\ PathOf \in [Units -> (UNION {{PathOf[u] : u \in Units}, {Absent}})]

VARIABLES
  bus,           \* the units plugged in, in enumeration order
  conf,          \* the cameras[] entry
  connection,    \* the connect under way, or the connection
  calibrated,    \* the unit calibrate has opened, or Absent
  replugs

identityVars == <<bus, conf, connection, calibrated, replugs>>

Entries ==
  [ backend : {"auto", "dshow", "msmf"}, fallback : {0, 1},
    policy : {"off", "warn", "strict"},
    path : {Absent}, product : {Absent} \cup { ProductOf[u] : u \in Named } ]

NoConnection ==
  [ pc |-> "off", devices |-> {}, index |-> 0, by_name |-> FALSE, moved |-> FALSE,
    unit |-> Absent, mismatches |-> 0 ]

IdentityInit ==
  /\ bus \in Buses
  /\ conf \in Entries
  /\ connection = NoConnection
  /\ calibrated = Absent
  /\ replugs = 0

-----------------------------------------------------------------------------
(* devices_from_monikers: a unit whose name cannot be read is skipped, and *)
(* skipping never compacts the indexes.  Off Windows no unit has an        *)
(* identity; an enumeration that fails as a whole gives no devices.        *)
Identity(u, fingerprints) ==
  IF fingerprints THEN {[path |-> PathOf[u], product |-> ProductOf[u]]} ELSE {}

(* Mutant: the indexes are those of the devices that were listed.          *)
Devices_Compacted(unreadable, fingerprints) ==
  { [ index |-> Cardinality({ j \in 1 .. i : bus[j] \notin unreadable }),
      named |-> bus[i] \in Named, identity |-> Identity(bus[i], fingerprints) ] :
      i \in { j \in DOMAIN bus : bus[j] \notin unreadable } }

Devices(unreadable, fingerprints) ==
  { [ index |-> i, named |-> bus[i] \in Named, identity |-> Identity(bus[i], fingerprints) ] :
      i \in { j \in DOMAIN bus : bus[j] \notin unreadable } }

(* find_device and identity_for_name want exactly one match.               *)
NameMatches(devices) == { d \in devices : d.named }
Found(devices) == Cardinality(NameMatches(devices)) = 1
IdentityForName(devices) ==
  IF Found(devices) THEN UNION { d.identity : d \in NameMatches(devices) } ELSE {}

(* _resolve, and the same rules in run_calibration: by name under the      *)
(* backend that enumerated, else only by a pinned index.                   *)
ByName(devices) == devices # {} /\ Found(devices) /\ conf.backend \in {"auto", "dshow"}
ByIndex(devices) ==
  /\ conf.fallback # 0
  /\ devices = {} \/ (Found(devices) /\ conf.backend = "msmf")

Resolved(pc) ==
  \E unreadable \in {{}} \cup { {u} : u \in Units }, fingerprints, fails \in BOOLEAN :
    LET devices == IF fails THEN {} ELSE Devices(unreadable, fingerprints)
    IN  connection' = [ NoConnection EXCEPT
          !.pc      = IF ByName(devices) \/ ByIndex(devices) THEN pc ELSE "off",
          !.devices = devices,
          !.by_name = ByName(devices),
          !.index   = IF ByName(devices) THEN (CHOOSE d \in NameMatches(devices) : TRUE).index
                      ELSE conf.fallback ]

(* What opening the index gives: under DSHOW the unit at that place.       *)
OpensUnit(u) ==
  IF connection.by_name \/ conf.backend # "msmf"
    THEN connection.index \in DOMAIN bus /\ u = bus[connection.index]
    ELSE u \in Range(bus)

-----------------------------------------------------------------------------
(* calibrate --save: the fingerprint of what the name resolves to is       *)
(* stamped on the entry; without one the entry keeps what it had.          *)
CalibrateResolves ==
  /\ connection.pc = "off"
  /\ Resolved("calibrate")
  /\ UNCHANGED <<bus, conf, calibrated, replugs>>

CalibrateSaves ==
  /\ connection.pc = "calibrate"
  /\ LET stamps == IdentityForName(connection.devices)
     IN  \E u \in Units :
           /\ OpensUnit(u)
           /\ calibrated' = IF connection.by_name /\ ~ connection.moved /\ stamps # {}
                             THEN u ELSE Absent
           /\ LET entry == [ conf EXCEPT !.backend = IF @ = "auto" THEN "dshow" ELSE @ ]
              IN  conf' \in { [ entry EXCEPT !.path = f.path, !.product = f.product ] : f \in stamps }
                             \cup { e \in {entry} : stamps = {} }
  /\ connection' = NoConnection
  /\ UNCHANGED <<bus, replugs>>

-----------------------------------------------------------------------------
(* _connect on the run path.                                               *)
Resolve ==
  /\ connection.pc = "off"
  /\ Resolved("open")
  /\ UNCHANGED <<bus, conf, calibrated, replugs>>

(* Nothing opens; and calibrate gives up for reasons of its own too.       *)
OpenFails ==
  /\ \/ connection.pc = "calibrate"
     \/ connection.pc = "open" /\ ~ \E u \in Units : OpensUnit(u)
  /\ connection' = NoConnection
  /\ UNCHANGED <<bus, conf, calibrated, replugs>>

OpenUnit ==
  /\ connection.pc = "open"
  /\ \E u \in Units : OpensUnit(u) /\ connection' = [ connection EXCEPT !.pc = "guard", !.unit = u ]
  /\ UNCHANGED <<bus, conf, calibrated, replugs>>

(* The ladder of _guard_identity: the strongest field both sides have.     *)
Mismatch(f) ==
  IF conf.path # Absent /\ f.path # Absent THEN conf.path # f.path
  ELSE conf.product # Absent /\ f.product # Absent /\ conf.product # f.product

Pinned == conf.path # Absent \/ conf.product # Absent

Refused(actual) ==
  /\ conf.policy = "strict"
  /\ \/ actual = {} /\ conf.backend = "msmf" /\ Pinned
     \/ \E f \in actual : Mismatch(f)

GuardIdentity ==
  /\ connection.pc = "guard"
  /\ LET actual == IdentityForName(connection.devices)
     IN  connection' =
           IF Refused(actual) THEN NoConnection
           ELSE [ connection EXCEPT
                    !.pc = "running",
                    !.mismatches = IF conf.policy = "warn" /\ \E f \in actual : Mismatch(f)
                                    THEN 1 ELSE 0 ]
  /\ UNCHANGED <<bus, conf, calibrated, replugs>>

(* The stream is lost; the watchdog will connect again.                    *)
StreamLost ==
  /\ connection.pc = "running"
  /\ connection' = NoConnection
  /\ UNCHANGED <<bus, conf, calibrated, replugs>>

(* Units are plugged, pulled and reordered at any time.                    *)
Replug ==
  /\ replugs < MaxReplugs
  /\ bus' \in Buses \ {bus}
  /\ connection' = [ connection EXCEPT !.moved = TRUE ]
  /\ replugs' = replugs + 1
  /\ UNCHANGED <<conf, calibrated>>

IdentityNext ==
  \/ CalibrateResolves \/ CalibrateSaves
  \/ Resolve \/ OpenFails \/ OpenUnit \/ GuardIdentity \/ StreamLost
  \/ Replug

-----------------------------------------------------------------------------
(* _resolve, devices_from_monikers and _guard_identity end to end.  A      *)
(* connection made by name, with the bus left alone between listing it and *)
(* opening, streams a unit of that name, whatever else could not be read   *)
(* and however often the bus changed before.  When calibrate had the same  *)
(* luck and both could be identified, a unit that can be told from the     *)
(* calibrated one is refused under strict and counted under warn; so is a  *)
(* unit of another product than the one an operator pinned.                *)
Told(u) ==
  \/ calibrated # Absent /\ PathOf[calibrated] # Absent
       /\ PathOf[u] \notin {Absent, PathOf[calibrated]}
  \/ conf.path = Absent /\ conf.product # Absent
       /\ ProductOf[u] \notin {Absent, conf.product}

OpensTheNamedCamera ==
  connection.pc = "running" /\ connection.by_name /\ ~ connection.moved =>
    /\ connection.unit \in Named
    /\ Told(connection.unit) /\ IdentityForName(connection.devices) # {} =>
         \/ conf.policy = "off"
         \/ conf.policy = "warn" /\ connection.mismatches = 1
=============================================================================
