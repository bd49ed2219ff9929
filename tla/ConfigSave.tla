----------------------------- MODULE ConfigSave -----------------------------
(***************************************************************************)
(* config.py's upsert_camera_yaml, by which a calibration stores a camera  *)
(* in the station's configuration: read and merge, validate, back up what  *)
(* is there, write a temporary file, put it in the place of the old one.   *)
(* A calibration may be killed between any two steps, and another one, of  *)
(* another camera, may be under way.                                       *)
(*                                                                         *)
(* Abstraction.  A configuration is the version of each camera's entry;    *)
(* a file that is being written is Torn.  What a power failure does to     *)
(* written but unsynchronized data is left out.                            *)
(***************************************************************************)
EXTENDS Integers, FiniteSets

CONSTANTS
  Calibrated,   \* the cameras, each with a calibration of its own
  MaxSaves,     \* bound: saves begun
  MaxSecond,    \* bound: seconds of the wall clock
  Missing,      \* no such file
  Torn          \* a file of which only a part is written

ASSUME SaveAssumption ==
  /\ MaxSaves \in Nat /\ MaxSecond \in Nat
  /\ Missing # Torn /\ { Missing, Torn } \cap [ Calibrated -> Nat ] = {}

VARIABLES
  yaml,      \* the configuration file
  backups,   \* second -> the .bak of that name
  saver,     \* what each calibration is doing
  second,    \* the wall clock
  saves,     \* saves begun so far
  ever,      \* ghost: every configuration that was in the file
  spoiled    \* ghost: two saves overlapped, or fell into one second

saveVars == <<yaml, backups, saver, second, saves, ever, spoiled>>

Empty == [ c \in Calibrated |-> 0 ]
Away  == [ at |-> "away", raw |-> Empty, existed |-> FALSE, stamp |-> 0, copy |-> Missing ]

SaveInit ==
  /\ yaml \in { Missing, Empty }
  /\ backups = [ t \in 0 .. MaxSecond |-> Missing ]
  /\ saver = [ c \in Calibrated |-> Away ]
  /\ second = 0 /\ saves = 0
  /\ ever = { yaml } \ { Missing }
  /\ spoiled = FALSE

SaverGoes(c, at) == saver' = [ saver EXCEPT ![c].at = at ]

-----------------------------------------------------------------------------
(* Mutant: the backup has one name.                                        *)
Stamp_None == 0

Stamp == second

(* The file as it is now, with this camera's entry replaced or appended;   *)
(* nothing there is no entries.  What does not validate is not written.    *)
LoadsAndMerges(c) ==
  /\ saver[c].at = "away" /\ saves < MaxSaves /\ yaml # Torn
  /\ LET raw == IF yaml = Missing THEN Empty ELSE yaml
     IN  saver' = [ saver EXCEPT ![c] =
           [ Away EXCEPT !.at = "backup", !.raw = [ raw EXCEPT ![c] = saves + 1 ],
                         !.existed = yaml # Missing, !.stamp = Stamp ] ]
  /\ saves' = saves + 1
  /\ spoiled' = ( \/ spoiled
                  \/ \E d \in Calibrated \ {c} : saver[d].at # "away"
                  \/ backups[second] # Missing )
  /\ UNCHANGED <<yaml, backups, second, ever>>

(* backup.write_bytes(path.read_bytes()): read, create, write.             *)
BackupOpens(c) ==
  /\ saver[c].at = "backup" /\ saver[c].existed
  /\ backups' = [ backups EXCEPT ![saver[c].stamp] = Torn ]
  /\ saver' = [ saver EXCEPT ![c].at = "copy", ![c].copy = yaml ]
  /\ UNCHANGED <<yaml, second, saves, ever, spoiled>>

BackupWritten(c) ==
  /\ saver[c].at = "copy"
  /\ backups' = [ backups EXCEPT ![saver[c].stamp] = saver[c].copy ]
  /\ SaverGoes(c, "write")
  /\ UNCHANGED <<yaml, second, saves, ever, spoiled>>

NothingToBackUp(c) ==
  /\ saver[c].at = "backup" /\ ~ saver[c].existed
  /\ SaverGoes(c, "write")
  /\ UNCHANGED <<yaml, backups, second, saves, ever, spoiled>>

(* The temporary file has a name nobody else uses.                         *)
TmpWritten(c) ==
  /\ saver[c].at = "write"
  /\ SaverGoes(c, "replace")
  /\ UNCHANGED <<yaml, backups, second, saves, ever, spoiled>>

Replaces(c) ==
  /\ saver[c].at = "replace"
  /\ yaml' = saver[c].raw
  /\ ever' = ever \cup { yaml' }
  /\ saver' = [ saver EXCEPT ![c] = Away ]
  /\ UNCHANGED <<backups, second, saves, spoiled>>

(* The process is killed; or a step raises, a full disk, an entry that     *)
(* does not validate, and the temporary file is removed.                   *)
SaveEndsEarly(c) ==
  /\ saver[c].at # "away"
  /\ saver' = [ saver EXCEPT ![c] = Away ]
  /\ UNCHANGED <<yaml, backups, second, saves, ever, spoiled>>

SecondPasses ==
  /\ second < MaxSecond
  /\ second' = second + 1
  /\ UNCHANGED <<yaml, backups, saver, saves, ever, spoiled>>

SaveNext ==
  \/ SecondPasses
  \/ \E c \in Calibrated :
       \/ LoadsAndMerges(c) \/ BackupOpens(c) \/ BackupWritten(c) \/ NothingToBackUp(c)
       \/ TmpWritten(c) \/ Replaces(c) \/ SaveEndsEarly(c)

-----------------------------------------------------------------------------
(* "a corrupt save can never brick the station", and "every other key in   *)
(* the file is preserved": wherever a calibration is killed, the file is   *)
(* what it was or what was to be saved, never a part of it; and as long as *)
(* saves neither overlap nor fall into one second, every configuration     *)
(* that has been in force is still in the file or in a backup, and the     *)
(* file holds all the entries of the newest one.                           *)
SavedConfigSurvives ==
  /\ yaml # Torn
  /\ ~ spoiled =>
       /\ ever \subseteq { yaml } \cup { backups[t] : t \in DOMAIN backups }
       /\ \A old \in ever, c \in Calibrated : old[c] <= yaml[c]
=============================================================================
