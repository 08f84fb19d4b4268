-------------------------- MODULE ProjectionRecovery --------------------------
(***************************************************************************)
(* r1_5/recovery.py, operation REBUILD_PROJECTIONS, running beside callers *)
(* of the bus: verify the projection of a Mission, rebuild it from the     *)
(* events if it drifted, and verify again.                                 *)
(*                                                                         *)
(* verify_projection has no transaction.  It reads the events with one     *)
(* statement and the projection with later ones, and a command may be      *)
(* committed in between.  (The projection's own statements are taken as    *)
(* one here; they are as loosely coupled to each other.)                   *)
(*                                                                         *)
(* Damage is external: a projection row that something other than the      *)
(* runtime changed or lost, or that an older set of Extensions wrote.      *)
(***************************************************************************)
EXTENDS CommandBus

CONSTANTS MaxDamage,   \* how often a projection is damaged from outside
          NoMission,   \* recovery is not running
          States,      \* the states that replays can lead to
          Damaged      \* a state that is the replay of no stream

ASSUME RecoveryAssumption ==
    /\ MaxDamage \in Nat /\ NoMission \notin Missions
    /\ InitialState \in States /\ Damaged \notin States
    /\ \A s \in States : \A ev \in Events : Reduce(s, ev) \in States

VARIABLES
    step,       \* where recover() is
    target,     \* the Mission it works on
    replayed,   \* what its last verification replayed
    damages,    \* how often a projection was damaged so far
    damaged,    \* Missions whose projection is damaged
    seen        \* what was true of the target since its verification began

(* damaged and seen are history: no code reads them.                       *)
recovery == <<step, target, replayed, damages, damaged, seen>>
allVars  == <<vars, recovery>>

Current(m) == [seq |-> HeadSeq(m), state |-> Replay(m)]
Drifted(m) == projection[m] # Current(m)
Condition(m) == IF m = NoMission THEN {} ELSE IF Drifted(m) THEN {"drift"} ELSE {"agreement"}

Answers == {"NOT_NEEDED", "APPLIED", "RAISED"}
Steps == {"idle", "verify", "compare", "rebuild", "verify_again", "compare_again"} \cup Answers
Nothing == [seq |-> 0, state |-> InitialState]

RecoveryInit ==
    /\ Init
    /\ step = "idle" /\ target = NoMission /\ replayed = Nothing
    /\ damages = 0 /\ damaged = {} /\ seen = {}

Damage(m) ==
    /\ damages < MaxDamage /\ HeadSeq(m) > 0
    /\ damages' = damages + 1
    /\ damaged' = damaged \cup {m}
    /\ projection' = [projection EXCEPT ![m].state = Damaged]
    /\ UNCHANGED <<commands, events, lock, calls, step, target, replayed>>
    /\ seen' = seen \cup Condition(target)'

Recover(m) ==
    /\ step = "idle"
    /\ step' = "verify" /\ target' = m
    /\ UNCHANGED <<vars, replayed, damages, damaged, seen>>

(* verify_projection, first statement: list_events, folded.                *)
ReadEvents ==
    /\ \/ step = "verify" /\ step' = "compare"
       \/ step = "verify_again" /\ step' = "compare_again"
    /\ replayed' = Current(target)
    /\ seen' = Condition(target)
    /\ UNCHANGED <<vars, target, damages, damaged>>

(* Fault: only the head of the projection is compared.                     *)
AgreesOnSeq == replayed.state # InitialState /\ projection[target].seq = replayed.seq

(* A Mission without events has no projection and counts as drifted too.   *)
Agrees == replayed.state # InitialState /\ projection[target] = replayed

(* verify_projection, the rest: projection_state and the comparison.       *)
Compare ==
    /\ \/ step = "compare" /\ step' = IF Agrees THEN "NOT_NEEDED" ELSE "rebuild"
       \/ step = "compare_again" /\ step' = IF Agrees THEN "APPLIED" ELSE "RAISED"
    /\ UNCHANGED <<vars, target, replayed, damages, damaged, seen>>

(* Fault: what the verification replayed is written, outside its lock.     *)
RebuildFromVerification ==
    /\ step = "rebuild" /\ lock = NoClient
    /\ step' = "verify_again"
    /\ projection' = [projection EXCEPT ![target] = replayed]
    /\ damaged' = damaged \ {target}
    /\ UNCHANGED <<commands, events, lock, calls, target, replayed, damages, seen>>

(* rebuild_projections: one BEGIN IMMEDIATE transaction.                   *)
Rebuild ==
    /\ step = "rebuild" /\ lock = NoClient
    /\ step' = "verify_again"
    /\ projection' = [projection EXCEPT ![target] = Current(target)]
    /\ damaged' = damaged \ {target}
    /\ UNCHANGED <<commands, events, lock, calls, target, replayed, damages, seen>>

(* BEGIN IMMEDIATE gives up, and recover() does not catch the error.       *)
RebuildBusy ==
    /\ step = "rebuild" /\ lock # NoClient
    /\ step' = "RAISED"
    /\ UNCHANGED <<vars, target, replayed, damages, damaged, seen>>

(* recover() returns, or its process dies, which leaves nothing behind.    *)
RecoveryEnds ==
    /\ step # "idle"
    /\ step' = "idle" /\ target' = NoMission
    /\ replayed' = Nothing /\ seen' = {}
    /\ UNCHANGED <<vars, damages, damaged>>

RecoveryStep == ReadEvents \/ Compare \/ Rebuild \/ RebuildBusy

(* The bus moves on; a commit replaces the whole projection of its Mission. *)
BusStep ==
    /\ Next
    /\ damaged' = {m \in damaged : projection'[m] = projection[m]}
    /\ UNCHANGED <<step, target, replayed, damages>>
    /\ seen' = seen \cup Condition(target)'

RecoveryNext ==
    \/ BusStep
    \/ \E m \in Missions : Damage(m) \/ Recover(m)
    \/ RecoveryStep
    \/ RecoveryEnds

RecoverySpec == RecoveryInit /\ [][RecoveryNext]_allVars

(* A call that has begun runs on: Python's control flow inside execute(),  *)
(* and SQLite's busy_timeout while it waits for the lock.  Nothing forces  *)
(* a caller to call, nor recovery to go on.                                *)
FairRecoverySpec == RecoverySpec /\ \A c \in Clients : WF_vars(Execute(c))

-----------------------------------------------------------------------------
(* A projection is wrong only where it was damaged, and every command      *)
(* applied to a Mission repairs it: _apply_projection replaces all rows,   *)
(* and no commit, rebuild or crash of recovery can leave a stale one.      *)
DriftComesFromOutside == \A m \in Missions : Drifted(m) <=> m \in damaged

(* recover() says NOT_NEEDED or APPLIED only if the projection was right   *)
(* at some instant of its last verification, torn as that may be.          *)
RecoveryIsTruthful ==
    step \in {"NOT_NEEDED", "APPLIED"} => "agreement" \in seen

(* projections.py says, when it raises, that the "composed projection      *)
(* differs from Event replay": it differed at some instant between the     *)
(* start and the end of the verification.  That is not so: a command that  *)
(* commits in between is enough (README, what the code does not keep).     *)
DriftReportsAreReal ==
    step = "rebuild" /\ replayed # Nothing => "drift" \in seen
=============================================================================
