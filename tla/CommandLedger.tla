---------------------------- MODULE CommandLedger ----------------------------
(***************************************************************************)
(* What durable_core promises to the rest of the runtime, with no lock, no *)
(* process and no failure in sight: a ledger in which every command_id is  *)
(* given at most one verdict, at one instant.  A verdict is either a       *)
(* refusal, for a reason, or it appends what the command's handler makes   *)
(* of the Mission's whole history, directly behind the event the author of *)
(* the command had seen; and an idempotency_key is spent by the first      *)
(* command applied under it.                                               *)
(*                                                                         *)
(* CommandBus implements this specification.                               *)
(***************************************************************************)
EXTENDS Integers, Sequences

CONSTANTS Missions, Envelopes, Events, NoKey, InitialState, ReducerRaised,
          Handle(_, _), Creates(_),
          Reduced(_, _)   \* Reduced(state, facts): the state after these events

VARIABLES verdicts,   \* what was decided about which command
          streams     \* the events of each Mission, with the command they belong to

ledger == <<verdicts, streams>>

Entry(id, ev) == [command_id |-> id, event |-> ev]
StateOf(stream) == Reduced(InitialState, [i \in 1..Len(stream) |-> stream[i].event])

(* No verdict yet, and the idempotency_key unspent.                        *)
Undecided(e) ==
    \A v \in verdicts :
        /\ v.command_id # e.command_id
        /\ v.applied /\ e.idempotency_key # NoKey => v.idempotency_key # e.idempotency_key

Verdict(e, applied) ==
    [command_id |-> e.command_id, idempotency_key |-> e.idempotency_key,
     mission_id |-> e.mission_id, intent |-> e.intent, applied |-> applied]

(* The reasons there can be to refuse a command.                           *)
Refusable(e) ==
    \/ Creates(e.intent) /\ e.expected_seq # 0
    \/ ~Creates(e.intent) /\ StateOf(streams[e.mission_id]) = InitialState
    \/ ~Creates(e.intent) /\ e.expected_seq # Len(streams[e.mission_id])
    \/ Handle(e.intent, StateOf(streams[e.mission_id])) \notin Seq(Events) \ {<< >>}

Refuse(e) ==
    /\ Undecided(e) /\ Refusable(e)
    /\ verdicts' = verdicts \cup {Verdict(e, FALSE)}
    /\ UNCHANGED streams

Apply(e) ==
    LET m == e.mission_id
        facts == Handle(e.intent, StateOf(streams[m]))
    IN  /\ Undecided(e) /\ ~Refusable(e)
        /\ streams' = [streams EXCEPT ![m] =
                          @ \o [i \in 1..Len(facts) |-> Entry(e.command_id, facts[i])]]
        /\ Reduced(StateOf(streams[m]), facts) # ReducerRaised
        /\ verdicts' = verdicts \cup {Verdict(e, TRUE)}

LedgerInit == verdicts = {} /\ streams = [m \in Missions |-> << >>]
LedgerNext == \E e \in Envelopes : Refuse(e) \/ Apply(e)
LedgerSpec == LedgerInit /\ [][LedgerNext]_ledger
=============================================================================
