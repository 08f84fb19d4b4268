------------------------------ MODULE MissionLog ------------------------------
(***************************************************************************)
(* CommandBus.execute as its callers see it: one instant at which a        *)
(* command is answered.  CommandBus shows that the real bus, with its lock *)
(* and its crashes, behaves so (it implements CommandLedger); the modules  *)
(* of the services that call it build on this one.                         *)
(*                                                                         *)
(* One existing Mission.  What a handler makes of a command is passed in:  *)
(* the events it proposes, or none and the code of its refusal.            *)
(***************************************************************************)
EXTENDS Integers, Sequences

CONSTANT NoKey          \* idempotency_key is None

VARIABLES rows,         \* the commands of the Mission, with their results
          stream        \* its events in the order of seq

log == <<rows, stream>>
HeadSeq == Len(stream)    \* get_head_seq

Command(id, key, seq, intent) ==
    [command_id |-> id, idempotency_key |-> key, expected_seq |-> seq, intent |-> intent]
Fingerprint(cmd) == [expected_seq |-> cmd.expected_seq, intent |-> cmd.intent]

Accepted(last) == [ok |-> TRUE, last_seq |-> last, code |-> "NONE"]
Rejected(code) == [ok |-> FALSE, last_seq |-> 0, code |-> code]

Row(cmd, answer) ==
    [command_id |-> cmd.command_id, idempotency_key |-> cmd.idempotency_key,
     fingerprint |-> Fingerprint(cmd), answer |-> answer]

Known(cmd) == {row \in rows : row.command_id = cmd.command_id}
KeyOwners(cmd) == {row \in rows : /\ cmd.idempotency_key # NoKey
                                  /\ row.idempotency_key = cmd.idempotency_key
                                  /\ row.answer.ok}

(* The stored answer to a command that was sent before, under its          *)
(* command_id or its idempotency_key; DUPLICATE is an answer that is ok.   *)
StoredAnswer(cmd, owners, conflict) ==
    LET row == CHOOSE r \in owners : TRUE
    IN  IF row.fingerprint = Fingerprint(cmd) THEN row.answer ELSE Rejected(conflict)

(* Fault: expected_seq is not compared with the head.                      *)
AnswerAtAnySeq(cmd, facts, refusal) ==
    IF Known(cmd) # {} THEN StoredAnswer(cmd, Known(cmd), "COMMAND_ID_CONFLICT")
    ELSE IF KeyOwners(cmd) # {} THEN StoredAnswer(cmd, KeyOwners(cmd), "IDEMPOTENCY_CONFLICT")
    ELSE IF facts = << >> THEN Rejected(refusal)
    ELSE Accepted(HeadSeq + Len(facts))

Answer(cmd, facts, refusal) ==
    IF Known(cmd) # {} THEN StoredAnswer(cmd, Known(cmd), "COMMAND_ID_CONFLICT")
    ELSE IF KeyOwners(cmd) # {} THEN StoredAnswer(cmd, KeyOwners(cmd), "IDEMPOTENCY_CONFLICT")
    ELSE IF cmd.expected_seq # HeadSeq THEN Rejected("EXPECTED_SEQ_MISMATCH")
    ELSE IF facts = << >> THEN Rejected(refusal)
    ELSE Accepted(HeadSeq + Len(facts))

Execute(cmd, facts, refusal) ==
    IF Known(cmd) \cup KeyOwners(cmd) # {}
    THEN UNCHANGED log
    ELSE LET answer == Answer(cmd, facts, refusal)
         IN  /\ rows' = rows \cup {Row(cmd, answer)}
             /\ stream' = IF answer.ok THEN stream \o facts ELSE stream
=============================================================================
