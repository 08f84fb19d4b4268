---------------------------- MODULE QualityRecords ----------------------------
(***************************************************************************)
(* The records of the quality cycle (r4_1 to r4_8) as all its components   *)
(* see them: immutable, named by their content, and resting on records     *)
(* that came before.                                                       *)
(*                                                                         *)
(* A reference (object_id, digest) is the seq of the record it names, 0    *)
(* when there is none: records never change, so the seq tells both.  The   *)
(* cursor a reference claims is its caller's word: it is compared with the *)
(* cursor of the request, never with the record, so it decides nothing and *)
(* is left out.  "on" holds the references by their role, "data" names the *)
(* payload, "by" the authority (a gate, an actor), "outcome" what the      *)
(* caller asks for, or what the handler computed, and "as_of" the cursor   *)
(* the caller says it read at.                                             *)
(***************************************************************************)
EXTENDS Integers, Sequences

Record(kind, on, data, by, outcome, cursor) ==
    [kind |-> kind, on |-> on, data |-> data, by |-> by,
     outcome |-> outcome, as_of |-> cursor]

(* The records of a kind in the Mission, and one of them by its reference. *)
Of(s, kind) == {i \in DOMAIN s : s[i].kind = kind}
Is(s, ref, kind) == ref \in DOMAIN s /\ s[ref].kind = kind

(* The first rule with a trouble that was found gives the outcome.         *)
FirstRule(rules, troubles, otherwise) ==
    LET hits == {i \in DOMAIN rules : rules[i].on \cap troubles # {}}
    IN  IF hits = {} THEN otherwise
        ELSE rules[CHOOSE i \in hits : \A j \in hits : i <= j].gives
=============================================================================
