--------------------------- MODULE MissionLogProofs ---------------------------
(***************************************************************************)
(* What the proofs about the services keep needing: the outcomes of a      *)
(* command on the MissionLog, how its stream grows, and induction over the *)
(* natural numbers, stated for sets.                                       *)
(*                                                                         *)
(* A reducer is a function defined by recursion on the number of events.   *)
(* That such a function exists, and that events to come do not change what *)
(* it makes of the earlier ones, is shown by this induction.               *)
(***************************************************************************)
EXTENDS MissionLog, FiniteSetTheorems, TLAPS

-----------------------------------------------------------------------------
(* Induction.                                                              *)

(* A set of natural numbers has a least element: the sets 0..n-1 are       *)
(* finite, and finite sets are well-founded by inclusion.                  *)
LEMMA NatLeast ==
    ASSUME NEW S, S \subseteq Nat, S # {}
    PROVE  \E m \in S : \A k \in S : ~(k < m)
<1> DEFINE Below(n) == 0..(n - 1)
           T == {Below(n) : n \in S}
<1>1. IsWellFoundedOn(StrictSubsetOrdering(Nat), FiniteSubsetsOf(Nat))
  BY FS_StrictSubsetOrderingWellFounded
<1>2. T \subseteq FiniteSubsetsOf(Nat) /\ T # {}
  <2> SUFFICES ASSUME NEW n \in Nat
               PROVE  Below(n) \in SUBSET Nat /\ IsFiniteSet(Below(n))
    BY DEF FiniteSubsetsOf
  <2> QED
    BY FS_Interval
<1>3. PICK x \in T : \A y \in T : <<y, x>> \notin StrictSubsetOrdering(Nat)
  <2> HIDE DEF T
  <2> QED
    BY <1>1, <1>2, WFMin
<1>4. PICK m \in S : x = Below(m)
  OBVIOUS
<1>5. ASSUME NEW k \in S, k < m PROVE FALSE
  <2>1. Below(k) \in SUBSET Nat /\ Below(m) \in SUBSET Nat /\ Below(k) \subseteq Below(m)
    BY <1>5
  <2>2. k \in Below(m) /\ k \notin Below(k)
    BY <1>5
  <2>3. <<Below(k), Below(m)>> \in StrictSubsetOrdering(Nat)
    <3> HIDE DEF Below
    <3> QED
      BY <2>1, <2>2 DEF StrictSubsetOrdering
  <2> QED
    BY <1>3, <1>4, <2>3
<1> QED
  BY <1>5

(* A set with 0, and with n + 1 if with n, holds every natural number.     *)
LEMMA NatSetInduction ==
    ASSUME NEW S, 0 \in S, \A n \in Nat : n \in S => n + 1 \in S
    PROVE  Nat \subseteq S
<1> SUFFICES ASSUME Nat \ S # {} PROVE FALSE
  OBVIOUS
<1>1. PICK m \in Nat \ S : \A k \in Nat \ S : ~(k < m)
  BY NatLeast
<1>2. m - 1 \in Nat /\ m - 1 \in S
  BY <1>1
<1> QED
  BY <1>1, <1>2

-----------------------------------------------------------------------------
(* A command on the log.                                                   *)

(* A command that was sent before changes nothing; one that is refused     *)
(* leaves a row; one that is accepted named the head, and its facts are    *)
(* appended.                                                               *)
LEMMA ExecuteOutcomes ==
    ASSUME NEW cmd, NEW facts, NEW refusal, Execute(cmd, facts, refusal)
    PROVE  \/ Known(cmd) \cup KeyOwners(cmd) # {} /\ UNCHANGED log
           \/ \E code : /\ Answer(cmd, facts, refusal) = Rejected(code)
                        /\ rows' = rows \cup {Row(cmd, Rejected(code))}
                        /\ stream' = stream
           \/ /\ Known(cmd) = {} /\ KeyOwners(cmd) = {}
              /\ cmd.expected_seq = HeadSeq /\ facts # << >>
              /\ rows' = rows \cup {Row(cmd, Accepted(HeadSeq + Len(facts)))}
              /\ stream' = stream \o facts
<1>1. CASE Known(cmd) \cup KeyOwners(cmd) # {}
  BY <1>1 DEF Execute
<1>2. CASE Known(cmd) \cup KeyOwners(cmd) = {}
  <2>1. Known(cmd) = {} /\ KeyOwners(cmd) = {}
    BY <1>2
  <2> DEFINE answer == Answer(cmd, facts, refusal)
  <2>2. /\ rows' = rows \cup {Row(cmd, answer)}
        /\ stream' = IF answer.ok THEN stream \o facts ELSE stream
    BY <1>2 DEF Execute
  <2>3. ASSUME NEW code, answer = Rejected(code), ~answer.ok
        PROVE  \E c : /\ answer = Rejected(c)
                      /\ rows' = rows \cup {Row(cmd, Rejected(c))} /\ stream' = stream
    <3> HIDE DEF answer
    <3> QED
      BY <2>2, <2>3
  <2>4. CASE cmd.expected_seq # HeadSeq
    <3>1. answer = Rejected("EXPECTED_SEQ_MISMATCH")
      BY <2>1, <2>4 DEF Answer
    <3>2. ~answer.ok
      BY <3>1 DEF Rejected
    <3> QED
      BY <2>3, <3>1, <3>2
  <2>5. CASE cmd.expected_seq = HeadSeq /\ facts = << >>
    <3>1. answer = Rejected(refusal)
      BY <2>1, <2>5 DEF Answer
    <3>2. ~answer.ok
      BY <3>1 DEF Rejected
    <3> QED
      BY <2>3, <3>1, <3>2
  <2>6. CASE cmd.expected_seq = HeadSeq /\ facts # << >>
    <3>1. answer = Accepted(HeadSeq + Len(facts))
      BY <2>1, <2>6 DEF Answer
    <3> QED
      BY <2>1, <2>2, <2>6, <3>1 DEF Accepted
  <2> QED
    BY <2>4, <2>5, <2>6
<1> QED
  BY <1>1, <1>2

-----------------------------------------------------------------------------
(* The stream as a sequence, whatever its events are.                      *)

IsStream(s) == \E S : s \in Seq(S)

(* A stream, its length and its beginnings.                                *)
LEMMA StreamShape ==
    ASSUME NEW s, IsStream(s)
    PROVE  /\ Len(s) \in Nat /\ DOMAIN s = 1..Len(s)
           /\ \A n \in 0..Len(s) : Len(SubSeq(s, 1, n)) = n /\ IsStream(SubSeq(s, 1, n))
           /\ \A n \in 0..Len(s) : \A i \in 1..n : SubSeq(s, 1, n)[i] = s[i]
           /\ SubSeq(s, 1, Len(s)) = s
<1>1. PICK S : s \in Seq(S)
  BY DEF IsStream
<1>2. Len(s) \in Nat /\ DOMAIN s = 1..Len(s)
  BY <1>1
<1>3. ASSUME NEW n \in 0..Len(s)
      PROVE  /\ SubSeq(s, 1, n) \in Seq(S) /\ Len(SubSeq(s, 1, n)) = n
             /\ \A i \in 1..n : SubSeq(s, 1, n)[i] = s[i]
  BY <1>1
<1>4. SubSeq(s, 1, Len(s)) = s
  <2>1. SubSeq(s, 1, Len(s)) \in Seq(S) /\ Len(SubSeq(s, 1, Len(s))) = Len(s)
        /\ \A i \in 1..Len(s) : SubSeq(s, 1, Len(s))[i] = s[i]
    BY <1>2, <1>3
  <2> QED
    BY <1>1, <2>1
<1> QED
  BY <1>2, <1>3, <1>4 DEF IsStream

(* There is one stream without events.                                     *)
LEMMA EmptyStream ==
    ASSUME NEW s, IsStream(s), Len(s) = 0
    PROVE  s = << >>
<1>1. PICK S : s \in Seq(S)
  BY DEF IsStream
<1> QED
  BY <1>1

(* A longer stream has the same beginnings.                                *)
LEMMA AppendedStream ==
    ASSUME NEW s, IsStream(s), NEW e
    PROVE  /\ IsStream(Append(s, e)) /\ Len(Append(s, e)) = Len(s) + 1
           /\ s \o <<e>> = Append(s, e)
           /\ Append(s, e)[Len(s) + 1] = e
           /\ \A i \in 1..Len(s) : Append(s, e)[i] = s[i]
           /\ \A n \in 0..Len(s) : SubSeq(Append(s, e), 1, n) = SubSeq(s, 1, n)
<1>1. PICK S : s \in Seq(S)
  BY DEF IsStream
<1>2. s \in Seq(S \cup {e}) /\ e \in S \cup {e}
  BY <1>1
<1>3. IsStream(Append(s, e))
  BY <1>2 DEF IsStream
<1>4. \A n \in 0..Len(s) : SubSeq(Append(s, e), 1, n) = SubSeq(s, 1, n)
  BY <1>2
<1> QED
  BY <1>2, <1>3, <1>4

-----------------------------------------------------------------------------
(* The steps of the log.                                                  *)

(* The stream grows by one event, or not at all.                           *)
Grows(e) == stream' = Append(stream, e)
SamePast(n) == \A i \in 1..n : stream'[i] = stream[i]

(* What the stream is after one event more.                                *)
LEMMA OneMore ==
    ASSUME IsStream(stream), NEW e, Grows(e)
    PROVE  /\ IsStream(stream)' /\ HeadSeq \in Nat /\ HeadSeq' = HeadSeq + 1
           /\ stream'[HeadSeq + 1] = e
           /\ SamePast(HeadSeq) /\ \A n \in 0..HeadSeq : SamePast(n)
<1>1. /\ IsStream(Append(stream, e)) /\ Len(Append(stream, e)) = Len(stream) + 1
      /\ Append(stream, e)[Len(stream) + 1] = e
      /\ \A i \in 1..Len(stream) : Append(stream, e)[i] = stream[i]
  BY AppendedStream
<1>2. Len(stream) \in Nat
  BY StreamShape
<1>3. stream' = Append(stream, e)
  BY DEF Grows
<1>4. IsStream(stream)'
  BY <1>1, <1>3
<1>5. \A n \in 0..Len(stream) : SamePast(n)
  <2>1. \A i \in 1..Len(stream) : stream'[i] = stream[i]
    BY <1>1, <1>3
  <2> QED
    BY <1>2, <2>1 DEF SamePast
<1>6. SamePast(Len(stream))
  BY <1>2, <1>5
<1> QED
  BY <1>1, <1>2, <1>3, <1>4, <1>5, <1>6 DEF HeadSeq
=============================================================================
