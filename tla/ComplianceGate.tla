--------------------------- MODULE ComplianceGate ---------------------------
(***************************************************************************)
(* One ideation as the worker runs it: the language model is asked for     *)
(* concepts, each is checked, and those that fail are replaced from one    *)
(* second answer or rejected (run_ideation, run_compliance_gate,           *)
(* GeminiTextProvider).  Items of an answer that are not valid concepts    *)
(* are left out of the list the gate works on, so an item's place in the   *)
(* answer and its index in the list may differ.                            *)
(*                                                                         *)
(* A text is <<n, j>>: item j of the n-th answer.  GenerationJobs takes    *)
(* what comes out as an arbitrary list of rejected and accepted concepts.  *)
(***************************************************************************)
EXTENDS Integers, Sequences, FiniteSets

CONSTANTS
  MaxItems,     \* bound: items of an answer (the model may send more than it was asked for)
  MaxAttempts   \* stop_after_attempt

ASSUME GateConstants == MaxItems \in Nat \ {0} /\ MaxAttempts \in Nat \ {0}

VARIABLES
  phase,     \* ideating, checking, retrying; delivered, or raised to the worker
  attempt,   \* attempts of the current call to the model that have failed
  slots,     \* concepts: [text, rejected]
  kept,      \* kept[n] : the items of the n-th answer that are valid
  verdict    \* the texts checked so far, with the outcome

gateVars == <<phase, attempt, slots, kept, verdict>>

Phases == {"ideating", "checking", "retrying", "delivered", "raised"}

GateInit ==
  /\ phase = "ideating"
  /\ attempt = 0
  /\ slots = <<>>
  /\ kept = [n \in {1, 2} |-> {}]
  /\ verdict = {}

-----------------------------------------------------------------------------
(* create_interaction and the parsing of its answer.                       *)

Calling == phase \in {"ideating", "checking", "retrying"}

\* 429 or 5xx: tried again after a wait.
CallRetried ==
  /\ Calling
  /\ attempt + 1 < MaxAttempts
  /\ attempt' = attempt + 1
  /\ UNCHANGED <<phase, slots, kept, verdict>>

\* The attempts are used up, the error is of another kind, or the answer is no JSON
\* or holds no valid concept.
CallRaised ==
  /\ Calling
  /\ phase' = "raised"
  /\ UNCHANGED <<attempt, slots, kept, verdict>>

\* The valid items of an answer.
Answers == (SUBSET (1..MaxItems)) \ {{}}

\* The i-th valid item, which is element i of the list generate_concepts returns.
Nth(items, i) == CHOOSE j \in items : Cardinality({k \in items : k <= j}) = i

-----------------------------------------------------------------------------
(* check_concept: keyword checks, then the model's review.                 *)

\* The reviewer's reply, by its first line; "FAIL:" has no description on that line.
Replies == {"PASS", "FAIL", "FAIL: reason", "FAIL:", "", "other"}

\* A keyword violation spares the review.
Outcomes == Replies \cup {"keyword"}

\* parse_reviewer_verdict: None, the description after the colon, or a fixed one.
Verdict(reply) ==
  CASE reply = "PASS"  -> "None"
    [] reply = "FAIL:" -> ""
    [] OTHER           -> "described"

\* A variant of Violates that takes an empty reply for a pass.
ViolatesSpoken(o) == o \in {"keyword", "FAIL", "FAIL: reason", "other"}

\* run_llm_review: a verdict without text is no violation, like none at all.
Violates(o) == o = "keyword" \/ Verdict(o) \notin {"None", ""}

Failing == {i \in DOMAIN slots :
              \E o \in Outcomes : <<slots[i].text, o>> \in verdict /\ Violates(o)}

Ideated ==
  /\ phase = "ideating"
  /\ \E items \in Answers :
       /\ kept' = [kept EXCEPT ![1] = items]
       /\ slots' = [i \in 1..Cardinality(items) |->
                      [text |-> <<1, Nth(items, i)>>, rejected |-> FALSE]]
  /\ phase' = "checking" /\ attempt' = 0
  /\ UNCHANGED verdict

Checked ==
  /\ phase = "checking"
  /\ \E o \in [DOMAIN slots -> Outcomes] :
       /\ verdict' = {<<slots[i].text, o[i]>> : i \in DOMAIN slots}
       /\ phase' = IF \A i \in DOMAIN slots : ~Violates(o[i]) THEN "delivered" ELSE "retrying"
  /\ attempt' = 0
  /\ UNCHANGED <<slots, kept>>

\* A variant of Revision that deals the answer out to the failing slots.
RevisionDealt(items, i) == Nth(items, Cardinality({k \in Failing : k <= i}))

\* The item that replaces slot i, for i up to the number of items.
Revision(items, i) == Nth(items, i)

\* Slot i after the retry: rejected if the answer is too short or its candidate
\* fails again.
Resolved(items, o, i) ==
  CASE i \notin Failing -> slots[i]
    [] i \in Failing /\ (i > Cardinality(items) \/ Violates(o[i])) ->
         [text |-> slots[i].text, rejected |-> TRUE]
    [] OTHER -> [text |-> <<2, Revision(items, i)>>, rejected |-> FALSE]

Retried ==
  /\ phase = "retrying"
  /\ \E items \in Answers, o \in [Failing -> Outcomes] :
       LET shown == {i \in Failing : i <= Cardinality(items)} IN
       /\ \A i \in Failing \ shown : o[i] = "PASS"   \* not checked
       /\ kept' = [kept EXCEPT ![2] = items]
       /\ verdict' = verdict \cup {<< <<2, Revision(items, i)>>, o[i]>> : i \in shown}
       /\ slots' = [i \in DOMAIN slots |-> Resolved(items, o, i)]
  /\ phase' = "delivered" /\ attempt' = 0

GateNext == CallRetried \/ CallRaised \/ Ideated \/ Checked \/ Retried

GateSpec == GateInit /\ [][GateNext]_gateVars

-----------------------------------------------------------------------------
Texts == {1, 2} \X (1..MaxItems)

GateTypeOK ==
  /\ phase \in Phases
  /\ attempt \in 0..(MaxAttempts - 1)
  /\ slots \in Seq([text : Texts, rejected : BOOLEAN])
  /\ kept \in [{1, 2} -> SUBSET (1..MaxItems)]
  /\ verdict \subseteq Texts \X Outcomes

\* What the code lets pass: PASS, and FAIL with an empty description.
Passed == {"PASS", "FAIL:"}

\* An accepted concept was checked in the wording that is delivered, by every check,
\* and let pass; a rejected one failed.
AcceptedWasCleared ==
  phase = "delivered" =>
    \A i \in DOMAIN slots :
      IF slots[i].rejected
        THEN \E o \in Outcomes \ Passed : <<slots[i].text, o>> \in verdict
        ELSE /\ \E o \in Passed : <<slots[i].text, o>> \in verdict
             /\ \A o \in Outcomes \ Passed : <<slots[i].text, o>> \notin verdict

\* A revised concept is the revision of the one it replaces, unless the second answer
\* held an invalid item before it: then the list has closed up and the slot gets the
\* revision of a later one.
RevisionsKeepTheirSlot ==
  \A i \in DOMAIN slots :
    slots[i].text[1] = 2 =>
      \/ slots[i].text[2] = i
      \/ \E j \in 1..(slots[i].text[2] - 1) : j \notin kept[2]

\* compliance.py:95-97: only "None means the reviewer passed the concept"; any other response
\* is a violation, "never ... a silent pass".
NeverASilentPass ==
  phase = "delivered" =>
    \A i \in DOMAIN slots : slots[i].rejected \/ <<slots[i].text, "PASS">> \in verdict
=============================================================================
