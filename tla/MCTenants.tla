----------------------------- MODULE MCTenants -----------------------------
(* One-time codes, company approval, company members and access rules, one *)
(* scene each.                                                             *)
EXTENDS OneTimeCodes, CompanyApproval, CompanyMembers, Access

CONSTANT Scenes   \* the scenes of this run

VARIABLE scene

vars == <<scene, reqVars, codeVars, company, memberVars, accessVars>>

Init ==
  /\ scene \in Scenes
  /\ ReqInit /\ CodesDB /\ CompanyDB /\ MembersDB /\ AccessDB
  /\ scene # "access" => ~isSuperAdmin

\* Bounds: requests that begin, and requests in flight.
Calls == [codes |-> 5, company |-> 4, members |-> 4, access |-> 0]
Flight == [codes |-> 3, company |-> 2, members |-> 2, access |-> 0]

\* Requests are interchangeable: numbering them as they begin loses no behaviour.
InTurn ==
  /\ \A r \in Requests : req'[r].pc # "idle" =>
       r <= Calls[scene] /\ \A q \in 1..(r - 1) : req'[q].pc # "idle"
  /\ Cardinality(InFlight') <= Flight[scene]

Next ==
  /\ \/ scene = "codes" /\ CodesNext /\ UNCHANGED <<company, memberVars, accessVars>>
     \/ scene = "company" /\ CompanyNext /\ UNCHANGED <<codeVars, memberVars, accessVars>>
     \/ scene = "members" /\ MembersNext /\ UNCHANGED <<codeVars, company, accessVars>>
     \/ scene = "access" /\ AccessNext /\ UNCHANGED <<reqVars, codeVars, company, memberVars>>
  /\ UNCHANGED scene
  /\ InTurn

Spec == Init /\ [][Next]_vars

\* The type invariant of every module here.
TypeOK == CodesTypeOK /\ CompanyTypeOK /\ MembersTypeOK /\ AccessTypeOK
=============================================================================
