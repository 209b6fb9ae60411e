---------------------------- MODULE ProjectChange ----------------------------
(***************************************************************************)
(* What a change set promises, without sessions, approvals or requests:    *)
(* documents are edited one at a time; a change set is declared on the     *)
(* revisions that all members of a project have, and either moves all the  *)
(* documents it names by one revision, in one step and only while every    *)
(* member is where it was declared to be, or moves nothing, ever.          *)
(***************************************************************************)
EXTENDS Naturals

CONSTANTS Docs, ChangeSets

VARIABLES
  revision,   \* of every document
  change      \* every change set, with the pins it was declared on

vars == <<revision, change>>

Undeclared == [state |-> "none"]

Open(pins, mutates) == [state |-> "open", pins |-> pins, mutates |-> mutates]

Init ==
  /\ revision = [d \in Docs |-> 0]
  /\ change = [x \in ChangeSets |-> Undeclared]

Edit(d) ==
  /\ revision' = [revision EXCEPT ![d] = @ + 1]
  /\ UNCHANGED change

Declare(x) ==
  /\ change[x] = Undeclared
  /\ \E members \in SUBSET Docs : \E mutates \in SUBSET members :
       change' = [change EXCEPT ![x] = Open([d \in members |-> revision[d]], mutates)]
  /\ UNCHANGED revision

AtPins(x) == \A d \in DOMAIN change[x].pins : revision[d] = change[x].pins[d]

Apply(x) ==
  /\ change[x].state = "open"
  /\ AtPins(x)
  /\ revision' = [d \in Docs |->
       IF d \in change[x].mutates THEN revision[d] + 1 ELSE revision[d]]
  /\ change' = [change EXCEPT ![x].state = "applied"]

Refuse(x) ==
  /\ change[x].state = "open"
  /\ change' = [change EXCEPT ![x].state = "refused"]
  /\ UNCHANGED revision

Next ==
  \/ \E d \in Docs : Edit(d)
  \/ \E x \in ChangeSets : Declare(x) \/ Apply(x) \/ Refuse(x)

Spec == Init /\ [][Next]_vars

==============================================================================
