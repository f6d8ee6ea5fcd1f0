------------------------------- MODULE Updater -------------------------------
(***************************************************************************)
(* What the firmware update promises, without events, requests and links   *)
(* (components/application/ota.c).                                         *)
(*                                                                         *)
(* The device runs one image and keeps another in its spare slot.  It may  *)
(* attempt the action the server offers, as often as it likes, until a     *)
(* complete image is in the spare slot.  Then nothing but a boot happens,  *)
(* which swaps the slots.  With rollback the new image is on trial until   *)
(* it is confirmed, the spare slot is left alone meanwhile, and any other  *)
(* boot swaps back.                                                        *)
(*                                                                         *)
(* The server hears one verdict on each action it offers.  As long as it   *)
(* never lost its reply, a success is of the image that runs and is not on *)
(* trial, a failure of an action that was attempted.                       *)
(***************************************************************************)

CONSTANTS Actions, None, Factory, Broken, Rollback

VARIABLES
  image,      \* what runs
  spare,      \* what the other slot holds
  stage,      \* "stable"; "ready" for the boot of the spare; or "trial"
  offer,      \* the action the server offers
  attempted,  \* the actions whose installation was begun
  verdict,    \* what the server recorded of each action
  lost        \* a reply to a verdict was lost

vars == <<image, spare, stage, offer, attempted, verdict, lost>>
slots == <<image, spare, stage>>

Init ==
  /\ image = Factory /\ spare = Broken /\ stage = "stable"
  /\ offer = None
  /\ attempted = {}
  /\ verdict = [a \in Actions |-> "open"]
  /\ lost = FALSE

Offer(a) ==
  /\ offer = None /\ verdict[a] = "open"
  /\ offer' = a
  /\ UNCHANGED <<slots, attempted, verdict, lost>>

\* Only on a device that could not fall back does an attempt cost the spare.
Attempt ==
  /\ stage # "ready" /\ offer # None
  /\ attempted' = attempted \cup {offer}
  /\ spare' \in {spare} \cup (IF stage = "stable" THEN {Broken} ELSE {})
  /\ UNCHANGED <<image, stage, offer, verdict, lost>>

Install ==
  /\ stage = "stable" /\ spare = Broken /\ offer \in attempted
  /\ spare' = offer
  /\ stage' = "ready"
  /\ UNCHANGED <<image, offer, attempted, verdict, lost>>

Swap == image' = spare /\ spare' = image

Boot ==
  /\ stage = "ready"
  /\ Swap
  /\ stage' = IF Rollback THEN "trial" ELSE "stable"
  /\ UNCHANGED <<offer, attempted, verdict, lost>>

Confirm ==
  /\ stage = "trial"
  /\ stage' = "stable"
  /\ UNCHANGED <<image, spare, offer, attempted, verdict, lost>>

FallBack ==
  /\ stage = "trial"
  /\ Swap
  /\ stage' = "stable"
  /\ UNCHANGED <<offer, attempted, verdict, lost>>

Deserved(result) ==
  \/ result = "SUCCESS" /\ stage = "stable" /\ image = offer
  \/ result = "FAILED" /\ offer \in attempted

Report(result) ==
  /\ stage # "ready" /\ offer # None
  /\ lost \/ Deserved(result)
  /\ verdict' = [verdict EXCEPT ![offer] = result]
  /\ offer' = None
  /\ lost' \in {lost, TRUE}
  /\ UNCHANGED <<slots, attempted>>

Next ==
  \/ \E a \in Actions : Offer(a)
  \/ Attempt \/ Install
  \/ Boot \/ Confirm \/ FallBack
  \/ \E result \in {"SUCCESS", "FAILED"} : Report(result)

Spec == Init /\ [][Next]_vars

\* What holds of every update, and therefore of what implements it: a complete
\* image runs, and two are there while a boot may need the other; what is
\* offered has no verdict yet (ota.c 562-586, 684-695).
Discipline ==
  /\ image # Broken
  /\ stage # "stable" => spare # Broken
  /\ attempted \subseteq Actions
  /\ verdict \in [Actions -> {"open", "SUCCESS", "FAILED"}]
  /\ offer # None => offer \in Actions /\ verdict[offer] = "open"

\* The first verdict on an action is the last, whatever is lost.
VerdictOnce ==
  [][\A a \in Actions : verdict[a] # "open" => verdict'[a] = verdict[a]]_vars
=============================================================================
