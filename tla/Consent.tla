------------------------------- MODULE Consent -------------------------------
(***************************************************************************)
(* The consent the confirmation tier works by, with no calls, passes or    *)
(* grants in it: Afon asks about something in one turn and may act only in *)
(* a later one, if all the owner has said since is yes; anything else he   *)
(* says withdraws his consent, and so does the first thing known to have   *)
(* been done on it. It is a consent to act. That what is done is what was  *)
(* asked about is a further promise, which this module does not make.      *)
(***************************************************************************)
CONSTANT Actions    \* what Afon needs leave for

VARIABLES
  talking,   \* a turn is in progress
  consent,   \* "none" | "asked" | "given"
  acting,    \* what is being done on the consent
  done       \* what is known to have been done in this turn

consents == <<talking, consent, acting, done>>

Init == ~talking /\ consent = "none" /\ acting = {} /\ done = {}

Ask ==
  /\ talking /\ consent # "given"
  /\ consent' = "asked"
  /\ UNCHANGED <<talking, acting, done>>

Agree ==
  /\ ~talking /\ consent # "none"
  /\ talking' = TRUE /\ consent' = "given" /\ done' = {}
  /\ UNCHANGED acting

(* Anything but a yes, or a yes to nothing, or one that comes too late. *)
SayOtherwise ==
  /\ ~talking
  /\ talking' = TRUE /\ consent' = "none" /\ done' = {}
  /\ UNCHANGED acting

Act(what) ==
  /\ talking /\ consent = "given" /\ acting = {}
  /\ what # {} /\ acting' = what
  /\ UNCHANGED <<talking, consent, done>>

(* Some of it is known to have been done: that uses the consent up. *)
Use(what) ==
  /\ what # {} /\ what \subseteq acting /\ done' = done \cup what
  /\ acting' = {} /\ consent' = "none"
  /\ UNCHANGED talking

(* All of it failed. *)
Fail ==
  /\ acting # {} /\ acting' = {}
  /\ UNCHANGED <<talking, consent, done>>

(* The turn ends, or is cut short with nobody there to see what was done. *)
Hush ==
  /\ talking /\ talking' = FALSE /\ acting' = {}
  /\ UNCHANGED <<consent, done>>

Next ==
  \/ Ask \/ Agree \/ SayOtherwise \/ Fail \/ Hush
  \/ \E what \in SUBSET Actions : Act(what) \/ Use(what)

Spec == Init /\ [][Next]_consents
=============================================================================
