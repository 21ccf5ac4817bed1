------------------------------- MODULE MCKeep -------------------------------
(***************************************************************************)
(* Three parts that share no state, so that a behaviour is one of one of   *)
(* them while the others rest: the packages of a lobby, a recording, and   *)
(* the account file.                                                       *)
(***************************************************************************)
EXTENDS MCPackages, Recording, AccountFile

VARIABLE behaviour
keepVars == <<pkVars, recVars, accVars, behaviour>>

MCInit ==
  /\ PkInit /\ RecInit /\ AccInit
  /\ behaviour \in {"packages", "recording", "accounts"}
  /\ behaviour # "packages" => stored = {}

PackagesStep ==
  behaviour = "packages" /\ PkNext /\ UNCHANGED <<recVars, accVars, behaviour>>
RecordingStep ==
  behaviour = "recording" /\ RecNext /\ UNCHANGED <<pkVars, accVars, behaviour>>
AccountsStep ==
  behaviour = "accounts" /\ AccNext /\ UNCHANGED <<pkVars, recVars, behaviour>>
MCNext == PackagesStep \/ RecordingStep \/ AccountsStep

MCSpec == MCInit /\ [][MCNext]_keepVars

\* Every variable of the three holds what the code can put in it.
KeepTypeOK == PkTypeOK /\ RecTypeOK /\ AccTypeOK
=============================================================================
