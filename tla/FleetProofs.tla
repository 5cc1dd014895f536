---------------------------- MODULE FleetProofs ----------------------------
(* What the back office does to the desktops, put together: releases,       *)
(* remote commands and access each go on as if they were alone, so that     *)
(* what is proved of each holds of them together.                           *)
EXTENDS MCFleet, ReleasesProofs, RemoteCommandProofs, DesktopAccessProofs

LEMMA FleetStarts == Init => ReleaseInit /\ CommandInit /\ AccessInit
  BY DEF Init

\* A step of one part leaves the others alone.
LEMMA FleetSteps ==
  [Next]_vars => /\ [ReleaseNext]_releaseVars
                 /\ [CommandNext]_commandVars
                 /\ [AccessNext]_accessVars
  <1> SUFFICES ASSUME [Next]_vars
               PROVE  /\ [ReleaseNext]_releaseVars
                      /\ [CommandNext]_commandVars
                      /\ [AccessNext]_accessVars
    OBVIOUS
  <1>1. CASE ReleaseStep
    <2>1. ReleaseNext
      BY <1>1 DEF ReleaseStep, ReleaseNext
    <2>2. UNCHANGED <<commandVars, accessVars>>
      BY <1>1 DEF ReleaseStep, InReleases
    <2> QED
      BY <2>1, <2>2
  <1>2. CASE CommandStep
    <2>1. CommandNext
      BY <1>2 DEF CommandStep, CommandNext
    <2>2. UNCHANGED <<releaseVars, accessVars>>
      BY <1>2 DEF CommandStep, InCommands
    <2> QED
      BY <2>1, <2>2
  <1>3. CASE AccessStep
    <2>1. AccessNext
      BY <1>3 DEF AccessStep, AccessNext
    <2>2. UNCHANGED <<releaseVars, commandVars>>
      BY <1>3 DEF AccessStep, InAccess
    <2> QED
      BY <2>1, <2>2
  <1>4. CASE UNCHANGED vars
    BY <1>4 DEF vars
  <1> QED
    BY <1>1, <1>2, <1>3, <1>4 DEF Next

\* Together, the three parts behave as each does alone: nothing one of them does
\* is outside the specification of another.
THEOREM FleetImplementsParts == Spec => ReleaseSpec /\ CommandSpec /\ AccessSpec
  BY FleetStarts, FleetSteps, PTL DEF Spec, ReleaseSpec, CommandSpec, AccessSpec

\* Every row, session and desktop of the three parts always has its type.
THEOREM FleetIsTyped == Spec => []FleetTypeOK
  <1>1. ReleaseTypeOK /\ CommandTypeOK /\ AccessTypeOK => FleetTypeOK
    BY DEF FleetTypeOK
  <1> QED
    BY <1>1, FleetImplementsParts, ReleasesAreTyped, CommandsAreTyped, AccessIsTyped, PTL

\* And what is proved of each part alone holds of the three together.
THEOREM FleetKeepsItsWord ==
  Spec => /\ []PublishedIsSigned /\ ReleaseLifecycle /\ BuildsInOrder
          /\ []AckIsForThisCommand
          /\ []RotationEndsSessions /\ []AdmittedAsDecided
  BY FleetImplementsParts, ReleasesAreSigned, ReleasesLiveOnce, BuildsGoUp,
     AcksAreForThisCommand, RotationEnds, DecisionsAdmit, PTL

=============================================================================
