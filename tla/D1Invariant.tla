---------------------------- MODULE D1Invariant ----------------------------
(***************************************************************************)
(* The inductive invariant of D1Charge behind its safety properties: what  *)
(* the charge service knows at each of its steps about the reports that    *)
(* arrived since its last critical section.                                *)
(***************************************************************************)
EXTENDS D1Charge

(* A START is confirmed on evidence that has already demanded an undock:   *)
(* an active recharge task younger than the command's own sequence number. *)
StartPart ==
    /\ pc # "idle" => result = "none"
    /\ pc = "waitRecharge" => command = "start"
    /\ pc \in {"send", "waitRecharge"} /\ NewRecharge /\ taskStatus = "active" => session
    /\ result = "charging" => session

(* An unused UNDOCK SUCCESS was reported since the last exit, and a failure *)
(* reported since a command began or joined its task is newer than the     *)
(* sequence number the command waits from.                                 *)
SuccessPart ==
    /\ undockSuccess > 0 => undocked
    /\ pc \in {"send", "beginWait", "waitUndock"} /\ failedSince => undockFailure > minSequence
    /\ pc \in {"recheck", "reuse"} /\ undockSucceeded /\ failedSince
          => undockFailure > minSequence
    /\ pc \in {"stopCheck", "stopSend", "waitStopped"} /\ command = "undock"
          => ~undockSucceeded

(* After an exit only charging at the pile or an SDK task revokes it.      *)
ExitPart ==
    result = "exit" /\ ~session => chargeExitConfirmed /\ (pileConnected => ~Charging)

(* The inductive invariant, from which the safety properties of D1Charge   *)
(* follow (D1Proofs).                                                      *)
D1Inv ==
    TypeOK /\ SessionDemandsUndock /\ StartPart /\ SuccessPart /\ ExitPart
=============================================================================
