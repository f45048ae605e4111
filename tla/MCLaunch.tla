------------------------------ MODULE MCLaunch ------------------------------
(***************************************************************************)
(* Launch with the duel program where the clients expect it and elsewhere, *)
(* four ways a tenant may store the ELO, and every queue of up to three    *)
(* entries.                                                                *)
(***************************************************************************)
EXTENDS Launch, SequencesExt

(* The script's options; a narrower ELO, the default of the SDK; one past   *)
(* the end of the profile; a width there is not.                            *)
AllOptions ==
  {[eloOffset |-> 40, eloSize |-> 8], [eloOffset |-> 40, eloSize |-> 2],
   [eloOffset |-> 60, eloSize |-> 8], [eloOffset |-> 40, eloSize |-> 3]}

AllDeployments == {DuelProgram, Key("elsewhere")}

(* 17 is 1 in two bytes of four values.                                     *)
AllElos == {1, 3, 17}

AllQueues == SeqOf([elo : AllElos], 3)
=============================================================================
