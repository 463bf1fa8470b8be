------------------------ MODULE MCRecordingAssembly ------------------------
(***************************************************************************)
(* Instances of RecordingAssembly for TLC.  The configurations choose the  *)
(* streams (desktop, WebRTC or both) and the fault and crash budgets; the  *)
(* times below are the code's intervals on a clock of a few ticks.         *)
(***************************************************************************)
EXTENDS RecordingAssembly

TwoExpiries == {1, 2}
FarExpiries == {1, 3}
OneExpiry == {1}
=============================================================================
