------------------------------ MODULE MCShadow ------------------------------
(* Instances of Shadow for TLC.                                            *)
EXTENDS Shadow

UpdateMine == <<"mine", "update">>

OneKey      == {UpdateMine}
BothActions == OneKey \X BOOLEAN
=============================================================================
