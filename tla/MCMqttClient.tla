---------------------------- MODULE MCMqttClient ----------------------------
(* Instances of MqttClient for TLC.                                        *)
EXTENDS MqttClient, TLC

CONSTANTS t1, t2, t3

ThreadSymmetry == Permutations(Threads)
=============================================================================
