---------------------------- MODULE MCCopyPipeline ----------------------------
(* Instances of CopyPipeline for TLC.                                      *)
EXTENDS CopyPipeline
=============================================================================
