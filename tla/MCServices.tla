------------------------------- MODULE MCServices ------------------------------
(***************************************************************************)
(* The orchestrator with its two queues and the metadata worker with its   *)
(* step queue: one message through the exchange, one by queue name.  The   *)
(* bounds of the run are here.                                             *)
(***************************************************************************)
EXTENDS Services

MCRoute == [stepmsg |-> "metadata", resultmsg |-> "result"]

MCPublisher == [stepmsg |-> "orchestrator", resultmsg |-> "metadata"]
================================================================================
