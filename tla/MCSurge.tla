------------------------------ MODULE MCSurge ------------------------------
(* Small instances of Surge for TLC. *)
EXTENDS Surge

\* One template on the host network and two on the pod network.
MCUseHostNetwork(template) == template = "host"
===========================================================================
