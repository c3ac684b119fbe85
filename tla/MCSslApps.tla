------------------------------ MODULE MCSslApps ------------------------------
(* Two apps, a boot and one more start between two boots, two looks for survivors. *)
EXTENDS SslApps
===============================================================================
