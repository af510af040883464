------------------------------ MODULE MCAlerts ------------------------------
(***************************************************************************)
(* Small instances of Alerts: one operator watches the devices and their   *)
(* pool, another dnsmasq and a fault, and each switches alerts off and on. *)
(***************************************************************************)
EXTENDS Alerts

DevicesOrService == {{{}, {"new_device", "pool_high"}}, {{}, {"service_down", "fault"}}}
=============================================================================
