----------------------- MODULE MCProvisioningService -----------------------
(***************************************************************************)
(* Instances of ProvisioningService: a configuration of each kind, and a   *)
(* device that has been provisioned over WiFi before and has a hotspot and *)
(* a factory profile for its cable.                                        *)
(***************************************************************************)
EXTENDS ProvisioningService

MCConfig == { [dev |-> "wlan", static |-> FALSE],
              [dev |-> "wlan", static |-> TRUE],
              [dev |-> "eth",  static |-> TRUE],
              [dev |-> "none", static |-> FALSE] }
MCSaved == { [name |-> "hotspot",          uuid |-> 1, conf |-> NoConfig],
             [name |-> "provisioned-wifi", uuid |-> 2, conf |-> NoConfig],
             [name |-> "factory",          uuid |-> 3, conf |-> NoConfig] }
=============================================================================
