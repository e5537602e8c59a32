------------------------------ MODULE ZoneWiring ------------------------------
(***************************************************************************)
(* Which address on the serial bus belongs to which zone: the zones of the *)
(* configuration, as src/api/ws_handler.py creates, updates and deletes    *)
(* them, what the serial manager registered for them, and what a restart   *)
(* makes of it (src/main.py, the migration in src/utils/config.py).        *)
(* Requests run on the event loop without a break; how a save gets into    *)
(* the file is ConfigStore's.                                              *)
(***************************************************************************)
EXTENDS Naturals, FiniteSets, Functions

CONSTANTS Zone,          \* bound: zone ids
          Index,         \* the serial_index values users give their zones
          SensorAddress, \* the addresses a sensor can be given, 0 excepted
          WiringFaults   \* "full": a save may fail; "noserial": no serial loop

ASSUME IndexAssumption == Index \subseteq Nat
ASSUME SensorAddressAssumption == SensorAddress \subseteq Nat \ {0} /\ IsFiniteSet(SensorAddress)

NoSensor == 0

VARIABLES
  zones,      \* config.zones: serial_index and temp_sensor_address of each
  zones_saved,  \* those in the file
  installed,  \* the address the detector of each zone was given
  currents,   \* _zone_currents: the index polled for each zone
  temperatures, \* _zone_temperatures: the sensor polled for each zone
  attached,   \* the addresses sensors on the bus have been set to
  refused     \* zones whose last request failed after it had changed something

wiringVars == <<zones, zones_saved, installed, currents, temperatures, attached, refused>>

Plus(f, z, x) == [y \in DOMAIN f \cup {z} |-> IF y = z THEN x ELSE f[y]]
Without(f, z) == Restrict(f, DOMAIN f \ {z})
Indexes(zs) == [z \in DOMAIN zs |-> zs[z].index]
Sensors(zs) == LET bound == {z \in DOMAIN zs : zs[z].sensor # NoSensor}
               IN  [z \in bound |-> zs[z].sensor]

\* Faulty variant (mutation runs): only the zone at 0 is moved.
MovesZero(zs) == [z \in DOMAIN zs |-> [zs[z] EXCEPT !.index = IF @ = 0 THEN 1 ELSE @]]
\* _migrate_config(): a file of the old protocol, which counted from 0.
Migrated(zs) ==
  IF \E z \in DOMAIN zs : zs[z].index = 0
  THEN [z \in DOMAIN zs |-> [zs[z] EXCEPT !.index = @ + 1]] ELSE zs

\* The device starts with a file of today's, where users count from 1, or one of the
\* old protocol, where a detector's address was its index plus one.
Legacy(zs) == \E z \in DOMAIN zs : zs[z].index = 0
WiringInit ==
  /\ \E there \in SUBSET Zone :
       \E old \in BOOLEAN :
         zones_saved \in [there -> [index : IF old THEN {0} \cup Index ELSE Index, sensor : {NoSensor}]]
  /\ installed = [z \in DOMAIN zones_saved |->
                    zones_saved[z].index + (IF Legacy(zones_saved) THEN 1 ELSE 0)]
  /\ zones = Migrated(zones_saved)
  /\ currents = Indexes(zones) /\ temperatures = Sensors(zones)
  /\ attached = {} /\ refused = {}

\* The request for zone z ends with save(), which may fail: then the request fails,
\* and what it did stays.
Saves(z) == zones_saved' = zones' /\ refused' = refused \ {z}
CannotSave(z) == "full" \in WiringFaults /\ UNCHANGED zones_saved /\ refused' = refused \cup {z}

-----------------------------------------------------------------------------
\* Faulty variant (mutation runs): as many as are in use, and one more.
CountsOn == {a \in SensorAddress : a = Cardinality({temperatures[z] : z \in DOMAIN temperatures}) + 1}
\* allocate_sensor_address(): the first that no registered sensor has.
FreeAddresses == LET unused == SensorAddress \ {temperatures[z] : z \in DOMAIN temperatures}
                 IN  {a \in unused : \A b \in unused : a <= b}

\* The sensor that listens to the default address is told its new one.
Assign(a) == attached' = attached \cup {a}

\* _create_zone(): the zone is registered with the serial manager after the save.
CreateZone(z, i, a) ==
  /\ z \notin DOMAIN zones
  /\ a \in FreeAddresses \cup {NoSensor}
  /\ zones' = Plus(zones, z, [index |-> i, sensor |-> a])
  /\ installed' = Plus(installed, z, i)
  /\ IF a = NoSensor THEN UNCHANGED attached ELSE Assign(a)
  /\ \/ /\ Saves(z)
        /\ currents' = Plus(currents, z, i)
        /\ temperatures' = IF a = NoSensor THEN temperatures ELSE Plus(temperatures, z, a)
     \/ CannotSave(z) /\ UNCHANGED <<currents, temperatures>>

\* _update_zone(): the index, the switch of the sensor on or off, or both.  It is
\* refused without a serial loop or a free address, when the index has changed already.
Indexed(z, i) == [zones EXCEPT ![z].index = i]
Renumbered(z, i) == /\ installed' = [installed EXCEPT ![z] = i]
                    /\ currents' = IF z \in DOMAIN currents THEN [currents EXCEPT ![z] = i]
                                   ELSE currents
UpdateZone(z, i) ==
  /\ z \in DOMAIN zones
  /\ zones' = Indexed(z, i)
  /\ Renumbered(z, i)
  /\ Saves(z) \/ CannotSave(z)
  /\ UNCHANGED <<temperatures, attached>>

BindSensor(z, i) ==
  /\ z \in DOMAIN zones /\ zones[z].sensor = NoSensor
  /\ \E a \in FreeAddresses :
       /\ zones' = [Indexed(z, i) EXCEPT ![z].sensor = a]
       /\ temperatures' = Plus(temperatures, z, a)
       /\ Assign(a)
  /\ Renumbered(z, i)
  /\ Saves(z) \/ CannotSave(z)

UnbindSensor(z, i) ==
  /\ z \in DOMAIN zones /\ zones[z].sensor # NoSensor
  /\ zones' = [Indexed(z, i) EXCEPT ![z].sensor = NoSensor]
  /\ temperatures' = Without(temperatures, z)
  /\ Renumbered(z, i)
  /\ Saves(z) \/ CannotSave(z)
  /\ UNCHANGED attached

UpdateRefused(z, i) ==
  /\ "noserial" \in WiringFaults \/ FreeAddresses = {}
  /\ z \in DOMAIN zones /\ zones[z].sensor = NoSensor
  /\ zones' = Indexed(z, i) /\ refused' = refused \cup {z}
  /\ UNCHANGED <<zones_saved, installed, currents, temperatures, attached>>

\* _delete_zone(): what the serial manager registered stays.
DeleteZone(z) ==
  /\ z \in DOMAIN zones
  /\ zones' = Without(zones, z)
  /\ installed' = Without(installed, z)
  /\ Saves(z) \/ CannotSave(z)
  /\ UNCHANGED <<currents, temperatures, attached>>

\* The process starts again: load(), the migration with its save, the registration.
StartAgain ==
  /\ zones' = Migrated(zones_saved)
  /\ zones_saved' = zones'
  /\ installed' = [z \in DOMAIN zones' |-> IF z \in DOMAIN installed THEN installed[z]
                                           ELSE zones'[z].index]
  /\ currents' = Indexes(zones') /\ temperatures' = Sensors(zones')
  /\ UNCHANGED <<attached, refused>>

WiringNext ==
  \/ \E z \in Zone, i \in Index :
       \/ \E a \in SensorAddress \cup {NoSensor} : CreateZone(z, i, a)
       \/ UpdateZone(z, i) \/ BindSensor(z, i) \/ UnbindSensor(z, i) \/ UpdateRefused(z, i)
  \/ \E z \in Zone : DeleteZone(z)
  \/ StartAgain

WiringSpec == WiringInit /\ [][WiringNext]_wiringVars

-----------------------------------------------------------------------------
WiringTypeOK ==
  /\ \A zs \in {zones, zones_saved} : \A z \in DOMAIN zs :
       z \in Zone /\ zs[z].index \in Nat /\ zs[z].sensor \in SensorAddress \cup {NoSensor}
  /\ DOMAIN installed = DOMAIN zones
  /\ \A f \in {installed, currents, temperatures} : \A z \in DOMAIN f : z \in Zone /\ f[z] \in Nat
  /\ attached \subseteq SensorAddress
  /\ refused \subseteq Zone

PollsItsOwn(z) == z \in DOMAIN currents /\ currents[z] = installed[z] /\ zones[z].index = installed[z]

\* No two zones take their temperature from the same sensor.
SensorsAreDistinct ==
  \A y, z \in DOMAIN zones :
    y # z /\ zones[y].sensor # NoSensor => zones[y].sensor # zones[z].sensor

\* However zones are edited, deleted, made again and the device restarted, the
\* detector that is polled, and switched off, for a zone is the one installed there,
\* on a device that comes from the old numbering as well (config.py:507): except
\* where the zone's last request was refused halfway.  And no sensor serves two.
WiringIsKept ==
  /\ \A z \in DOMAIN zones : z \notin refused => PollsItsOwn(z)
  /\ SensorsAreDistinct

(***************************************************************************)
(* What does not hold (api_divergences.cfg)                                *)
(***************************************************************************)
\* A zone without a sensor shows no temperature.
ReadsItsOwnSensor ==
  \A z \in DOMAIN zones : zones[z].sensor = NoSensor => z \notin DOMAIN temperatures

\* A refused request leaves the wiring as it was.
RefusedStaysOut == \A z \in DOMAIN zones : PollsItsOwn(z)

\* A sensor is never told an address that a detector on the bus listens to.
NotADetectors ==
  [][\A a \in attached' \ attached : \A z \in DOMAIN installed : installed[z] # a]_wiringVars

\* Nor one that another sensor was told, of a zone that has no sensor any more.
NotAnothers ==
  [][\A z \in DOMAIN zones' :
       zones'[z].sensor \in attached => z \in DOMAIN zones /\ zones[z].sensor = zones'[z].sensor]_wiringVars
=============================================================================
