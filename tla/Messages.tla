------------------------------ MODULE Messages ------------------------------
(***************************************************************************)
(* The messages of NMEA 2000 and RV-C that the stack knows, as the tables  *)
(* under nmea2000/lib/src/pgns and rvc/lib/src/dgns define them, and the   *)
(* registries that hold them.  Names, resolutions, offsets and the texts   *)
(* of lookup tables are left out: Codec counts steps.                      *)
(***************************************************************************)
EXTENDS Integers, Sequences, SequencesExt

U(name, offset, length) ==
  [name |-> name, bitOffset |-> offset, bitLength |-> length, type |-> "unsigned"]
S(name, offset, length) ==
  [name |-> name, bitOffset |-> offset, bitLength |-> length, type |-> "signed"]
L(name, offset, length) ==
  [name |-> name, bitOffset |-> offset, bitLength |-> length, type |-> "lookup"]
T(name, offset, length) ==
  [name |-> name, bitOffset |-> offset, bitLength |-> length, type |-> "string"]
R(offset, length) ==
  [name |-> "reserved", bitOffset |-> offset, bitLength |-> length, type |-> "reserved"]

Single(pgn, dataLength, fields) ==
  [pgn |-> pgn, transport |-> 0, dataLength |-> dataLength, fields |-> fields]
Fast(pgn, dataLength, fields) ==
  [pgn |-> pgn, transport |-> 1, dataLength |-> dataLength, fields |-> fields]

-----------------------------------------------------------------------------
(* nmea2000/pgns/depth_speed.dart *)

waterDepthPgn ==
  Single(128267, 8, <<
    U("sid", 0, 8), U("depth", 8, 32), S("offset", 40, 16),
    U("maxRange", 56, 8)>>)

speedWaterReferencedPgn ==
  Single(128259, 6, <<
    U("sid", 0, 8), U("speedWaterRef", 8, 16), U("speedGroundRef", 24, 16),
    L("speedWaterRefType", 40, 4), U("speedDirection", 44, 4)>>)

depthSpeedPgns == {waterDepthPgn, speedWaterReferencedPgn}

-----------------------------------------------------------------------------
(* nmea2000/pgns/electrical.dart *)

batteryStatusPgn ==
  Single(127508, 8, <<
    U("batteryInstance", 0, 8), U("batteryVoltage", 8, 16),
    S("batteryCurrent", 24, 16), U("batteryCaseTemperature", 40, 16),
    U("sid", 56, 8)>>)

fluidLevelPgn ==
  Single(127505, 8, <<
    U("instance", 0, 4), L("fluidType", 4, 4), S("level", 8, 16),
    U("capacity", 24, 32), R(56, 8)>>)

electricalPgns == {batteryStatusPgn, fluidLevelPgn}

-----------------------------------------------------------------------------
(* nmea2000/pgns/engine.dart *)

engineParametersRapidUpdatePgn ==
  Single(127488, 8, <<
    U("engineInstance", 0, 8), U("engineSpeed", 8, 16),
    U("engineBoostPressure", 24, 16), S("engineTiltTrim", 40, 8),
    R(48, 16)>>)

engineParametersDynamicPgn ==
  Fast(127489, 26, <<
    U("engineInstance", 0, 8), U("oilPressure", 8, 16),
    U("oilTemperature", 24, 16), U("temperature", 40, 16),
    S("alternatorPotential", 56, 16), S("fuelRate", 72, 16),
    U("totalEngineHours", 88, 32), U("coolantPressure", 120, 16),
    U("fuelPressure", 136, 16), R(152, 8), U("discreteStatus1", 160, 16),
    U("discreteStatus2", 176, 16), S("percentEngineLoad", 192, 8),
    S("percentEngineTorque", 200, 8)>>)

transmissionParametersDynamicPgn ==
  Single(127493, 8, <<
    U("engineInstance", 0, 8), L("transmissionGear", 8, 2), R(10, 6),
    U("oilPressure", 16, 16), U("oilTemperature", 32, 16),
    U("discreteStatus1", 48, 8), R(56, 8)>>)

enginePgns ==
  {engineParametersRapidUpdatePgn, engineParametersDynamicPgn,
   transmissionParametersDynamicPgn}

-----------------------------------------------------------------------------
(* nmea2000/pgns/heading.dart *)

vesselHeadingPgn ==
  Single(127250, 8, <<
    U("sid", 0, 8), U("heading", 8, 16), S("deviation", 24, 16),
    S("variation", 40, 16), L("reference", 56, 2), R(58, 6)>>)

rateOfTurnPgn ==
  Single(127251, 5, <<
    U("sid", 0, 8), S("rate", 8, 32)>>)

magneticVariationPgn ==
  Single(127258, 6, <<
    U("sid", 0, 8), L("source", 8, 4), R(12, 4), U("daysSince1970", 16, 16),
    S("variation", 32, 16)>>)

headingPgns == {vesselHeadingPgn, rateOfTurnPgn, magneticVariationPgn}

-----------------------------------------------------------------------------
(* nmea2000/pgns/mandatory.dart *)

heartbeatPgn ==
  Fast(126993, 8, <<
    U("dataTransmitOffset", 0, 16), U("sequenceCounter", 16, 8),
    L("class1CanState", 24, 2), L("class2CanState", 26, 2),
    U("noProductInfoYet", 28, 1)>>)

productInformationPgn ==
  Fast(126996, 134, <<
    U("nmea2000Version", 0, 16), U("productCode", 16, 16),
    T("modelId", 32, 256), T("softwareVersionCode", 288, 256),
    T("modelVersion", 544, 256), T("modelSerialCode", 800, 256),
    U("certificationLevel", 1056, 8), U("loadEquivalency", 1064, 8)>>)

configurationInformationPgn ==
  Fast(126998, 70, <<
    U("installationDescription1Length", 0, 8),
    T("installationDescription1", 8, 256),
    U("installationDescription2Length", 264, 8),
    T("installationDescription2", 272, 256)>>)

isoAcknowledgmentPgn ==
  Single(59392, 8, <<
    L("control", 0, 8), U("groupFunction", 8, 8),
    U("addressAcknowledged", 40, 8), U("pgnAcknowledged", 48, 24)>>)

isoRequestPgn ==
  Single(59904, 3, <<
    U("requestedPgn", 0, 24)>>)

mandatoryPgns ==
  {heartbeatPgn, productInformationPgn, configurationInformationPgn,
   isoAcknowledgmentPgn, isoRequestPgn}

-----------------------------------------------------------------------------
(* nmea2000/pgns/navigation.dart *)

positionRapidUpdatePgn ==
  Fast(129025, 8, <<
    S("latitude", 0, 32), S("longitude", 32, 32)>>)

cogSogRapidUpdatePgn ==
  Fast(129026, 8, <<
    U("sid", 0, 8), L("cogReference", 8, 2), R(10, 6), U("cog", 16, 16),
    U("sog", 32, 16), R(48, 16)>>)

gnssPositionDataPgn ==
  Fast(129029, 43, <<
    U("sid", 0, 8), U("daysSince1970", 8, 16),
    U("secondsSinceMidnight", 24, 32), S("latitude", 56, 64),
    S("longitude", 120, 64), S("altitude", 184, 64), L("gnssType", 248, 4),
    L("method", 252, 4), L("integrity", 256, 2), R(258, 6),
    U("numberOfSvs", 264, 8), S("hdop", 272, 16), S("pdop", 288, 16),
    S("geoidalSeparation", 304, 32)>>)

timeDatePgn ==
  Fast(129033, 8, <<
    U("daysSince1970", 0, 16), U("secondsSinceMidnight", 16, 32),
    S("localOffset", 48, 16)>>)

distanceLogPgn ==
  Fast(128275, 14, <<
    U("daysSince1970", 0, 16), U("secondsSinceMidnight", 16, 32),
    U("log", 48, 32), U("tripLog", 80, 32)>>)

navigationPgns ==
  {positionRapidUpdatePgn, cogSogRapidUpdatePgn, gnssPositionDataPgn,
   timeDatePgn, distanceLogPgn}

-----------------------------------------------------------------------------
(* nmea2000/pgns/rudder.dart *)

rudderPgn ==
  Single(127245, 8, <<
    U("instance", 0, 8), L("directionOrder", 8, 3), R(11, 5),
    S("angleOrder", 16, 16), S("position", 32, 16), R(48, 16)>>)

rudderPgns == {rudderPgn}

-----------------------------------------------------------------------------
(* nmea2000/pgns/set_drift.dart *)

setDriftRapidUpdatePgn ==
  Single(128281, 8, <<
    U("sid", 0, 8), L("setReference", 8, 2), R(10, 6), U("set_", 16, 16),
    U("drift", 32, 16), R(48, 16)>>)

setDriftPgns == {setDriftRapidUpdatePgn}

-----------------------------------------------------------------------------
(* nmea2000/pgns/wind.dart *)

windDataPgn ==
  Single(130306, 6, <<
    U("sid", 0, 8), U("windSpeed", 8, 16), U("windAngle", 24, 16),
    L("reference", 40, 3), R(43, 5)>>)

windPgns == {windDataPgn}

-----------------------------------------------------------------------------
(* rvc/dgns/charger.dart *)

chargerStatusDgn ==
  Single(131015, 8, <<
    U("instance", 0, 8), U("chargeVoltage", 8, 16),
    U("chargeCurrent", 24, 16), U("chargePercentCurrent", 40, 8),
    L("operatingState", 48, 4), L("defaultState", 52, 2),
    L("autoRechargeEnable", 54, 2), U("forceCharge", 56, 2), R(58, 6)>>)

chargerCommandDgn ==
  Single(130720, 8, <<
    U("instance", 0, 8), R(8, 4), L("chargeEnable", 12, 2), R(14, 2),
    L("defaultState", 16, 2), L("autoRechargeEnable", 18, 2),
    L("forceCharge", 20, 2), R(22, 42)>>)

chargerDgns == {chargerStatusDgn, chargerCommandDgn}

-----------------------------------------------------------------------------
(* rvc/dgns/datetime_alarm.dart *)

dateTimeStatusDgn ==
  Single(131071, 8, <<
    U("year", 0, 8), U("month", 8, 4), R(12, 4), U("day", 16, 8),
    L("dayOfWeek", 24, 4), R(28, 4), U("hour", 32, 8), U("minute", 40, 8),
    U("second", 48, 8), R(56, 8)>>)

genericAlarmStatusDgn ==
  Single(130777, 8, <<
    L("operatingStatus", 0, 2), U("sourceType", 2, 6),
    U("sourceInstance", 8, 8), U("alarmType", 16, 8), R(24, 40)>>)

dateTimeAlarmDgns == {dateTimeStatusDgn, genericAlarmStatusDgn}

-----------------------------------------------------------------------------
(* rvc/dgns/dc_power.dart *)

dcSourceStatus1Dgn ==
  Single(131069, 8, <<
    U("instance", 0, 8), U("devicePriority", 8, 4), R(12, 4),
    U("dcVoltage", 16, 16), U("dcCurrent", 32, 32)>>)

dcSourceStatus2Dgn ==
  Single(131068, 8, <<
    U("instance", 0, 8), U("devicePriority", 8, 4), R(12, 4),
    U("sourceTemperature", 16, 16), U("stateOfCharge", 32, 8),
    U("timeRemaining", 40, 16), R(56, 8)>>)

dcSourceStatus3Dgn ==
  Single(131067, 8, <<
    U("instance", 0, 8), U("devicePriority", 8, 4), R(12, 4),
    U("stateOfHealth", 16, 8), U("capacity", 24, 16), R(40, 24)>>)

dcPowerDgns == {dcSourceStatus1Dgn, dcSourceStatus2Dgn, dcSourceStatus3Dgn}

-----------------------------------------------------------------------------
(* rvc/dgns/generator.dart *)

generatorStatus1Dgn ==
  Single(131036, 8, <<
    U("instance", 0, 8), L("operatingStatus", 8, 4), R(12, 4),
    U("engineSpeed", 16, 16), U("engineHours", 32, 32)>>)

generatorCommandDgn ==
  Single(130711, 8, <<
    U("instance", 0, 8), L("command", 8, 4), R(12, 52)>>)

generatorDgns == {generatorStatus1Dgn, generatorCommandDgn}

-----------------------------------------------------------------------------
(* rvc/dgns/hvac.dart *)

thermostatStatus1Dgn ==
  Single(131042, 8, <<
    U("instance", 0, 8), L("operatingMode", 8, 4), L("fanMode", 12, 4),
    L("scheduleMode", 16, 4), L("fanSpeed", 20, 4),
    U("setpointHeat", 24, 16), U("setpointCool", 40, 16), R(56, 8)>>)

thermostatCommand1Dgn ==
  Single(130809, 8, <<
    U("instance", 0, 8), L("operatingMode", 8, 4), L("fanMode", 12, 4),
    L("scheduleMode", 16, 4), L("fanSpeed", 20, 4),
    U("setpointHeat", 24, 16), U("setpointCool", 40, 16), R(56, 8)>>)

hvacDgns == {thermostatStatus1Dgn, thermostatCommand1Dgn}

-----------------------------------------------------------------------------
(* rvc/dgns/inverter.dart *)

inverterStatusDgn ==
  Single(131012, 8, <<
    U("instance", 0, 8), L("operatingStatus", 8, 4),
    L("inverterEnable", 12, 2), R(14, 2), U("dcVoltage", 16, 16),
    R(32, 32)>>)

inverterCommandDgn ==
  Single(130717, 8, <<
    U("instance", 0, 8), L("enable", 8, 2), R(10, 54)>>)

inverterDgns == {inverterStatusDgn, inverterCommandDgn}

-----------------------------------------------------------------------------
(* rvc/dgns/lighting.dart *)

dcDimmerStatus3Dgn ==
  Single(130782, 8, <<
    U("instance", 0, 8), U("group", 8, 8), U("brightness", 16, 8),
    L("enable", 24, 2), U("delayDuration", 26, 6), R(32, 32)>>)

dcDimmerCommand2Dgn ==
  Single(130779, 8, <<
    U("instance", 0, 8), U("group", 8, 8), U("brightness", 16, 8),
    L("command", 24, 2), R(26, 38)>>)

lightingDgns == {dcDimmerStatus3Dgn, dcDimmerCommand2Dgn}

-----------------------------------------------------------------------------
(* rvc/dgns/tanks.dart *)

tankStatusDgn ==
  Single(130999, 8, <<
    U("instance", 0, 8), R(8, 8), U("level", 16, 16), U("capacity", 32, 16),
    R(48, 16)>>)

tankDgns == {tankStatusDgn}

-----------------------------------------------------------------------------
(* A registry maps a number to its definition; what is registered later    *)
(* replaces what was registered for the same number before.                *)
Register(registry, messages) ==
  [pgn \in DOMAIN registry \cup {m.pgn : m \in messages} |->
     IF \E m \in messages : m.pgn = pgn
     THEN CHOOSE m \in messages : m.pgn = pgn
     ELSE registry[pgn]]

Nmea2000Registry ==
  FoldLeft(Register, <<>>,
           <<mandatoryPgns, navigationPgns, windPgns, depthSpeedPgns, headingPgns,
             rudderPgns, enginePgns, electricalPgns, setDriftPgns>>)

RvcRegistry ==
  FoldLeft(Register, <<>>,
           <<dcPowerDgns, tankDgns, hvacDgns, lightingDgns, generatorDgns,
             chargerDgns, inverterDgns, dateTimeAlarmDgns>>)
=============================================================================
