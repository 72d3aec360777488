----------------------------- MODULE Requests -------------------------------
(***************************************************************************)
(* The checks of a request to create a container (lib/validate.js and      *)
(* lib/common.js), and the options of its log, which the payload completes *)
(* (buildVmPayload in lib/backends/sdc/containers.js).                     *)
(***************************************************************************)
EXTENDS Payload

(***************************************************************************)
(* The version of a client is a text of digits and points, compared with   *)
(* the least version as text: a character is a digit, or Point, which is   *)
(* smaller.  Without a version it is the server's.                         *)
(***************************************************************************)
Point == -1
MinApiVersion == <<1, Point, 2, 0>>
ApiVersion == <<1, Point, 2, 1>>
IsBeforeText(a, b) ==
    \E n \in 0..Len(a) :
        /\ n < Len(b) /\ IsPrefix(SubSeq(a, 1, n), b)
        /\ n = Len(a) \/ a[n + 1] < b[n + 1]
reqClientApiVersion(text) ==
    LET version == IF text = NoText THEN ApiVersion ELSE text
    IN [accepted |-> ~IsBeforeText(version, MinApiVersion), version |-> version]

(***************************************************************************)
(* The log drivers: options that must be given, options with a default,    *)
(* and all those that may be given.  No other driver is known.             *)
(***************************************************************************)
LogDrivers == {"fluentd", "gelf", "json-file", "syslog", "none"}
RequiredOpts(driver) ==
    IF driver = "fluentd" THEN {"fluentd-address"}
    ELSE IF driver = "gelf" THEN {"gelf-address"}
    ELSE IF driver = "syslog" THEN {"syslog-address"} ELSE {}
DefaultOpts(driver) ==
    IF driver = "fluentd" THEN {"fluentd-tag"}
    ELSE IF driver = "gelf" THEN {"gelf-tag"}
    ELSE IF driver = "syslog" THEN {"syslog-facility", "syslog-tag"} ELSE {}
Opts(driver) == RequiredOpts(driver) \union DefaultOpts(driver) \union
                (IF driver = "json-file" THEN {"max-size", "max-file"} ELSE {})

(***************************************************************************)
(* A value is a text, with the port when it is an address with one.  A     *)
(* value of the wrong form is Malformed.                                   *)
(***************************************************************************)
Value(text, port) == [text |-> text, port |-> port]
Malformed == Value("malformed", 0)
NoPort == 0
SyslogPort == 514
Log(driver, options) == [Type |-> driver, Config |-> options]
NoOptions == [option \in {} |-> Malformed]
DriverOf(log) == IF log.Type = "" THEN "json-file" ELSE log.Type

assertLogConfig(log, config) ==
    LET driver == DriverOf(log)
        given == DOMAIN log.Config
    IN IF driver \notin config.drivers THEN "unsupported log driver"
       ELSE IF ~(RequiredOpts(driver) \subseteq given) THEN "missing required log opt"
       ELSE IF ~(given \subseteq Opts(driver)) THEN "unknown log opt"
       ELSE IF \E o \in given : log.Config[o] = Malformed THEN "invalid log opt"
       ELSE "none"

(***************************************************************************)
(* The log of the payload, as docker inspect shows it: the options and the *)
(* defaults of those that are not given; the address of a syslog gets a    *)
(* port, and there must be an address.                                     *)
(***************************************************************************)
DefaultValue(option) ==
    Value(IF option = "syslog-facility" THEN "daemon" ELSE "the id", NoPort)
WithPort(value) == IF value.port = NoPort THEN [value EXCEPT !.port = SyslogPort] ELSE value
LogConfig_(error, log) == [error |-> error, log |-> log]
logConfigOf(container) ==
    LET driver == DriverOf(container.log)
        given == container.log.Config
        filled == [o \in DOMAIN given \union DefaultOpts(driver) |->
                      IF o \in DOMAIN given THEN given[o] ELSE DefaultValue(o)]
    IN IF container.log = Absent THEN LogConfig_("none", Log("json-file", NoOptions))
       ELSE IF driver = "syslog" /\ "syslog-address" \notin DOMAIN filled
       THEN LogConfig_("thrown", Log(driver, filled))
       ELSE LogConfig_("none", Log(driver, [o \in DOMAIN filled |->
                IF driver = "syslog" /\ o = "syslog-address" THEN WithPort(filled[o])
                ELSE filled[o]]))

(***************************************************************************)
(* A port specification; a network mode; a bind, which is split at its     *)
(* colons and which the payload takes apart again.                         *)
(***************************************************************************)
assertPortBindings(bindings) ==
    IF \A b \in ToSet(bindings) : b.port \in 1..MaxPort /\ b.proto \in Protos
    THEN "none" ELSE "invalid port specification"
DefaultModes == {"", "bridge", "default"}
assertNetworkMode(mode) ==
    IF mode \in {"host", "none", "container:"} THEN "mode is not supported" ELSE "none"
assertNetworkingParams(container) ==
    IF container.mode \notin DefaultModes /\ container.links # <<>>
    THEN "links are not supported in user-defined networks" ELSE "none"
Flags == {Absent, "ro", "rw"}
IsBind(bind) == /\ bind.parts \in {2, 3} /\ bind.named /\ bind.mountpoint # ""
                /\ bind.parts = 3 => bind.flag \in Flags
validateBinds(binds) ==
    IF \A b \in ToSet(binds) : IsBind(b) THEN "none" ELSE "Invalid binds"
getVolumeInfoFromBindString(bind) ==
    IF bind.parts \in {2, 3}
    THEN [mountpoint |-> bind.mountpoint, mode |-> IF bind.parts = 3 THEN bind.flag ELSE Absent]
    ELSE [mountpoint |-> "thrown", mode |-> Absent]

(***************************************************************************)
(* A data volume is an absolute path of more than slashes.                 *)
(***************************************************************************)
checkVolumeName(volumes) ==
    IF \A v \in ToSet(volumes) : v.absolute /\ ~v.slashes THEN "none" ELSE "Invalid volume name"

(***************************************************************************)
(* The checks in order; the first that fails is the answer.                *)
(***************************************************************************)
FirstError(errors) ==
    IF \A i \in DOMAIN errors : errors[i] = "none" THEN "none"
    ELSE errors[CHOOSE i \in DOMAIN errors :
                   errors[i] # "none" /\ \A j \in 1..(i - 1) : errors[j] = "none"]
validateCreateContainer(container, config) ==
    FirstError(<<assertNetworkMode(container.mode), checkVolumeName(container.volumes),
                 assertNetworkingParams(container), assertPortBindings(container.bindings),
                 IF container.log = Absent THEN "none" ELSE assertLogConfig(container.log, config),
                 validateBinds(container.binds)>>)
=============================================================================
