----------------------------- MODULE TestConfig -----------------------------
(***************************************************************************)
(* lib/test_config.py and what it uses of lib/PortRange.py and             *)
(* lib/GenIPs.py: the addresses the tests put into an SDP, the check they  *)
(* make on every SDP they get, and the common command-line options.        *)
(*                                                                         *)
(* An SDP body is here the one media section the test bodies have: audio,  *)
(* or Bob's T.38 image, both over UDP.                                     *)
(***************************************************************************)
EXTENDS Integers, Sequences

CONSTANTS
    PortDraws,   \* values of 2 * (1 + int(32765.0 * random()))
    Hosts4,      \* values of genIP('IP4')
    Hosts6       \* values of genIP('IP6'), all below 2001::

CtlPort == 22222

\* PortRange.__init__() accepts nothing beyond these.
AbsMinP == 1024
AbsMaxP == 65535

ASSUME PortDrawsAssumption ==
    \A p \in PortDraws : p \in 2 .. AbsMaxP /\ p % 2 = 0

ASSUME Hosts6Assumption ==
    Hosts6 \cap {"::1", "0:0:0:0:0:0:0:1"} = {}

\* A PortRange: "-p min-max", with the default of class test_config.
DefaultRange == [min |-> 12000, max |-> 15000]

ValidRange(r) == r.min >= AbsMinP /\ r.max <= AbsMaxP

\* A mistake: only the lower end of the range is excluded.
GenNotInRange_Above(r) == {p \in PortDraws : p # CtlPort /\ p > r.min}

\* PortRange.gennotinrange()
GenNotInRange(r) ==
    {p \in PortDraws :
        p # CtlPort /\ p \in AbsMinP .. AbsMaxP /\ (p < r.min \/ p > r.max)}

\* PortRange.isinrange()
IsInRange(r, p) == p >= r.min /\ p <= r.max

GenIP(atype) == IF atype = "IP4" THEN Hosts4 ELSE Hosts6

\* fillhostport()
FillHostPort(r, atype) ==
    [port : GenNotInRange(r), atype : {atype}, addr : GenIP(atype)]

\* test_case_config.__init__(): NH_MEDIA_IPS, or the host of the next hop.
CheckMediaIps(env, nh) == IF env = {} THEN {nh} ELSE env

\* checkhostport(), for a side that runs over atype.
CheckHostPort(r, atype, mips, sect) ==
    /\ IsInRange(r, sect.port)
    /\ atype = "IP4" => \/ "*" \in mips
                        \/ sect.atype = "IP4" /\ sect.addr \in mips
    /\ atype = "IP6" => /\ sect.atype = "IP6"
                        /\ sect.addr \in {"::1", "0:0:0:0:0:0:0:1"}

-----------------------------------------------------------------------------
(* Command lines: sequences of [opt, arg].                                 *)

CommonOpts == {"-p", "-l", "-P", "-T", "-n", "-N", "-w", "-m"}

\* test_config.__init__(): the places of the options that are not common.
LeftOpts(opts) == {i \in DOMAIN opts : opts[i].opt \notin CommonOpts}

\* The last option of each kind counts.
OptArg(opts, opt, default) ==
    LET given == {i \in DOMAIN opts : opts[i].opt = opt}
    IN  IF given = {} THEN default
        ELSE opts[CHOOSE i \in given : \A j \in given : j <= i].arg

\* -T
TestTimeoutOf(opts) == OptArg(opts, "-T", 60)
=============================================================================
