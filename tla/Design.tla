------------------------------- MODULE Design -------------------------------
(***************************************************************************)
(* A TSim design while it is built and loaded: the tree of components, the *)
(* ports of units and the endpoints of pathways, Connect, validation, the  *)
(* clock domains that Simulator::LoadTestbench forms, and the shares in    *)
(* which a component's power is spread over its pathways and modules.      *)
(*                                                                         *)
(* A design d is a record of functions on names.  An endpoint is           *)
(* <<pathway, side, id>> with side "lhs" or "rhs" and ids from 0; a port   *)
(* is a record of its name, kind, id in its kind and message prototype.    *)
(***************************************************************************)
EXTENDS Integers, Sequences, FiniteSets, SequencesExt, TLC

NoComponent == ""
NoClock == ""
Null == <<>>          \* a port without endpoint, an endpoint without unit
PortCap == <<"cap">>  \* Endpoint::PORTCAP, closes a port that is not used
MaxPorts == 64        \* MAX_MODULE_PORTS
MaxEndpoints == 64    \* MAX_ENDPOINTS
ConnLatencyLimit == 10000   \* CONN_LATENCY_LIMIT
Undefined == -1       \* a power nobody has given

\* Every operation yields the design and whether it succeeded; "stop" is a
\* DESIGN_FATAL or a null pointer, which end the program.
Done(d) == [res |-> "ok", d |-> d]
Refused(d) == [res |-> "error", d |-> d]
Stop(d) == [res |-> "stop", d |-> d]

Blank(top) ==
  [parent |-> (top :> NoComponent), kids |-> (top :> <<>>), own |-> (top :> <<>>),
   clock |-> (top :> NoClock), tags |-> (top :> <<>>),
   dis |-> (top :> Undefined), sta |-> (top :> Undefined),
   dyn |-> (top :> Undefined),
   modules |-> {}, devices |-> {}, ports |-> <<>>, endpt |-> <<>>,
   proto |-> <<>>, latency |-> <<>>, cap |-> <<>>, joined |-> <<>>, toggles |-> {"int"}]

DesignUnits(d) == d.modules \cup d.devices

\* The two walks end at a root or a leaf without ever comparing.
RECURSIVE IsAncestor(_, _, _)
IsAncestor(d, c, x) == IF d.parent[c] = NoComponent THEN FALSE ELSE IsAncestor(d, d.parent[c], x)

RECURSIVE IsDescendant(_, _, _)
IsDescendant(d, c, x) == \E i \in DOMAIN d.kids[c] : IsDescendant(d, d.kids[c][i], x)

AddChild(d, c, x) ==
  IF IsAncestor(d, c, x) \/ IsDescendant(d, c, x) THEN Refused(d)
  ELSE Done([d EXCEPT !.kids[c] = Append(@, x)])

\* The constructor of a component adds itself to its parent.
NewComponent(d, c, parent) ==
  AddChild([d EXCEPT !.parent = (c :> parent) @@ @, !.kids = (c :> <<>>) @@ @, !.own = (c :> <<>>) @@ @,
                     !.clock = (c :> NoClock) @@ @, !.tags = (c :> <<>>) @@ @,
                     !.dis = (c :> Undefined) @@ @, !.sta = (c :> Undefined) @@ @,
                     !.dyn = (c :> Undefined) @@ @],
           parent, c)

\* A port is found by its name, the first one of that name.
PortsOf(d, u, kind) == {i \in DOMAIN d.ports[u] : d.ports[u][i].kind = kind}
Named(d, u, name) == {i \in DOMAIN d.ports[u] : d.ports[u][i].name = name}
PortAt(d, u, name) == CHOOSE i \in Named(d, u, name) : \A j \in Named(d, u, name) : i <= j

\* One port more than the array holds is let through.
CreatePort(d, u, name, kind, proto) ==
  LET n == Cardinality(PortsOf(d, u, kind))
  IN IF n > MaxPorts THEN Stop(d)
     ELSE Done([d EXCEPT !.ports[u] = Append(@, [name |-> name, kind |-> kind, id |-> n, proto |-> proto]),
                         !.endpt[u] = Append(@, Null)])

NewUnit(d, u, parent) ==
  LET c == NewComponent(d, u, parent).d
  IN [c EXCEPT !.ports = (u :> <<>>) @@ @, !.endpt = (u :> <<>>) @@ @]

NewModule(d, u, parent) == LET n == NewUnit(d, u, parent) IN [n EXCEPT !.modules = @ \cup {u}]

\* A device has one output; CreatePort makes its inputs and controls.
NewDevice(d, u, parent, proto) ==
  LET n == NewUnit(d, u, parent)
  IN CreatePort([n EXCEPT !.devices = @ \cup {u}], u, "output", "out", proto).d

Input(i) == "input" \o ToString(i)

RECURSIVE WithInputs(_, _, _, _)
WithInputs(d, u, n, proto) ==
  IF n = 0 THEN d ELSE CreatePort(WithInputs(d, u, n - 1, proto), u, Input(n - 1), "in", proto).d

NewMux(d, u, parent, proto, n) ==
  Done(CreatePort(WithInputs(NewDevice(d, u, parent, proto), u, n, proto), u, "select", "ctrl", "int").d)

NewGate(d, u, parent, proto, n) ==
  IF proto \notin d.toggles THEN Stop(d) ELSE Done(WithInputs(NewDevice(d, u, parent, proto), u, n, proto))

\* A pathway of nl senders and nr receivers; AddEndpoint makes 64 of each.
NewPathway(d, p, parent, proto, latency, nl, nr, lcap, rcap) ==
  LET ids(n) == {i \in 0..(n - 1) : i < MaxEndpoints}
      ends == ({p} \X {"lhs"} \X ids(nl)) \cup ({p} \X {"rhs"} \X ids(nr))
  IN IF latency > ConnLatencyLimit \/ rcap = 0 THEN Stop(d)
     ELSE Done([d EXCEPT !.own[parent] = Append(@, p),
                         !.proto = (p :> proto) @@ @, !.latency = (p :> latency) @@ @,
                         !.cap = [e \in ends |-> IF e[2] = "lhs" THEN lcap ELSE rcap] @@ @,
                         !.joined = [e \in ends |-> Null] @@ @])

Ends(d, p, side) == {e \in DOMAIN d.joined : e[1] = p /\ e[2] = side}

-----------------------------------------------------------------------------
(* Connect *)

SideOf == [in |-> "rhs", ctrl |-> "rhs", out |-> "lhs"]

\* Device::IsValidConnection: the capacity is set to zero whatever follows.
DeviceEnd(d, port, e) ==
  IF port.kind = "out" THEN Done(d)
  ELSE IF e = PortCap THEN Stop(d)
  ELSE LET z == [d EXCEPT !.cap[e] = 0]
       IN IF d.latency[e[1]] # 0 \/ (port.kind = "ctrl" /\ d.proto[e[1]] \notin d.toggles)
          THEN Refused(z) ELSE Done(z)

ModuleEnd(d, port, e) ==
  IF port.kind = "in" /\ e # PortCap /\ d.cap[e] = 0 THEN Stop(d) ELSE Done(d)

\* An endpoint the port had before, or a port the endpoint had, is not told.
UnitConnect(d, u, name, e) ==
  IF Named(d, u, name) = {} THEN Refused(d)
  ELSE LET i == PortAt(d, u, name)
           port == d.ports[u][i]
       IN IF e = Null THEN Done([d EXCEPT !.endpt[u][i] = Null])
          ELSE IF e # PortCap /\ (d.proto[e[1]] # port.proto \/ e[2] # SideOf[port.kind]) THEN Refused(d)
          ELSE LET v == IF u \in d.devices THEN DeviceEnd(d, port, e) ELSE ModuleEnd(d, port, e)
               IN IF v.res # "ok" THEN v
                  ELSE IF e = PortCap THEN Done([v.d EXCEPT !.endpt[u][i] = e])
                  ELSE Done([v.d EXCEPT !.endpt[u][i] = e, !.joined[e] = <<u, name>>])

ExportPort(d, c, name, child, cname) == Done([d EXCEPT !.tags[c] = (name :> <<child, cname>>) @@ @])

RECURSIVE Connect(_, _, _, _)
Connect(d, c, name, e) ==
  IF c \in DesignUnits(d) THEN UnitConnect(d, c, name, e)
  ELSE IF name \notin DOMAIN d.tags[c] THEN Refused(d)
  ELSE Connect(d, d.tags[c][name][1], d.tags[c][name][2], e)

-----------------------------------------------------------------------------
(* What LoadTestbench makes of it *)

\* Components in breadth, each with its pathways and then its units.
RECURSIVE Collect(_, _, _)
Collect(d, queue, found) ==
  IF queue = <<>> THEN found
  ELSE LET c == Head(queue)
           units == SelectSeq(d.kids[c], LAMBDA x : x \in DesignUnits(d))
           comps == SelectSeq(d.kids[c], LAMBDA x : x \notin DesignUnits(d))
       IN Collect(d, Tail(queue) \o comps,
                  [modules |-> found.modules \o SelectSeq(units, LAMBDA x : x \in d.modules),
                   devices |-> found.devices \o SelectSeq(units, LAMBDA x : x \in d.devices),
                   pathways |-> found.pathways \o d.own[c]])

Collected(d, top) == Collect(d, <<top>>, [modules |-> <<>>, devices |-> <<>>, pathways |-> <<>>])

\* Component::GetClock, which modules inherit.
RECURSIVE GetClock(_, _)
GetClock(d, c) ==
  IF d.clock[c] # NoClock THEN d.clock[c]
  ELSE IF d.parent[c] = NoComponent THEN NoClock
  ELSE GetClock(d, d.parent[c])

\* Pathway::GetClockSet and Device::GetClockSet ask each other: the clocks of
\* the modules from which a message gets here through inputs of devices.  A
\* loop of devices never answers, and an end that is not connected is a null
\* pointer; both show as a mark among the clocks.
Marks == {"endless", "null"}

RECURSIVE PathwayClocks(_, _, _), UnitClocks(_, _, _)
PathwayClocks(d, p, asked) ==
  UNION {IF d.joined[e] = Null THEN {"null"} ELSE UnitClocks(d, d.joined[e][1], asked) : e \in Ends(d, p, "lhs")}

UnitClocks(d, u, asked) ==
  IF u \in d.modules THEN {GetClock(d, u)} \ {NoClock}
  ELSE IF u \in asked THEN {"endless"}
  ELSE LET of(i) == IF d.endpt[u][i] \in {Null, PortCap} THEN {"null"}
                    ELSE PathwayClocks(d, d.endpt[u][i][1], asked \cup {u})
           sets == {of(i) : i \in PortsOf(d, u, "in")}
       IN IF {} \in sets THEN {} ELSE UNION sets

\* The clock domains by name, each with what is called in it.
ClockDomains(d, top) ==
  LET found == Collected(d, top)
      clocks(x) == IF x \in DesignUnits(d) THEN UnitClocks(d, x, {}) ELSE PathwayClocks(d, x, {})
      all == Range(found.modules \o found.devices \o found.pathways)
  IN IF \E x \in all : clocks(x) = {} \/ clocks(x) \cap Marks # {} THEN Stop(d)
     ELSE [res |-> "ok",
           d |-> [c \in UNION {clocks(x) : x \in all} |->
                    LET in(x) == c \in clocks(x)
                    IN [modules |-> SelectSeq(found.modules, in), devices |-> SelectSeq(found.devices, in),
                        pathways |-> SelectSeq(found.pathways, in)]]]

-----------------------------------------------------------------------------
(* Validate: the number of errors *)

PathwayErrors(d, p) ==
  Cardinality({e \in Ends(d, p, "rhs") : d.cap[e] # 0 /\ d.cap[e] <= d.latency[p]})
  + Cardinality({e \in Ends(d, p, "rhs") \cup Ends(d, p, "lhs") : d.joined[e] = Null})

\* Ports that are not connected are errors of a device and warnings of a module.
UnitErrors(d, u) ==
  IF u \in d.modules THEN 0 ELSE Cardinality({i \in DOMAIN d.ports[u] : d.endpt[u][i] = Null})

RECURSIVE ComponentErrors(_, _)
ComponentErrors(d, c) ==
  LET of(x) == IF x \in DesignUnits(d) THEN UnitErrors(d, x) ELSE ComponentErrors(d, x)
      up == d.parent[c]
  IN (IF GetClock(d, c) = NoClock THEN 1 ELSE 0)
     + (IF up # NoComponent /\ Undefined \notin {d.dis[up], d.dis[c]} /\ d.dis[up] < d.dis[c] THEN 1 ELSE 0)
     + FoldLeft(LAMBDA n, x : n + of(x), 0, d.kids[c])
     + FoldLeft(LAMBDA n, p : n + PathwayErrors(d, p), 0, d.own[c])

\* The first domain without a period (-1) ends the program, in Validate.
ValidateTestbench(d, top, period) ==
  LET domains == ClockDomains(d, top)
  IN IF domains.res = "stop" \/ (\E c \in DOMAIN domains.d : period[c] = Undefined) THEN "stop"
     ELSE IF ComponentErrors(d, top) > 0 \/ DOMAIN domains.d = {} \/ (\E c \in DOMAIN domains.d : period[c] = 0)
     THEN "error" ELSE "ok"

-----------------------------------------------------------------------------
(* The power of a component, given in the specification, is what is left   *)
(* after the children with a power of their own, spread evenly over edges: *)
(* its pathways (dissipation) or modules (static, dynamic) and those of    *)
(* the children without.  Numbers are multiples that divide evenly.        *)

DirectModules(d, c) == Cardinality({i \in DOMAIN d.kids[c] : d.kids[c][i] \in d.modules})

RECURSIVE DescendantModules(_, _), DescendantPathways(_, _)
DescendantModules(d, c) ==
  FoldLeft(LAMBDA n, x : n + DescendantModules(d, x), DirectModules(d, c), d.kids[c])
DescendantPathways(d, c) ==
  FoldLeft(LAMBDA n, x : n + DescendantPathways(d, x), Len(d.own[c]), d.kids[c])

Left(d, c, power, given) ==
  FoldLeft(LAMBDA n, x : IF power[x] # Undefined THEN n - power[x] ELSE n, given, d.kids[c])
PathwayEdges(d, c) ==
  FoldLeft(LAMBDA n, x : IF d.dis[x] = Undefined THEN n + DescendantPathways(d, x) ELSE n,
           Len(d.own[c]), d.kids[c])
ModuleEdges(d, c, power) ==
  FoldLeft(LAMBDA n, x : IF power[x] = Undefined THEN n + DescendantModules(d, x) ELSE n,
           DirectModules(d, c), d.kids[c])

RECURSIVE DisPowerShare(_, _, _)
DisPowerShare(d, c, child) ==
  LET given == IF d.dis[c] # Undefined THEN d.dis[c] ELSE DisPowerShare(d, d.parent[c], c)
  IN IF (d.parent[c] = NoComponent /\ d.dis[c] = Undefined) \/ given = Undefined THEN Undefined
     ELSE (Left(d, c, d.dis, given) * Len(d.own[child]))
          \div PathwayEdges(d, c)

DirectDisPower(d, c) ==
  IF d.dis[c] # Undefined
  THEN (Left(d, c, d.dis, d.dis[c]) * Len(d.own[c])) \div PathwayEdges(d, c)
  ELSE IF d.parent[c] # NoComponent THEN DisPowerShare(d, d.parent[c], c) ELSE Undefined

\* The share of a child is multiplied by the modules of the parent.
RECURSIVE ModulePowerShare(_, _, _, _)
ModulePowerShare(d, c, child, power) ==
  LET given == IF power[c] # Undefined THEN power[c] ELSE ModulePowerShare(d, d.parent[c], c, power)
  IN IF (d.parent[c] = NoComponent /\ power[c] = Undefined) \/ given = Undefined THEN Undefined
     ELSE (Left(d, c, power, given) * DirectModules(d, c))
          \div ModuleEdges(d, c, power)

DirectModulePower(d, c, power) ==
  IF power[c] # Undefined
  THEN (Left(d, c, power, power[c]) * DirectModules(d, c))
       \div ModuleEdges(d, c, power)
  ELSE IF d.parent[c] # NoComponent THEN ModulePowerShare(d, d.parent[c], c, power) ELSE Undefined

DirectStaticPower(d, c) == DirectModulePower(d, c, d.sta)
DirectDynamicPower(d, c) == DirectModulePower(d, c, d.dyn)
-----------------------------------------------------------------------------
(***************************************************************************)
(* The order in which Simulator::Simulate calls the clock functions of one *)
(* domain, as LoadTestbench finds it: modules and the pathways in front of *)
(* modules first, then pathways and devices as soon as what they wait for  *)
(* is resolved.  Both are kept in a std::map by address, hence in any      *)
(* order, and are erased from it while it is walked, after which the walk  *)
(* may leave out any of the rest until the next pass.                      *)
(***************************************************************************)

\* Masks of 64 bits, given by the bits that are not resolved.  A shift by 64
\* is a shift by 0 on x86, and 1 << id is an int: id 31 reaches all higher
\* bits and the others come back after 32.
Unresolved(n) == 0..((n % 64) - 1)
Clears(id) == IF id % 32 = 31 THEN 31..63 ELSE {id % 32}

\* What an endpoint is connected to, and the path of a port.
Unit(d, e) == d.joined[e][1]
PortOf(d, e) == d.ports[Unit(d, e)][PortAt(d, Unit(d, e), d.joined[e][2])]
PathOf(d, u, i) == d.endpt[u][i][1]
IdOf(d, u, i) == d.endpt[u][i][3]

IsControlPathway(d, p) == \E e \in Ends(d, p, "rhs") : PortOf(d, e).kind = "ctrl"
IsPreModulePathway(d, p) == \E e \in Ends(d, p, "rhs") : Unit(d, e) \in d.modules

ClearedBits(ids) == UNION {Clears(id) : id \in ids}

\* Ends at modules, or at devices of other domains, are resolved at once, and
\* so are the receivers of control pathways, which are never blocked.
PathwayState(d, dom, p) ==
  LET settled(side) ==
        ClearedBits({e[3] : e \in {f \in Ends(d, p, side) : Unit(d, f) \notin Range(dom.devices)}})
      size(side) == Cardinality(Ends(d, p, side))
  IN [lhs |-> Unresolved(size("lhs")) \ settled("lhs"),
      rhs |-> Unresolved(size("rhs")) \ (IF IsControlPathway(d, p) THEN ClearedBits(0..(size("rhs") - 1))
                                                                   ELSE settled("rhs"))]

DeviceState(d, dom, u) ==
  LET foreign(kind) == {d.ports[u][i].id : i \in {j \in PortsOf(d, u, kind) :
                                                    PathOf(d, u, j) \notin Range(dom.pathways)}}
      left(kind) == Unresolved(Cardinality(PortsOf(d, u, kind))) \ ClearedBits(foreign(kind))
  IN [in |-> left("in"), ctrl |-> left("ctrl"), pre |-> FALSE]

\* The state of the search; order is the part of clockers after the base
\* functions.
Start(d, dom) ==
  [paths |-> [p \in Range(dom.pathways) |-> PathwayState(d, dom, p)],
   devs |-> [u \in Range(dom.devices) |-> DeviceState(d, dom, u)],
   order |-> <<>>, error |-> "none"]

\* The functions that come first, in this order.
BaseFunctions(d, dom) ==
  [i \in DOMAIN dom.modules |-> <<dom.modules[i], "pre">>]
  \o [i \in DOMAIN SelectSeq(dom.pathways, LAMBDA p : IsPreModulePathway(d, p)) |->
        <<SelectSeq(dom.pathways, LAMBDA p : IsPreModulePathway(d, p))[i], "pre">>]
  \o [i \in DOMAIN dom.modules |-> <<dom.modules[i], "post">>]

Without(f, x) == [y \in DOMAIN f \ {x} |-> f[y]]

PathResolved(s, p) == s.paths[p].lhs = {} /\ s.paths[p].rhs = {}

\* A resolved pathway is called, and the ports it leads to are resolved.
SchedulePathway(d, s, p) ==
  LET reached(u, kind) ==
        ClearedBits({PortOf(d, e).id : e \in {f \in Ends(d, p, "rhs") : Unit(d, f) = u /\ PortOf(d, f).kind = kind}})
  IN [s EXCEPT !.paths = Without(@, p), !.order = Append(@, <<p, "post">>),
               !.devs = [u \in DOMAIN @ |-> [@[u] EXCEPT !.in = @ \ reached(u, "in"),
                                                         !.ctrl = @ \ reached(u, "ctrl")]]]

\* The device has decided which of its input pathways are open.  A pathway
\* that is no longer in the map, or never was, is written through end():
\* nothing that is scheduled is there.
OpenInputs(d, s, u) ==
  LET cleared(p) == ClearedBits({IdOf(d, u, i) : i \in {j \in PortsOf(d, u, "in") : PathOf(d, u, j) = p}})
  IN [s EXCEPT !.paths = [p \in DOMAIN @ |-> [@[p] EXCEPT !.rhs = @ \ cleared(p)]],
               !.order = IF s.devs[u].pre THEN @ ELSE Append(@, <<u, "pre">>),
               !.devs[u].pre = TRUE]

RunDevice(d, s, u) ==
  LET written(p) == ClearedBits({IdOf(d, u, i) : i \in {j \in PortsOf(d, u, "out") : PathOf(d, u, j) = p}})
  IN IF s.devs[u].ctrl # {} THEN [s EXCEPT !.error = "input before control"]
     ELSE [s EXCEPT !.paths = [p \in DOMAIN @ |-> [@[p] EXCEPT !.lhs = @ \ written(p)]],
                    !.order = Append(@, <<u, "post">>), !.devs = Without(@, u)]

VisitDevice(d, s, u) ==
  LET opened == IF s.devs[u].ctrl = {} THEN OpenInputs(d, s, u) ELSE s
  IN IF s.error # "none" THEN s
     ELSE IF s.devs[u].in = {} THEN RunDevice(d, opened, u) ELSE opened

\* The walks over a map in which the elements of "erased" are erased: all of
\* it, or any part that erases something.
Walks(S, erased) ==
  {q \in UNION {[1..k -> S] : k \in 0..Cardinality(S)} :
     /\ \A i, j \in DOMAIN q : q[i] = q[j] => i = j
     /\ Range(q) = S \/ Range(q) \cap erased # {}}

PathwayPass(d, s) ==
  LET ready == {p \in DOMAIN s.paths : PathResolved(s, p)}
  IN {FoldLeft(LAMBDA t, p : SchedulePathway(d, t, p), s, q) : q \in Walks(ready, ready)}

DevicePass(d, s) ==
  LET ready == {u \in DOMAIN s.devs : s.devs[u].in = {}}
  IN {FoldLeft(LAMBDA t, u : VisitDevice(d, t, u), s, q) : q \in Walks(DOMAIN s.devs, ready)}

\* How the search may end.
RECURSIVE Schedules(_, _)
Schedules(d, s) ==
  IF s.error # "none" THEN {s}
  ELSE IF DOMAIN s.paths = {}
  THEN {IF DOMAIN s.devs = {} THEN s ELSE [s EXCEPT !.error = "devices left"]}
  ELSE UNION {IF t.order = s.order /\ t.error = "none" THEN {[t EXCEPT !.error = "cannot proceed"]}
              ELSE Schedules(d, t) : t \in UNION {DevicePass(d, t) : t \in PathwayPass(d, s)}}

\* "task schedule intra-domain clock functions" for the domain c.
ScheduleOf(d, domains, c) == Schedules(d, Start(d, domains[c]))
=============================================================================
