------------------------------ MODULE MCDesign ------------------------------
(***************************************************************************)
(* Small designs, built call by call, and what loading them gives.         *)
(***************************************************************************)
LOCAL INSTANCE Design

\* One call of a constructor, Connect, SetClock or ExportPort.
LOCAL Call(d, c) ==
  CASE c[1] = "component" -> NewComponent(d, c[2], c[3]).d
    [] c[1] = "module" -> FoldLeft(LAMBDA m, p : CreatePort(m, c[2], p[1], p[2], p[3]).d,
                                   NewModule(d, c[2], c[3]), c[4])
    [] c[1] = "mux" -> NewMux(d, c[2], c[3], c[4], c[5]).d
    [] c[1] = "gate" -> NewGate(d, c[2], c[3], "int", c[4]).d
    [] c[1] = "path" -> NewPathway(d, c[2], c[3], c[4], 0, c[5], c[6], 0, 1).d
    [] c[1] = "connect" -> Connect(d, c[2], c[3], c[4]).d
    [] c[1] = "export" -> ExportPort(d, c[2], c[3], c[4], c[5]).d
    [] c[1] = "add" -> AddChild(d, c[2], c[3]).d
    [] c[1] = "clock" -> [d EXCEPT !.clock[c[2]] = c[3]]

LOCAL Top == "top"
LOCAL Built(calls) == FoldLeft(Call, Blank(Top), calls)
LOCAL L(p, i) == <<p, "lhs", i>>
LOCAL R(p, i) == <<p, "rhs", i>>
LOCAL Source(u, c, proto) == << <<"module", u, c, << <<"o", "out", proto>> >> >> >>
LOCAL Sink(u, c, proto) == << <<"module", u, c, << <<"i", "in", proto>> >> >> >>

\* A board of two cores in a component each, whose levels are exported: the
\* gate of the chip, a gate of one input behind it, and a manager.
LOCAL Board ==
  << <<"clock", Top, "main">>, <<"component", "core1", Top>>, <<"component", "core2", Top>>,
     <<"clock", "core1", "ddr">> >>
  \o Source("dyn1", "core1", "int") \o Source("dyn2", "core2", "int") \o Sink("manager", Top, "int")
  \o << <<"export", "core1", "DynFin", "dyn1", "o">>, <<"export", "core2", "DynFin", "dyn2", "o">>,
        <<"gate", "dynfin_and", Top, 2>>, <<"gate", "ts_buf", Top, 1>>,
        <<"path", "p1", Top, "int", 1, 1>>, <<"path", "p2", Top, "int", 1, 1>>,
        <<"path", "all", Top, "int", 1, 1>>, <<"path", "out", Top, "int", 1, 1>>,
        <<"connect", "core1", "DynFin", L("p1", 0)>>, <<"connect", "core2", "DynFin", L("p2", 0)>>,
        <<"connect", "dynfin_and", "input0", R("p1", 0)>>, <<"connect", "dynfin_and", "input1", R("p2", 0)>>,
        <<"connect", "dynfin_and", "output", L("all", 0)>>, <<"connect", "ts_buf", "input0", R("all", 0)>>,
        <<"connect", "ts_buf", "output", L("out", 0)>>, <<"connect", "manager", "i", R("out", 0)>> >>

\* A Mux between two sources, steered by a gate, and the select level also
\* read by a module.
LOCAL Steered ==
  << <<"clock", Top, "main">> >>
  \o Source("a", Top, "axon") \o Source("b", Top, "axon") \o Source("c", Top, "int")
  \o Sink("reader", Top, "axon") \o Sink("watch", Top, "int")
  \o << <<"gate", "g", Top, 1>>, <<"mux", "m", Top, "axon", 2>>,
        <<"path", "pa", Top, "axon", 1, 1>>, <<"path", "pb", Top, "axon", 1, 1>>,
        <<"path", "pc", Top, "int", 1, 1>>, <<"path", "sel", Top, "int", 1, 2>>,
        <<"path", "out", Top, "axon", 1, 1>>,
        <<"connect", "a", "o", L("pa", 0)>>, <<"connect", "b", "o", L("pb", 0)>>,
        <<"connect", "c", "o", L("pc", 0)>>, <<"connect", "g", "input0", R("pc", 0)>>,
        <<"connect", "g", "output", L("sel", 0)>>, <<"connect", "m", "select", R("sel", 0)>>,
        <<"connect", "watch", "i", R("sel", 1)>>, <<"connect", "m", "input0", R("pa", 0)>>,
        <<"connect", "m", "input1", R("pb", 0)>>, <<"connect", "m", "output", L("out", 0)>>,
        <<"connect", "reader", "i", R("out", 0)>> >>

\* The same with the second source in a domain of its own.
LOCAL TwoDomains == Steered \o << <<"clock", "b", "ddr">> >>

\* A gate and a module of another domain write the same pathway.
LOCAL Fanin ==
  << <<"clock", Top, "main">> >> \o Source("a", Top, "int") \o Source("b", Top, "int") \o Sink("r", Top, "int")
  \o << <<"clock", "a", "ddr">>, <<"gate", "g", Top, 1>>,
        <<"path", "pa", Top, "int", 1, 1>>, <<"path", "join", Top, "int", 2, 1>>,
        <<"connect", "a", "o", L("pa", 0)>>, <<"connect", "g", "input0", R("pa", 0)>>,
        <<"connect", "g", "output", L("join", 0)>>, <<"connect", "b", "o", L("join", 1)>>,
        <<"connect", "r", "i", R("join", 0)>> >>

\* A Mux that selects by what it has put out, and one that reads it.
LOCAL Loop(port) ==
  << <<"clock", Top, "main">> >> \o Source("a", Top, "int") \o Source("c", Top, "int")
  \o << <<"mux", "m", Top, "int", 2>>,
        <<"path", "pa", Top, "int", 1, 1>>, <<"path", "pc", Top, "int", 1, 1>>,
        <<"path", "out", Top, "int", 1, 1>>,
        <<"connect", "a", "o", L("pa", 0)>>, <<"connect", "c", "o", L("pc", 0)>>,
        <<"connect", "m", "input0", R("pa", 0)>>, <<"connect", "m", "output", L("out", 0)>>,
        <<"connect", "m", port, R("out", 0)>>,
        <<"connect", "m", IF port = "select" THEN "input1" ELSE "select", R("pc", 0)>> >>

\* A level that is an input of one Mux and the select of another: a control
\* pathway, which nobody waits for.
LOCAL LevelAsInput ==
  << <<"clock", Top, "main">> >>
  \o Source("a", Top, "int") \o Source("c", Top, "int") \o Sink("r1", Top, "int") \o Sink("r2", Top, "int")
  \o << <<"gate", "g", Top, 1>>, <<"mux", "m1", Top, "int", 1>>, <<"mux", "m2", Top, "int", 1>>,
        <<"path", "pa", Top, "int", 1, 3>>, <<"path", "pc", Top, "int", 1, 1>>,
        <<"path", "sel", Top, "int", 1, 1>>, <<"path", "o1", Top, "int", 1, 1>>, <<"path", "o2", Top, "int", 1, 1>>,
        <<"connect", "a", "o", L("pa", 0)>>, <<"connect", "c", "o", L("pc", 0)>>,
        <<"connect", "g", "input0", R("pc", 0)>>, <<"connect", "g", "output", L("sel", 0)>>,
        <<"connect", "m1", "select", R("sel", 0)>>, <<"connect", "m1", "input0", R("pa", 0)>>,
        <<"connect", "m2", "select", R("pa", 1)>>, <<"connect", "m2", "input0", R("pa", 2)>>,
        <<"connect", "m1", "output", L("o1", 0)>>, <<"connect", "m2", "output", L("o2", 0)>>,
        <<"connect", "r1", "i", R("o1", 0)>>, <<"connect", "r2", "i", R("o2", 0)>> >>

LOCAL GoodDesigns == {Built(c) : c \in {Board, Steered, TwoDomains, Fanin}}
LOCAL DomainsOf(d) == ClockDomains(d, Top).d
LOCAL ResultsOf(d) == UNION {{[c |-> c, s |-> s] : s \in ScheduleOf(d, DomainsOf(d), c)} : c \in DOMAIN DomainsOf(d)}

-----------------------------------------------------------------------------
\* What has to be called before what, from the connections alone: a pathway
\* after the devices that write it and after those that open or close it, a
\* device after its inputs, and before that after its controls.
LOCAL MustPrecede(d, dom, x, y) ==
  LET devs == Range(dom.devices)
      paths == Range(dom.pathways)
      inputs(u) == {PathOf(d, u, i) : i \in PortsOf(d, u, "in")}
      controls(u) == {PathOf(d, u, i) : i \in PortsOf(d, u, "ctrl")}
      outputs(u) == {PathOf(d, u, i) : i \in PortsOf(d, u, "out")}
  IN \/ \E u \in devs : x = <<u, "post">> /\ y[1] \in outputs(u) \cap paths /\ y[2] = "post"
     \/ \E u \in devs : x = <<u, "pre">> /\ y[1] \in inputs(u) \cap paths /\ y[2] = "post"
     \/ \E u \in devs : x[1] \in inputs(u) /\ x[2] = "post" /\ y = <<u, "post">>
     \/ \E u \in devs : x[1] \in controls(u) /\ x[2] = "post" /\ y = <<u, "pre">>
     \/ \E u \in devs : x = <<u, "pre">> /\ y = <<u, "post">>

LOCAL Called(dom) == (Range(dom.devices) \X {"pre", "post"}) \cup (Range(dom.pathways) \X {"post"})

\* In every design without a loop each clock function is called once in a
\* cycle, and a level or a choice has got through all devices in it
\* (Simulator.cpp, "schedule rest of clock functions"); Simulation relies on it.
ASSUME ScheduleRespectsOrder ==
  \A d \in GoodDesigns : \A r \in ResultsOf(d) :
    LET order == r.s.order
        dom == DomainsOf(d)[r.c]
    IN /\ r.s.error = "none"
       /\ Range(order) = Called(dom) /\ Len(order) = Cardinality(Called(dom))
       /\ \A i, j \in DOMAIN order : MustPrecede(d, dom, order[i], order[j]) => i < j

\* The base functions call the modules before and after the pathways in front
\* of them, whatever the devices.
ASSUME ModulesComeFirst ==
  \A d \in GoodDesigns : \A c \in DOMAIN DomainsOf(d) :
    LET base == BaseFunctions(d, DomainsOf(d)[c])
        dom == DomainsOf(d)[c]
    IN \A i, j \in DOMAIN base :
         base[i][1] \in d.modules /\ base[i][2] = "pre" /\ base[j][1] \in Range(dom.pathways) => i < j

\* A loop through a select is reported ("possible device loop"); one through
\* inputs is not, as the clock domains of its devices are never found.
ASSUME SelectLoopIsReported ==
  /\ {r.s.error : r \in ResultsOf(Built(Loop("select")))} = {"cannot proceed"}
  /\ UnitClocks(Built(Loop("input1")), "m", {}) \cap Marks = {"endless"}
  /\ ClockDomains(Built(Loop("input1")), Top).res = "stop"

\* A level that is an input of one Mux and the select of another is not held
\* back until the first has chosen: the load fails ("INPUT cannot be resolved
\* before CONTROL resolved") unless the walk happens to leave the Mux out.
ASSUME LevelAsInputIsRefused ==
  {r.s.error : r \in ResultsOf(Built(LevelAsInput))} = {"none", "input before control"}

\* A gate of 33 inputs is taken for complete when 32 have come, and one of 64
\* with the first; a gate of 32 is not.
ASSUME WideGateIsEarly ==
  /\ Unresolved(33) \ ClearedBits(0..31) = {}
  /\ Unresolved(64) = {}
  /\ \A n \in 1..32 : \A i \in 0..(n - 1) : Unresolved(n) \ ClearedBits(0..(n - 1) \ {i}) # {}

\* A pathway or device is in the domain of each module a message comes from
\* on the way through devices (Pathway and Device::GetClockSet), and every
\* module is found once and in one domain.
ASSUME DomainsFollowMessages ==
  \A d \in GoodDesigns :
    LET doms == DomainsOf(d)
        RECURSIVE from(_)
        from(p) == UNION {LET u == Unit(d, e)
                          IN IF u \in d.modules THEN {u} ELSE UNION {from(PathOf(d, u, i)) : i \in PortsOf(d, u, "in")}
                            : e \in Ends(d, p, "lhs")}
    IN /\ \A c \in DOMAIN doms : \A p \in DOMAIN d.proto :
            p \in Range(doms[c].pathways) <=> \E u \in from(p) : GetClock(d, u) = c
       /\ \A u \in d.modules : Cardinality({c \in DOMAIN doms : u \in Range(doms[c].modules)}) = 1
       /\ Len(Collected(d, Top).modules) = Cardinality(d.modules)

\* The designs pass ValidateTestbench if all clocks have a period, each endpoint is where its port says,
\* and inputs of devices queue nothing.
ASSUME BuiltDesignsAreValid ==
  \A d \in GoodDesigns :
    /\ LET period(n) == [c \in DOMAIN DomainsOf(d) |-> IF c = "main" THEN n ELSE 1]
       IN \A n \in {Undefined, 0, 1} :
            ValidateTestbench(d, Top, period(n)) = (CASE n = Undefined -> "stop" [] n = 0 -> "error" [] n = 1 -> "ok")
    /\ \A u \in DesignUnits(d) : \A i \in DOMAIN d.ports[u] :
         /\ d.joined[d.endpt[u][i]] = <<u, d.ports[u][i].name>>
         /\ u \in d.devices /\ d.ports[u][i].kind # "out" => d.cap[d.endpt[u][i]] = 0

\* A mistake in the connections that Connect or Validate tells, and one that
\* they do not: an endpoint connected to a second port is still the first
\* port's, which nobody reads.  AddChild refuses no duplicate, and a module
\* that is added again is called twice in a cycle.
ASSUME MistakesSeenAndUnseen ==
  LET d == Built(Steered)
      again == Connect(d, "watch", "i", R("out", 0))
      twice == Connect(NewMux(d, "m9", Top, "axon", 2).d, "m9", "input0", R("pa", 0)).d
      added == Built(Steered \o << <<"add", Top, "a">> >>)
  IN /\ Connect(d, Top, "nothing", R("out", 0)).res = "error"
     /\ Connect(d, "reader", "i", L("out", 0)).res = "error"
     /\ again.res = "error"
     /\ ComponentErrors(NewMux(d, "m9", Top, "axon", 2).d, Top) = 4
     /\ ComponentErrors(twice, Top) = 3
     /\ twice.joined[R("pa", 0)] = <<"m9", "input0">> /\ twice.endpt["m"][PortAt(d, "m", "input0")] = R("pa", 0)
     /\ ComponentErrors(added, Top) = 0
     /\ Len(SelectSeq(BaseFunctions(added, DomainsOf(added)["main"]), LAMBDA f : f[1] = "a")) = 4

-----------------------------------------------------------------------------
\* A root with power, a child with some of its own and two without, of which
\* one is inside the other.
LOCAL Powered(nested) ==
  LET d == Built(<< <<"component", "x", Top>>, <<"component", "y", IF nested THEN "x" ELSE Top>>,
                    <<"component", "z", Top>>,
                    <<"path", "p0", Top, "int", 1, 1>>, <<"path", "px", "x", "int", 1, 1>>,
                    <<"path", "py", "y", "int", 1, 1>>, <<"path", "pz", "z", "int", 1, 1>> >>
                 \o Source("u0", Top, "int") \o Source("ux1", "x", "int") \o Source("ux2", "x", "int")
                 \o Source("uz", "z", "int"))
  IN [d EXCEPT !.dis[Top] = 20, !.dis["z"] = 8, !.sta[Top] = 20, !.sta["z"] = 8, !.dyn[Top] = 8]

LOCAL Total(f(_)) == FoldLeft(LAMBDA n, c : n + f(c), 0, <<Top, "x", "y", "z">>)

\* The dissipation of a design is shared out completely as long as components
\* without a power of their own are not nested: the child of a child gets a
\* share of what was only the child's (Component::CalcDirectDisPowerShare).
ASSUME DissipationIsShared ==
  /\ LET d == Powered(FALSE) IN Total(LAMBDA c : DirectDisPower(d, c)) = 20
  /\ LET d == Powered(TRUE) IN Total(LAMBDA c : DirectDisPower(d, c)) # 20

\* The static (and dynamic) power is not shared by modules: a child gets what
\* its parent's own modules get, however many it has, also
\* none (Component::CalcDirectStaticPowerShare).
ASSUME StaticShareIsTheParents ==
  LET d == Powered(FALSE)
  IN /\ DirectStaticPower(d, "x") = DirectStaticPower(d, Top)
     /\ DirectModules(d, "x") = 2 * DirectModules(d, Top)
     /\ DirectDynamicPower(d, "x") = DirectDynamicPower(d, Top)
     /\ DirectStaticPower(d, "y") > 0 /\ DirectModules(d, "y") = 0
=============================================================================
