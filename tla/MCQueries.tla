------------------------------ MODULE MCQueries -----------------------------
(***************************************************************************)
(* Questions of every kind, over hexadecimal digits 0 and 1, uuids of      *)
(* three digits and short uuids of two.                                    *)
(***************************************************************************)
EXTENDS Queries

Upto(set, n) == UNION {[1..k -> set] : k \in 0..n}
OneToOne(s) == \A i, j \in DOMAIN s : s[i] = s[j] => i = j
Distinct(set, n) == {s \in Upto(set, n) : OneToOne(s)}
SetsUpto(set, n) == {S \in SUBSET set : Cardinality(S) <= n}
MCCharacters == HexDigits \union {"w", "e", "b", "m", "p", "s", "l", PunctuationPair}
Text(a, b, c) == <<a, b, c>>
u0 == Text("0", "0", "0")   u1 == Text("0", "0", "1")
u2 == Text("0", "1", "0")   u3 == Text("1", "0", "0")
web == <<"w", "e", "b">>
Words == UNION {[1..n -> HexDigits] : n \in 1..(2 * UuidLength)} \union {web}

\* Ports 1 to 4 of tcp and 1 of udp; one binding asks for another host port.
Bindings == {[port |-> p, proto |-> "tcp", host |-> p] : p \in 1..4}
    \union {[port |-> 1, proto |-> "udp", host |-> NoHostPort],
            [port |-> 2, proto |-> "tcp", host |-> 3]}
OfPorts(n) == {s \in Distinct(Bindings, n) :
    \A i, j \in DOMAIN s : s[i].port = s[j].port /\ s[i].proto = s[j].proto => i = j}
MCPortQuestions ==
    [container : [publishAll : BOOLEAN, bindings : OfPorts(3)],
     image : [ports : OfPorts(2)], version : {1, 2}]

Paths == [dir : {"d1", "d2"}, plain : BOOLEAN]
Plain(d) == [dir |-> d, plain |-> TRUE]
MCMountQuestions ==
    [container : [volumesFrom : {<<>>, <<Plain("d1")>>, <<Plain("d1"), Plain("d1")>>,
                                 <<Plain("d1"), Plain("d2")>>},
                  binds : Upto(Paths, 1), volumes : Distinct(Paths, 3)],
     image : [volumes : Upto(Paths, 1)],
     config : {[nfs |-> TRUE, automount |-> TRUE], [nfs |-> TRUE, automount |-> FALSE],
               [nfs |-> FALSE, automount |-> FALSE]}]

Tokens == {"role", "web", "==", "!=", "~", "/", "*"}
Hint(expr) == [affinity |-> TRUE, expr |-> expr]
Hints == {Hint(<<"role", "==", "web">>), Hint(<<"role", "!=", "~", "web">>),
          Hint(<<"role", "==">>), [affinity |-> FALSE]}
ASSUME KeptIsSelected ==
    \A s \in Upto(Hints, 3) : \A S \in SUBSET Hints : Kept(s, S) = SelectSeq(s, LAMBDA e : e \in S)
MCAffinityQuestions ==
    [container : [label : Upto(Upto(Tokens, 4), 1), env : {<<>>}, hasLabels : {TRUE}]
         \union [label : {<<>>}, env : Upto(Hints, 3), hasLabels : BOOLEAN]
         \union [label : {<<<<"role", "==", "~", "/", "w", "/">>>>},
                 env : Upto(Hints, 2), hasLabels : {TRUE}]]

Lists(v) == {Absent, <<>>, <<v>>}
MCCommandQuestions ==
    [container : [entrypoint : Lists("e"), cmd : Lists("c"), env : Lists("v"),
                  user : {Absent, "u"}],
     image : [entrypoint : Lists("E"), cmd : Lists("C"), env : Lists("V"),
              user : {Absent, "U"}]]

Label(key, value, type) == [key |-> key, value |-> value, type |-> type]
Labels == {Label("a", 1, "plain"), Label("a", 2, "plain"), Label("a", 3, "not a string"),
           Label("b", 1, "plain"), Label("t", 1, "triton"), Label("t", 2, "bad triton"),
           Label(PackageLabel, 1, "package")}
LabelLists == {s \in Upto(Labels, 2) : \A i, j \in DOMAIN s : s[i].key = s[j].key => i = j}
MCTagQuestions == [container : [labels : LabelLists], image : [labels : LabelLists]]

Pkg(uuid, name, memory, active, owner) ==
    [uuid |-> uuid, name |-> name, memory |-> memory, active |-> active, owner |-> owner]
Papi == {Pkg(u0, <<"p", "s">>, 1, TRUE, "nobody"), Pkg(u1, <<"p", "m">>, 2, TRUE, "this"),
         Pkg(u2, <<"p", "s">>, 2, TRUE, "nobody"), Pkg(u3, <<"0", "0">>, 3, TRUE, "this"),
         Pkg(Text("1", "1", "0"), <<"p", "l">>, 2, FALSE, "nobody"),
         Pkg(Text("1", "1", "1"), <<"0", "0">>, 1, TRUE, "other")}
MCPackageQuestions ==
    [container : [package : {NoText, u0, u2, <<"0", "0">>, <<"1", "1">>, <<"p", "s">>,
                             <<"p", "l">>, <<PunctuationPair, "p">>}, memory : 0..3],
     papi : Distinct(Papi, 3), config : {[prefix |-> <<"p">>, defaultMemory |-> 2]}]

\* Every part of a request is varied around a plain one.
PlainContainer ==
    [publishAll |-> FALSE, bindings |-> <<>>, restart |-> Policy("", 0), log |-> Absent,
     volumesFrom |-> <<>>, binds |-> <<>>, volumes |-> <<>>, readonly |-> FALSE,
     label |-> <<>>, labels |-> <<>>, hasLabels |-> TRUE, mode |-> "", links |-> <<>>,
     entrypoint |-> Absent, cmd |-> Absent, env |-> <<>>, user |-> Absent]
PlainImage == [ports |-> <<>>, volumes |-> <<>>, labels |-> <<>>, entrypoint |-> Absent,
               cmd |-> <<"C">>, env |-> <<"V">>, user |-> Absent]
Alone(option, value) == [o \in {option} |-> value]
Options == UNION {[S -> {Malformed, Value("x", NoPort), Value("x", 7)}] :
    S \in SetsUpto({"syslog-address", "syslog-tag", "max-size", "gelf-address",
                    "fluentd-address"}, 2)}
Logs == {Log(driver, options) : driver \in LogDrivers \union {"", "journald"},
                                options \in Options}
Bind(parts, named, mountpoint, flag) ==
    [parts |-> parts, named |-> named, mountpoint |-> mountpoint, flag |-> flag]
Binds == {Bind(parts, named, mountpoint, flag) : parts \in 1..4, named \in BOOLEAN,
              mountpoint \in {"", "/d"}, flag \in {Absent, "ro", "rw", "z"}}
Enabled == {[drivers |-> LogDrivers], [drivers |-> {"json-file", "syslog"}]}
MCCheckQuestions ==
    [container : {[PlainContainer EXCEPT !.log = log] : log \in {Absent} \union Logs},
     config : Enabled]
    \union [container : {[PlainContainer EXCEPT !.binds = binds] : binds \in Upto(Binds, 1)}
                \union {[PlainContainer EXCEPT !.mode = mode, !.links = links] :
                            mode \in {"", "bridge", "default", "host", "none", "container:", "web"},
                            links \in {<<>>, <<"l">>}}
                \union {[PlainContainer EXCEPT !.volumes = <<v>>] :
                            v \in [absolute : BOOLEAN, slashes : BOOLEAN]}
                \union {[PlainContainer EXCEPT !.bindings = <<b>>] :
                            b \in [port : 0..(MaxPort + 1), proto : Protos \union {"icmp"}]},
            config : Enabled]

Majors == {1, 2}
MCVersionQuestions ==
    {NoText} \union {<<m, Point, n>> : m \in Majors, n \in 0..9}
    \union {<<m, Point, n, k>> : m \in Majors, n \in 0..9, k \in 0..9}
    \union {<<1, Point, 2, Point, 3>>, <<1>>}

\* Rules that other users write, and those of another container.
Rule(proto, action, vms, any, all, parses) ==
    [proto |-> proto, ports |-> <<Range_(4, 4)>>, action |-> action, vms |-> vms,
     any |-> any, all |-> all, parses |-> parses]
Others == {Rule("tcp", "deny", {u0}, TRUE, FALSE, TRUE),
           Rule("udp", "allow", {u1}, TRUE, FALSE, TRUE),
           Rule("icmp", "allow", {u0}, TRUE, FALSE, TRUE),
           Rule("tcp", "allow", {u0}, TRUE, TRUE, TRUE),
           Rule("udp", "allow", {u0}, FALSE, FALSE, TRUE),
           Rule("tcp", "allow", {u0}, TRUE, FALSE, FALSE)}
Became(state, exit, started) ==
    [uuid |-> u0, alias |-> "web", package |-> u2, state |-> state, exit |-> exit,
     started |-> started]
Up == Became("running", Absent, TRUE)
Became_ == {Became(state, exit, started) : state \in {"running", "stopped", "provisioning"},
                exit \in {Absent, 0}, started \in BOOLEAN}
Now == [vm |-> Up, others |-> Others, links |-> {}, packages |-> {[uuid |-> u2, name |-> "p"]},
        modern |-> TRUE]
Config == [fwrule_version |-> 2, nfs |-> TRUE, automount |-> TRUE]
Show(containers, images, now) ==
    [container : containers, image : images, config : {Config}, now : now]
ModernOrNot == {[Now EXCEPT !.modern = m, !.packages = packages] : m \in BOOLEAN,
                    packages \in {{}, Now.packages, Now.packages \union {[uuid |-> u1, name |-> "q"]}}}
MCShownQuestions ==
    Show({[PlainContainer EXCEPT !.publishAll = all, !.bindings = bindings] :
              all \in BOOLEAN, bindings \in OfPorts(2)},
         {[PlainImage EXCEPT !.ports = ports] : ports \in OfPorts(2)},
         {Now, [Now EXCEPT !.others = {}]})
    \union Show({[PlainContainer EXCEPT !.labels = labels] : labels \in LabelLists},
                {[PlainImage EXCEPT !.labels = labels] :
                     labels \in {l \in LabelLists : Len(l) <= 1}}, ModernOrNot)
    \union Show({[PlainContainer EXCEPT !.restart = Policy(name, n), !.log = log] :
                     name \in {"", "no", "always", "on-failure"}, n \in {0, 2},
                     log \in {Absent, Log("none", NoOptions),
                              Log("syslog", Alone("syslog-address", Value("x", NoPort))),
                              Log("syslog", NoOptions)}}, {PlainImage}, ModernOrNot)
    \union Show({[PlainContainer EXCEPT !.entrypoint = e, !.cmd = c] :
                     e \in Lists("e"), c \in Lists("c")},
                {[PlainImage EXCEPT !.entrypoint = e] : e \in Lists("E")},
                {[Now EXCEPT !.vm = vm, !.links = links] : vm \in Became_,
                     links \in {{}, {[target |-> u0, name |-> "l"], [target |-> u1, name |-> "m"]}}})
    \union Show({[PlainContainer EXCEPT !.volumesFrom = from, !.volumes = own, !.binds = binds,
                                        !.readonly = r] :
                     from \in Upto({Plain("d1")}, 1), own \in Upto({Plain("d1"), Plain("d2")}, 1),
                     binds \in Upto({Plain("d2"), Plain("d4")}, 1), r \in BOOLEAN},
                {[PlainImage EXCEPT !.volumes = v] : v \in Upto({Plain("d2"), Plain("d3")}, 1)}, {Now})

VM(uuid, tail, alias, state, created, exit, package, labels) ==
    [uuid |-> uuid, tail |-> tail, alias |-> alias, state |-> state, created |-> created,
     exit |-> exit, package |-> package, labels |-> labels]
Tag(k, v) == [key |-> k, value |-> v]
VMs == {VM(u0, u0, web, "running", 1, 0, u0, {Tag("role", <<"w">>)}),
        VM(u1, u2, <<"0", "0">>, "stopped", 2, 1, u1, {Tag("role", <<"d">>), Tag("env", <<"w">>)}),
        VM(u2, NoText, <<"0">>, "provisioning", 3, 2, u0, {}),
        VM(u3, u1, u0 \o u0, "stopped", 4, 0, u3, {Tag("env", <<"w">>)}),
        VM(Text("0", "1", "1"), u1, web, "destroyed", 5, 0, u0, {}),
        VM(Text("1", "1", "1"), u3, web, "running", 6, 1, u2, {})}
MCContainerQuestions == [id : Words, vms : SetsUpto(VMs, 3)]

Filter(field, values) == [field |-> field, values |-> values]
Filters == {Filter("status", <<"running">>), Filter("status", <<"exited", "created">>),
            Filter("status", <<"gone">>), Filter("exited", <<0, 2>>),
            Filter("id", <<<<"1", "0">>>>), Filter("name", <<<<"0">>, <<"e">>>>),
            Filter("label", <<Tag("env", <<"w">>), Tag("role", NoText)>>),
            Filter("label", <<Tag(PackageLabel, <<"p", "s">>)>>),
            Filter("label", <<Tag(PackageLabel, <<"0", "0">>)>>),
            Filter("label", <<Tag(PackageLabel, <<"p">>)>>),
            Filter("since", <<<<"0", "0">>>>), Filter("before", <<<<"0">>>>),
            Filter("volume", <<"v">>)}
Fields(s) == [i \in DOMAIN s |-> s[i].field]
FilterLists(n) == {s \in Upto(Filters, n) : OneToOne(Fields(s))}
Times_ == {NoText, web, <<"0">>}
Queried(since, before, n) ==
    [all : BOOLEAN, since : since, before : before, filters : FilterLists(n), limit : {0, 1}]
MCListQuestions ==
    [query : Queried({NoText}, {NoText}, 2) \union Queried({<<"0", "0">>}, {NoText, u0 \o u0}, 1)
                \union Queried({NoText}, {<<"0">>}, 1),
     vms : SetsUpto({vm \in VMs : vm.created # 6}, 3),
     packages : {<<[name |-> <<"p", "s">>, uuid |-> u1], [name |-> <<"p", "s">>, uuid |-> u0]>>}]
    \union [query : Queried({NoText}, {NoText}, 1), vms : SetsUpto(VMs, 1), packages : {<<>>}]

Net(uuid, name, kind, tag, owned) ==
    [uuid |-> uuid, name |-> name, kind |-> kind, tag |-> tag, owned |-> owned,
     tagsPresent |-> {}, networks |-> {}]
Nets == {Net(u0, web, "fabric", "overlay", TRUE), Net(u1, <<"0", "0">>, "external", "external", TRUE),
         Net(u2, web, "external", "external", FALSE), Net(u3, <<"m">>, "external", AdminTag, TRUE)}
Pool(uuid, name, owned, members) ==
    [Net(uuid, name, "pool", "pool", owned) EXCEPT !.networks = members,
                                                   !.tagsPresent = {"external"}]
Pools == {Pool(Text("0", "1", "1"), web, TRUE, {u1}), Pool(Text("1", "1", "1"), <<"1">>, FALSE, {u2})}
Answers == [Kinds -> {"ok", "404", "500"}]
Napi == [networks : SetsUpto(Nets, 3), pools : SUBSET Pools, answers : Answers,
         wildcards : BOOLEAN]
Accounts == [restricted : BOOLEAN]
Things == Nets \union Pools
NetworkWords == UNION {Prefixes(networkUuidToDockerId(n.uuid)) : n \in Things}
                \union {n.name : n \in Things} \union {<<"0", "0", "0", "1">>}
MCNetworkQuestions ==
    [name : NetworkWords \ {NoText}, napi : {n \in Napi : AnswersAll(n)},
     account : Accounts]
    \union [name : NetworkWords \ {NoText},
            napi : {n \in Napi : Cardinality(n.networks) <= 1},
            account : {[restricted |-> FALSE]}]
MCNicQuestions ==
    [container : [publishAll : BOOLEAN, bindings : {<<>>}, mode : {NoText, web, <<"0">>},
                  publicLabel : {NoText, web}],
     config : [overlay : BOOLEAN, fabric : {NoText, u0}, external : {<<"0", "0">>},
               externalPool : {u3}],
     napi : {n \in Napi : n.wildcards /\ (AnswersAll(n) \/ Cardinality(n.networks) <= 1)},
     account : Accounts]
MCNetworkListQuestions == [napi : {n \in Napi : AnswersAll(n)}, account : Accounts]
=============================================================================
