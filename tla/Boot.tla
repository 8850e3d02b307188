--------------------------------- MODULE Boot ---------------------------------
(***************************************************************************)
(* How the two programs start: the command line of server_main.cpp and of  *)
(* client_main.cpp, load_config (src/load_config/load_config.cpp), and     *)
(* what the server makes before it serves.  A section of the configuration *)
(* is "default" or "file"; the port and the size of the pool, which the    *)
(* start depends on, are numbers.                                          *)
(***************************************************************************)
EXTENDS Integers, Sequences, FiniteSets

CONSTANT PortMod \* ports are 0 .. PortMod - 1; 2^16 in the code

ASSUME BootAssumption == PortMod \in Nat \ {0}

DefaultPort == 1  \* stands for 8080
DefaultPool == 8

Sections == <<"server", "zk", "log", "serializer", "compress", "encrypt", "balancer">>

VARIABLES
  prog,          \* "server" or "client"
  argv,          \* the arguments, a sequence of [kind, num]
  file,          \* what is at the path of the configuration: [kind, given, wrong, has,
                 \* port, pool]: "absent", "malformed" or "object"; the sections it has,
                 \* the one with a value of a wrong type; of the server's section, the
                 \* keys it has, the port and the size of the pool
  bpc,           \* "args", "load", "section", "override", "logger", "pool",
                 \* "register", "started", "help", "threw"
  i,             \* the next argument, or section
  argPort, portSet, stress, \* from the command line
  config,        \* the --config that config_path is from, 0 for none
  cfg, port, workers

bootVars == <<prog, argv, file, bpc, i, argPort, portSet, stress, config, cfg, port, workers>>

\* An argument is an option, a number that stoi reads or some other text.
OptionNames == {"--port", "--config", "--host", "--stress", "--help", "--unknown"}

Arg(k) == [kind |-> k, num |-> 0]
NumArg(n) == [kind |-> "number", num |-> n]

SomeArgs ==
  {Arg(k) : k \in OptionNames \cup {"text"}} \cup {NumArg(n) : n \in {-1, 0, 3, PortMod, PortMod + 3}}

FileKinds == {"absent", "malformed", "object"}
ServerKeys == {"port", "thread_pool_size"}

Files(kinds, givens, wrongs, hass, ports, pools) ==
  [kind : kinds, given : givens, wrong : wrongs, has : hass, port : ports, pool : pools]

\* main begins.
Begin ==
  /\ prog \in {"server", "client"}
  /\ bpc = "args" /\ i = 1
  /\ argPort = IF prog = "server" THEN 0 ELSE DefaultPort
  /\ portSet = FALSE /\ stress = FALSE /\ config = 0
  /\ cfg = [s \in 1 .. Len(Sections) |-> "default"]
  /\ port = DefaultPort /\ workers = 0

\* Either the file varies or the command line does.
BootInit ==
  /\ Begin
  /\ \/ /\ argv = <<>>
        /\ \/ file \in Files({"object"}, SUBSET (1 .. 7), 0 .. 7, {{}}, {0}, {0})
           \/ file \in Files({"object"}, {{1}}, {0}, SUBSET ServerKeys, {-1, 2, PortMod + 3}, {-1, 0, 2})
     \/ /\ \/ \E n \in 1 .. 3 : argv \in [1 .. n -> SomeArgs]
           \/ \E n \in 4 .. 5 : argv \in [1 .. n -> {Arg("--port"), Arg("--config"), NumArg(3)}]
        /\ file \in Files(FileKinds, {{1}}, {0}, {{"port"}}, {2}, {0})

Here(p) == bpc = p /\ UNCHANGED <<prog, argv, file>>

Exit(how) == bpc' = how /\ UNCHANGED <<i, argPort, portSet, stress, config, cfg, port, workers>>

-------------------------------------------------------------------------------
(* The command line *)

\* It begins with a minus sign.
Dashed(a) == a.kind \in OptionNames \/ (a.kind = "number" /\ a.num < 0)

\* The argument at p, if it is read as an option, takes the next one as its value,
\* whatever that is: only --stress looks at it first.
Takes(p) ==
  /\ p < Len(argv)
  /\ \/ argv[p].kind \in {"--config", "--port"}
     \/ prog = "client" /\ argv[p].kind = "--host"
     \/ prog = "client" /\ argv[p].kind = "--stress" /\ ~Dashed(argv[p + 1])

Past(p) == IF Takes(p) THEN p + 2 ELSE p + 1

ArgIs(kinds) == Here("args") /\ i <= Len(argv) /\ argv[i].kind \in kinds

\* --port: stoi, which throws on text, and a cast to 16 bits.
ArgPort ==
  /\ ArgIs({"--port"}) /\ Takes(i)
  /\ IF argv[i + 1].kind # "number" THEN Exit("threw")
     ELSE /\ argPort' = argv[i + 1].num % PortMod /\ portSet' = (prog = "client")
          /\ i' = Past(i)
          /\ UNCHANGED <<bpc, stress, config, cfg, port, workers>>

\* --config and, of the client, --host.
ArgPath ==
  /\ ArgIs({"--config", "--host"}) /\ Takes(i)
  /\ config' = IF argv[i].kind = "--config" THEN i ELSE config
  /\ i' = Past(i)
  /\ UNCHANGED <<bpc, argPort, portSet, stress, cfg, port, workers>>

\* --stress [N], of the client.
ArgStress ==
  /\ ArgIs({"--stress"}) /\ prog = "client"
  /\ IF Takes(i) /\ argv[i + 1].kind # "number" THEN Exit("threw")
     ELSE /\ stress' = TRUE
          /\ i' = Past(i)
          /\ UNCHANGED <<bpc, argPort, portSet, config, cfg, port, workers>>

ArgHelp == ArgIs({"--help"}) /\ Exit("help")

\* Everything else goes unnoticed, an option at the end without its value too.
ArgIgnored ==
  /\ ArgIs((OptionNames \ {"--help"}) \cup {"number", "text"}) /\ ~Takes(i)
  /\ ~(prog = "client" /\ argv[i].kind = "--stress")
  /\ i' = Past(i)
  /\ UNCHANGED <<bpc, argPort, portSet, stress, config, cfg, port, workers>>

\* Stress mode goes without a configuration.
ArgsDone ==
  /\ Here("args") /\ i > Len(argv)
  /\ IF stress THEN bpc' = "started" /\ port' = argPort
     ELSE bpc' = "load" /\ UNCHANGED port
  /\ UNCHANGED <<i, argPort, portSet, stress, config, cfg, workers>>

-------------------------------------------------------------------------------
(* load_config *)

\* No file, or one that json::parse refuses: the defaults.
LoadFile ==
  /\ Here("load")
  /\ bpc' = IF file.kind = "object" THEN "section" ELSE "override"
  /\ i' = 1
  /\ UNCHANGED <<argPort, portSet, stress, config, cfg, port, workers>>

\* The server's section: a number in the file is cast to 16 bits, a key that is not
\* there leaves the default.
SectionPort == IF "port" \in file.has THEN file.port % PortMod ELSE DefaultPort
SectionPool == IF "thread_pool_size" \in file.has THEN file.pool ELSE DefaultPool

\* Fault: a missing section ends the loading.
Fault_LoadSection ==
  /\ Here("section")
  /\ IF i > Len(Sections) \/ i \notin file.given
     THEN bpc' = "override" /\ UNCHANGED <<i, cfg, port>>
     ELSE /\ cfg' = [cfg EXCEPT ![i] = "file"]
          /\ port' = IF i = 1 THEN SectionPort ELSE port
          /\ i' = i + 1 /\ UNCHANGED bpc
  /\ UNCHANGED <<argPort, portSet, stress, config, workers>>

\* One section after the other; value() throws type_error, which is not caught.
LoadSection ==
  /\ Here("section")
  /\ \/ i > Len(Sections) /\ bpc' = "override" /\ UNCHANGED <<i, cfg, port>>
     \/ i <= Len(Sections) /\ i \notin file.given /\ i' = i + 1 /\ UNCHANGED <<bpc, cfg, port>>
     \/ i \in file.given /\ file.wrong = i /\ bpc' = "threw" /\ UNCHANGED <<i, cfg, port>>
     \/ /\ i \in file.given /\ file.wrong # i
        /\ cfg' = [cfg EXCEPT ![i] = "file"]
        /\ port' = IF i = 1 THEN SectionPort ELSE port
        /\ i' = i + 1 /\ UNCHANGED bpc
  /\ UNCHANGED <<argPort, portSet, stress, config, workers>>

-------------------------------------------------------------------------------
(* The rest of main *)

\* The server takes a port of 0 for none.
Override ==
  /\ Here("override")
  /\ port' = IF (IF prog = "server" THEN argPort > 0 ELSE portSet) THEN argPort ELSE port
  /\ bpc' = "logger"
  /\ UNCHANGED <<i, argPort, portSet, stress, config, cfg, workers>>

InitLogger ==
  /\ Here("logger")
  /\ \/ Exit(IF prog = "server" THEN "pool" ELSE "started")
     \/ Exit("threw")

\* The size is converted to size_t: a negative one cannot be reserved; for 0 the
\* pool takes the number of hardware threads, or 4.
MakePool ==
  /\ Here("pool")
  /\ LET n == IF cfg[1] = "file" THEN SectionPool ELSE DefaultPool
     IN IF n < 0 THEN Exit("threw")
        ELSE /\ bpc' = "register"
             /\ \E hw \in {0, 2} : workers' = IF n > 0 THEN n ELSE IF hw > 0 THEN hw ELSE 4
             /\ UNCHANGED <<i, argPort, portSet, stress, config, cfg, port>>

\* The service is registered and the signal handler installed.
Register == Here("register") /\ Exit("started")

BootNext ==
  \/ ArgPort \/ ArgPath \/ ArgStress \/ ArgHelp \/ ArgIgnored \/ ArgsDone
  \/ LoadFile \/ LoadSection \/ Override \/ InitLogger \/ MakePool \/ Register

-------------------------------------------------------------------------------
(* Properties *)

\* The argument at p is an option and not the value of another one: it follows an
\* even number of arguments each of which would take the next.
OptionAt(p) ==
  \E m \in 0 .. p - 1 : /\ m = 0 \/ ~Takes(m)
                        /\ \A q \in m + 1 .. p - 1 : Takes(q)
                        /\ \E k \in 0 .. p : p = m + 1 + 2 * k

\* The option o is given there, with a value.
Given(o, p) == OptionAt(p) /\ argv[p].kind = o /\ p < Len(argv)

\* The last place where it is, or 0.
Last(o) ==
  CHOOSE n \in 0 .. Len(argv) :
    /\ n = 0 \/ Given(o, n)
    /\ \A q \in 1 .. Len(argv) : Given(o, q) => q <= n

FromFile == ~stress /\ file.kind = "object" /\ 1 \in file.given

\* The port is that of the last --port, which is cut to 16 bits and which the server
\* ignores if that leaves 0; otherwise that of the file, cut likewise; otherwise the
\* default.  The file is that of the last --config.  An argument that is the value
\* of an option is no option itself, however it looks.
PortChosen ==
  bpc = "started" =>
    LET n == Last("--port")
        v == argv[n + 1].num % PortMod
    IN /\ port = IF n > 0 /\ (prog = "client" \/ v > 0) THEN v
                 ELSE IF FromFile THEN SectionPort ELSE DefaultPort
       /\ config = Last("--config")

\* load_config.md:71-73 and :114: with a usable file each section is the file's or,
\* if it is not there, the default, whichever others are missing; without one every
\* section is the default.  No program goes on with part of a file: none of the
\* sections read has a value of a wrong type.
SectionsLoaded ==
  bpc \in {"override", "logger", "pool", "register"} \/ (bpc = "started" /\ ~stress) =>
    /\ \A s \in DOMAIN cfg : cfg[s] = IF file.kind = "object" /\ s \in file.given THEN "file" ELSE "default"
    /\ file.kind = "object" => file.wrong \notin file.given

\* A server that has started has the workers it was told to have, and at least one.
SomeWorker ==
  bpc = "started" /\ prog = "server" =>
    LET n == IF FromFile THEN SectionPool ELSE DefaultPool
    IN workers > 0 /\ (n # 0 => workers = n)

\* The programs start as the command line and the file tell them to: port, sections
\* and pool size, in whatever order options come and whatever is missing.
StartsAsTold == PortChosen /\ SectionsLoaded /\ SomeWorker
===============================================================================
