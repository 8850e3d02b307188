-------------------------------- MODULE Library --------------------------------
(***************************************************************************)
(* The parts of the repository that do not interact with one another while *)
(* they run: the byte formats, the payload layers, the once-initialized    *)
(* globals and the start of the two programs.  A behaviour is one of unit. *)
(***************************************************************************)
EXTENDS Wire, Payload, Globals, Boot

VARIABLE unit

libVars == <<unit, wireVars, payVars, globVars, bootVars>>

\* The units that unit does not name keep one initial state.
LibInit ==
  /\ unit \in {"wire", "payload", "globals", "boot"}
  /\ IF unit = "wire" THEN WireInit
     ELSE kind = "RpcHeader" /\ seed = 0 /\ lens = <<0, 0, 0>> /\ WireInit
  /\ IF unit = "payload" THEN PayInit
     ELSE message = "set" /\ plan = <<"json">> /\ PayInit
  /\ IF unit = "globals" THEN GlobInit
     ELSE what = "pool" /\ first = TRUE /\ GlobInit
  /\ BootInit
  /\ unit # "boot" => prog = "server" /\ argv = <<>> /\ file.given = {} /\ file.wrong = 0

LibNext ==
  /\ UNCHANGED unit
  /\ \/ unit = "wire" /\ WireNext /\ UNCHANGED <<payVars, globVars, bootVars>>
     \/ unit = "payload" /\ PayNext /\ UNCHANGED <<wireVars, globVars, bootVars>>
     \/ unit = "globals" /\ GlobNext /\ UNCHANGED <<wireVars, payVars, bootVars>>
     \/ unit = "boot" /\ BootNext /\ UNCHANGED <<wireVars, payVars, globVars>>

\* A thread inside a call goes on.
InCallStep(t) ==
  unit = "globals" /\ InCall(t) /\ UNCHANGED <<unit, wireVars, payVars, bootVars>>

LibSpec == LibInit /\ [][LibNext]_libVars

LibFairSpec == LibSpec /\ \A t \in Threads : WF_libVars(InCallStep(t))
===============================================================================
