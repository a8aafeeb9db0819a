---------------------------- MODULE OCLDeviceInit -----------------------------
(***************************************************************************)
(* The master instance's InitDevice_Runtime and ExitDevice_Runtime of the  *)
(* OpenCL backend (src/GPU/GPUTracking/Base/opencl-common/                  *)
(* GPUReconstructionOCL.cxx): pick a platform, examine its devices and     *)
(* choose one, then create the context, the programs, the device, constant *)
(* and host buffers, one command queue per stream, and run the kernel that *)
(* reports the device pointers; quit() returns 1 at the first failing call.*)
(*                                                                         *)
(* Each OpenCL call that can fail is one step, its failure a disjunct; a   *)
(* device is a record of the properties the code queries.  The OpenCL      *)
(* objects alive are kept in `live`, so that what each path releases can   *)
(* be compared with what it created.  GetOCLPrograms and CheckPlatform are *)
(* not in the tree: the first creates `program` or fails, the second is    *)
(* the set Compat of platforms it accepts.                                 *)
(***************************************************************************)
EXTENDS Integers, Sequences

CONSTANTS
  MaxPlatforms, \* bound on num_platforms
  DeviceLists,  \* the device lists clGetDeviceIDs may return
  NStreams,     \* mNStreams
  ConstNeeded   \* gGPUConstantMemBufferSize

\* A device: type bits, CL_DEVICE_ADDRESS_BITS, CL_DEVICE_ENDIAN_LITTLE,
\* freq * shaders, the major of CL_DEVICE_VERSION, the constant buffer size.
Device(g, c, b, l, s, v, m) ==
  [gpu |-> g, cpu |-> c, bits |-> b, little |-> l, speed |-> s, major |-> v, constMem |-> m]

\* The values clGetDeviceInfo reports (unsigned integers and flags).
DeviceT == [gpu : BOOLEAN, cpu : BOOLEAN, bits : Nat, little : BOOLEAN, speed : Nat,
            major : Nat, constMem : Nat]

\* clGetDeviceIDs returns lists of such devices.
ASSUME OCLDeviceInitAssumption ==
  /\ MaxPlatforms \in Nat
  /\ NStreams \in Nat \ {0}
  /\ ConstNeeded \in Nat
  /\ DeviceLists \subseteq Seq(DeviceT)

\* An OpenCL object; n numbers the command queues.
Res(k, n) == [kind |-> k, n |-> n]
R(k) == Res(k, 0)

NoDevice == -1   \* (cl_uint)-1

VARIABLES
  numPlatforms, compat, platformNum, gpuDeviceOnly, deviceNum, \* inputs
  pc,            \* the call InitDevice_Runtime is at, "ok", "quit", "exited"
  platform,
  devices,       \* mInternals->devices
  i,             \* the device loop's index
  bestDevice,
  devicesOK,
  device,        \* the index of mInternals->device
  deviceTimers,  \* mProcessingSettings.deviceTimers
  q,             \* command queues created
  qprof,         \* the streams whose queue was created with CL_QUEUE_PROFILING_ENABLE
  live,          \* the OpenCL objects created and not released
  hostBase       \* mHostMemoryBase (and mDeviceMemoryBase) set

vars == <<numPlatforms, compat, platformNum, gpuDeviceOnly, deviceNum, pc, platform,
          devices, i, bestDevice, devicesOK, device, deviceTimers, q, qprof, live, hostBase>>

Inputs == <<numPlatforms, compat, platformNum, gpuDeviceOnly, deviceNum>>

MaxDevices == 1 + CHOOSE n \in {Len(l) : l \in DeviceLists} :
                    \A l \in DeviceLists : Len(l) <= n

TypeOK ==
  /\ pc \in {"platforms", "devices", "examine", "info", "context", "programs",
             "memgpu", "memconst", "queues", "migrate", "memhost", "getptr", "map",
             "ok", "quit", "exited"}
  /\ bestDevice \in {NoDevice} \cup 0..(MaxDevices - 1)
  /\ q \in 0..NStreams
  /\ qprof \subseteq 0..(NStreams - 1)
  /\ live \subseteq {R(k) : k \in {"context", "program", "mem_gpu", "mem_constant",
                                   "mem_host", "ptr_program", "ptr_kernel"}}
                      \cup {Res("queue", s) : s \in 0..(NStreams - 1)}

Init ==
  /\ numPlatforms \in 0..MaxPlatforms
  /\ compat \in SUBSET (0..(MaxPlatforms - 1))
  /\ platformNum \in -1..MaxPlatforms
  /\ gpuDeviceOnly \in BOOLEAN
  /\ deviceNum \in -1..MaxDevices
  /\ deviceTimers \in BOOLEAN
  /\ pc = "platforms"
  /\ platform = -1 /\ devices = <<>> /\ i = 0 /\ bestDevice = NoDevice
  /\ devicesOK = <<>> /\ device = -1 /\ q = 0 /\ qprof = {} /\ live = {} /\ hostBase = FALSE

Quit == pc' = "quit"
Goto(s) == pc' = s

\* The first platform CheckPlatform accepts (-1 when none).
FirstCompat ==
  LET ok == {p \in 0..(numPlatforms - 1) : p \in compat}
  IN  IF ok = {} THEN -1 ELSE CHOOSE p \in ok : \A p2 \in ok : p <= p2

\* Count and query the platforms, then take platformNum or the first
\* compatible one.
GetPlatforms ==
  /\ pc = "platforms"
  /\ \/ Quit /\ UNCHANGED platform                         \* clGetPlatformIDs fails
     \/ /\ numPlatforms = 0 \/ platformNum >= numPlatforms \/ (platformNum < 0 /\ FirstCompat < 0)
        /\ Quit /\ UNCHANGED platform
     \/ /\ numPlatforms > 0 /\ platformNum < numPlatforms
        /\ platform' = IF platformNum >= 0 THEN platformNum ELSE FirstCompat
        /\ platform' >= 0
        /\ Goto("devices")
  /\ UNCHANGED <<Inputs, devices, i, bestDevice, devicesOK, device, deviceTimers, q, qprof, live, hostBase>>

\* clGetDeviceIDs: the platform's devices, none of them OK yet.
GetDevices ==
  /\ pc = "devices"
  /\ \/ Quit /\ UNCHANGED <<devices, devicesOK>>
     \/ \E l \in DeviceLists :
          /\ devices' = l
          /\ devicesOK' = [j \in DOMAIN l |-> FALSE]
          /\ Goto("examine")
  /\ UNCHANGED <<Inputs, platform, i, bestDevice, device, deviceTimers, q, qprof, live, hostBase>>

\* The checks of the device loop: a GPU when only GPUs are wanted, a 64
\* bit device, little endian.
DeviceOK(d) ==
  /\ gpuDeviceOnly => (~d.cpu /\ d.gpu)
  /\ d.bits \div 8 = 8
  /\ d.little

\* Mutant: the speed of the best device so far is kept across iterations.
BetterKept(d) ==
  bestDevice = NoDevice \/ d.speed > devices[bestDevice + 1].speed

\* deviceSpeed > bestDeviceSpeed, where bestDeviceSpeed is declared -1
\* inside the loop body.
Better(d) == LET bestDeviceSpeed == -1 IN d.speed > bestDeviceSpeed

\* One iteration of the device loop.
ExamineDevice ==
  /\ pc = "examine" /\ i < Len(devices)
  /\ LET d == devices[i + 1]
     IN  IF DeviceOK(d)
           THEN /\ devicesOK' = [devicesOK EXCEPT ![i + 1] = TRUE]
                /\ bestDevice' = IF Better(d) THEN i ELSE bestDevice
           ELSE UNCHANGED <<devicesOK, bestDevice>>
  /\ i' = i + 1
  /\ UNCHANGED <<Inputs, pc, platform, devices, device, deviceTimers, q, qprof, live, hostBase>>

\* Mutant: a requested device is taken without looking at devicesOK.
ChooseDeviceUnchecked ==
  /\ pc = "examine" /\ i = Len(devices)
  /\ IF bestDevice = NoDevice \/ deviceNum >= Len(devices)
       THEN Quit /\ UNCHANGED device
       ELSE /\ device' = IF deviceNum > -1 THEN deviceNum ELSE bestDevice
            /\ Goto("info")
  /\ UNCHANGED <<Inputs, platform, devices, i, bestDevice, devicesOK, deviceTimers, q, qprof, live, hostBase>>

\* After the loop: quit without a device, else take deviceNum when it is
\* set, exists and passed the checks, or quit.
ChooseDevice ==
  /\ pc = "examine" /\ i = Len(devices)
  /\ IF \/ bestDevice = NoDevice
        \/ deviceNum >= Len(devices)
        \/ deviceNum > -1 /\ ~devicesOK[deviceNum + 1]
       THEN Quit /\ UNCHANGED device
       ELSE /\ device' = IF deviceNum > -1 THEN deviceNum ELSE bestDevice
            /\ Goto("info")
  /\ UNCHANGED <<Inputs, platform, devices, i, bestDevice, devicesOK, deviceTimers, q, qprof, live, hostBase>>

Dev == devices[device + 1]

\* Query the chosen device; quit when its constant buffer is too small.
CheckConstantMemory ==
  /\ pc = "info"
  /\ IF ConstNeeded > Dev.constMem THEN Quit ELSE Goto("context")
  /\ UNCHANGED <<Inputs, platform, devices, i, bestDevice, devicesOK, device, deviceTimers, q, qprof,
                 live, hostBase>>

Keep == UNCHANGED <<Inputs, platform, devices, i, bestDevice, devicesOK, device>>

\* A call that creates object o: on failure quit after releasing rel, else
\* go on to s.
Create(o, rel, s) ==
  \/ Quit /\ live' = live \ rel
  \/ Goto(s) /\ live' = live \cup {o}

CreateContext ==
  /\ pc = "context" /\ Create(R("context"), {}, "programs")
  /\ Keep /\ UNCHANGED <<deviceTimers, q, qprof, hostBase>>

LoadPrograms ==
  /\ pc = "programs" /\ Create(R("program"), {}, "memgpu")
  /\ Keep /\ UNCHANGED <<deviceTimers, q, qprof, hostBase>>

AllocDeviceMemory ==
  /\ pc = "memgpu" /\ Create(R("mem_gpu"), {R("context")}, "memconst")
  /\ Keep /\ UNCHANGED <<deviceTimers, q, qprof, hostBase>>

\* The constant buffer; once it exists, device timers are switched off on
\* a CPU.
AllocConstantMemory ==
  /\ pc = "memconst" /\ Create(R("mem_constant"), {R("mem_gpu"), R("context")}, "queues")
  /\ deviceTimers' = IF pc' = "queues" THEN deviceTimers /\ ~Dev.cpu ELSE deviceTimers
  /\ Keep /\ UNCHANGED <<q, qprof, hostBase>>

\* Mutant: a refused profiling property leaves the timers on.
CreateQueueKeepTimers ==
  /\ pc = "queues"
  /\ IF q < NStreams
       THEN LET prof == Dev.major >= 2 /\ Dev.gpu /\ deviceTimers
                Made(p) == /\ q' = q + 1 /\ live' = live \cup {Res("queue", q)}
                           /\ qprof' = IF p THEN qprof \cup {q} ELSE qprof
                           /\ UNCHANGED pc
            IN  \/ Made(prof) /\ UNCHANGED deviceTimers
                \/ Quit /\ UNCHANGED <<q, qprof, live, deviceTimers>>
                \/ /\ deviceTimers /\ UNCHANGED deviceTimers
                   /\ \/ Made(FALSE)
                      \/ Quit /\ UNCHANGED <<q, qprof, live>>
       ELSE Goto("migrate") /\ UNCHANGED <<q, qprof, live, deviceTimers>>
  /\ Keep /\ UNCHANGED hostBase

\* One queue per stream.  It asks for profiling on an OpenCL 2 GPU with
\* timers.  A failed create quits, except that with the timers on a
\* CL_INVALID_QUEUE_PROPERTIES switches them off and the queue is created
\* again without profiling, which may fail in turn.
CreateQueue ==
  /\ pc = "queues"
  /\ IF q < NStreams
       THEN LET prof == Dev.major >= 2 /\ Dev.gpu /\ deviceTimers
                Made(p) == /\ q' = q + 1 /\ live' = live \cup {Res("queue", q)}
                           /\ qprof' = IF p THEN qprof \cup {q} ELSE qprof
                           /\ UNCHANGED pc
            IN  \/ Made(prof) /\ UNCHANGED deviceTimers
                \/ Quit /\ UNCHANGED <<q, qprof, live, deviceTimers>>
                \/ /\ deviceTimers /\ deviceTimers' = FALSE
                   /\ \/ Made(FALSE)
                      \/ Quit /\ UNCHANGED <<q, qprof, live>>
       ELSE Goto("migrate") /\ UNCHANGED <<q, qprof, live, deviceTimers>>
  /\ Keep /\ UNCHANGED hostBase

Migrate ==
  /\ pc = "migrate"
  /\ Quit \/ Goto("memhost")
  /\ Keep /\ UNCHANGED <<deviceTimers, q, qprof, live, hostBase>>

AllocHostMemory ==
  /\ pc = "memhost" /\ Create(R("mem_host"), {}, "getptr")
  /\ Keep /\ UNCHANGED <<deviceTimers, q, qprof, hostBase>>

\* krnlGetPtr: create, build and run a program and its kernel, release
\* both; a failure quits holding what was created so far.
GetDevicePointers ==
  /\ pc = "getptr"
  /\ \/ Quit /\ UNCHANGED live
     \/ Quit /\ live' = live \cup {R("ptr_program")}
     \/ Quit /\ live' = live \cup {R("ptr_program"), R("ptr_kernel")}
     \/ Goto("map") /\ UNCHANGED live
  /\ Keep /\ UNCHANGED <<deviceTimers, q, qprof, hostBase>>

MapHostMemory ==
  /\ pc = "map"
  /\ \/ Quit /\ UNCHANGED hostBase
     \/ Goto("ok") /\ hostBase' = TRUE
  /\ Keep /\ UNCHANGED <<deviceTimers, q, qprof, live>>

\* Mutant: the command queues are not released.
ExitDeviceKeepQueues ==
  /\ pc = "ok"
  /\ live' = live \ ({R("mem_gpu"), R("mem_constant"), R("mem_host"), R("program"), R("context")})
  /\ hostBase' = FALSE
  /\ Goto("exited")
  /\ Keep /\ UNCHANGED <<deviceTimers, q, qprof>>

\* ExitDevice_Runtime after a successful initialisation.
ExitDevice ==
  /\ pc = "ok"
  /\ LET devMem  == IF hostBase THEN {R("mem_gpu"), R("mem_constant")} ELSE {}
         hostMem == IF hostBase
                      THEN {Res("queue", s) : s \in 0..(NStreams - 1)} \cup {R("mem_host")}
                      ELSE {}
     IN  live' = live \ (devMem \cup hostMem \cup {R("program"), R("context")})
  /\ hostBase' = FALSE
  /\ Goto("exited")
  /\ Keep /\ UNCHANGED <<deviceTimers, q, qprof>>

Next ==
  \/ GetPlatforms \/ GetDevices \/ ExamineDevice \/ ChooseDevice \/ CheckConstantMemory
  \/ CreateContext \/ LoadPrograms \/ AllocDeviceMemory \/ AllocConstantMemory
  \/ CreateQueue \/ Migrate \/ AllocHostMemory \/ GetDevicePointers \/ MapHostMemory
  \/ ExitDevice

Spec == Init /\ [][Next]_vars
-----------------------------------------------------------------------------
(* Properties.                                                             *)

Chosen == pc \notin {"platforms", "devices", "examine", "quit"}
Usable == {j \in 0..(Len(devices) - 1) : DeviceOK(devices[j + 1])}

\* Once a device is chosen it is on the requested platform (or the first
\* one CheckPlatform accepts), it passed every check of the device loop,
\* and it is the requested device when one was given; the selection quits
\* only when no device is usable or the requested one is not.
SelectionSound ==
  /\ Chosen =>
       /\ platform = IF platformNum >= 0 THEN platformNum ELSE FirstCompat
       /\ device \in Usable
       /\ deviceNum > -1 => device = deviceNum
  /\ pc = "quit" /\ platform >= 0 /\ i = Len(devices) /\ device = -1 /\ devices # <<>> =>
       Usable = {} \/ (deviceNum > -1 /\ deviceNum \notin Usable)

\* Device timers are still on once the queues exist on an OpenCL 2 GPU
\* only if every stream's queue was created with profiling: a platform
\* that refuses the profiling property for some stream has the timers
\* switched off (GPUReconstructionOCL.cxx:303-307), so the timer code never
\* asks a queue without profiling for its events' times.
QueuesProfiledWithTimers ==
  pc \in {"migrate", "memhost", "getptr", "map", "ok", "exited"}
  /\ deviceTimers /\ Dev.major >= 2 /\ Dev.gpu
    => qprof = 0..(NStreams - 1)

\* Uninitialising after a successful initialisation releases every OpenCL
\* object it created: buffers, queues, programs and context.
ExitReleasesAll ==
  pc = "exited" => live = {}
=============================================================================
