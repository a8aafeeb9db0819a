------------------------- MODULE OCLDeviceInitProofs -------------------------
(***************************************************************************)
(* Proofs about InitDevice_Runtime and ExitDevice_Runtime of the OpenCL    *)
(* backend.  LiveInv gives, for every call the initialisation is at, the   *)
(* exact set of OpenCL objects alive; LoopInv what the device loop has     *)
(* established about the devices examined so far.                          *)
(***************************************************************************)
EXTENDS OCLDeviceInit, TLAPS

Pcs == {"platforms", "devices", "examine", "info", "context", "programs", "memgpu",
        "memconst", "queues", "migrate", "memhost", "getptr", "map", "ok", "quit", "exited"}

\* The queues of the streams below n.
Queues(n) == {Res("queue", s) : s \in 0..(n - 1)}

\* Context, program and the two device buffers.
Buffers == {R("context"), R("program"), R("mem_gpu"), R("mem_constant")}

\* The objects alive at each call: what the calls before it created.
LiveInv ==
  /\ pc \in Pcs
  /\ q \in 0..NStreams
  /\ pc \in {"platforms", "devices", "examine", "info", "context", "programs", "memgpu",
            "memconst"} => q = 0
  /\ pc \in {"platforms", "devices", "examine", "info", "context", "exited"} => live = {}
  /\ pc = "programs" => live = {R("context")}
  /\ pc = "memgpu" => live = {R("context"), R("program")}
  /\ pc = "memconst" => live = {R("context"), R("program"), R("mem_gpu")}
  /\ pc = "queues" => live = Buffers \cup Queues(q)
  /\ pc \in {"migrate", "memhost"} => live = Buffers \cup Queues(NStreams)
  /\ pc \in {"getptr", "map", "ok"} => live = Buffers \cup Queues(NStreams) \cup {R("mem_host")}
  /\ pc = "ok" => hostBase

\* The device loop: devicesOK marks exactly the usable devices examined,
\* and bestDevice is one of them, NoDevice only while none was found.
LoopTypes ==
  /\ devices \in Seq(DeviceT)
  /\ gpuDeviceOnly \in BOOLEAN /\ deviceNum \in Int /\ platformNum \in Int
  /\ bestDevice \in Int /\ device \in Int
  /\ devicesOK \in [DOMAIN devices -> BOOLEAN]
  /\ i \in 0..Len(devices)

\* What each stage of the initialisation has set: the platform, the device
\* list and the loop index.
LoopStage ==
  /\ pc = "platforms" => platform = -1
  /\ pc \in {"platforms", "devices"} => devices = <<>> /\ i = 0 /\ bestDevice = NoDevice
  /\ platform = -1 \/ platform = IF platformNum >= 0 THEN platformNum ELSE FirstCompat
  /\ pc \notin {"platforms", "quit"} => platform # -1
  /\ pc \notin {"platforms", "devices", "examine"} /\ pc # "quit" => i = Len(devices)
  /\ pc \in {"platforms", "devices", "examine"} => device = -1

LoopScan ==
  /\ \A j \in 0..(Len(devices) - 1) : devicesOK[j + 1] <=> (j < i /\ DeviceOK(devices[j + 1]))
  /\ bestDevice = NoDevice <=> \A j \in 0..(i - 1) : ~DeviceOK(devices[j + 1])
  /\ bestDevice # NoDevice => bestDevice \in 0..(i - 1) /\ DeviceOK(devices[bestDevice + 1])

\* The choice after the loop, and the reason of a quit at it.
LoopChoice ==
  /\ Chosen => /\ device \in 0..(Len(devices) - 1)
               /\ devicesOK[device + 1]
               /\ deviceNum > -1 => device = deviceNum
  /\ pc = "quit" /\ platform >= 0 /\ i = Len(devices) /\ device = -1 /\ devices # <<>> =>
       Usable = {} \/ (deviceNum > -1 /\ deviceNum \notin Usable)

LoopInv == LoopTypes /\ LoopStage /\ LoopScan /\ LoopChoice
-----------------------------------------------------------------------------
(* What is alive at each call.                                             *)

\* Creating the queue of stream n extends the queues of the streams before it.
LEMMA QueuesNext ==
  ASSUME NEW n \in Nat
  PROVE  Queues(n + 1) = Queues(n) \cup {Res("queue", n)}
BY DEF Queues

LEMMA InitLiveInv == Init => LiveInv
BY OCLDeviceInitAssumption DEF Init, LiveInv, Pcs

\* Each call adds the object it creates, or quits; ExitDevice_Runtime
\* releases everything InitDevice_Runtime created.
LEMMA NextLiveInv == LiveInv /\ [Next]_vars => LiveInv'
<1> SUFFICES ASSUME LiveInv, [Next]_vars PROVE LiveInv'
  OBVIOUS
<1> USE DEF LiveInv, Pcs, Quit, Goto, Keep, Inputs
<1>1. CASE GetPlatforms
  BY <1>1 DEF GetPlatforms
<1>2. CASE GetDevices
  BY <1>2 DEF GetDevices
<1>3. CASE ExamineDevice
  BY <1>3 DEF ExamineDevice
<1>4. CASE ChooseDevice
  BY <1>4 DEF ChooseDevice
<1>5. CASE CheckConstantMemory
  BY <1>5 DEF CheckConstantMemory
<1>6. CASE CreateContext
  BY <1>6 DEF CreateContext, Create
<1>7. CASE LoadPrograms
  BY <1>7 DEF LoadPrograms, Create
<1>8. CASE AllocDeviceMemory
  BY <1>8 DEF AllocDeviceMemory, Create
<1>9. CASE AllocConstantMemory
  <2>1. pc = "memconst" /\ UNCHANGED <<q, hostBase>>
    BY <1>9 DEF AllocConstantMemory
  <2>2. CASE pc' = "quit"
    BY <2>1, <2>2
  <2>3. CASE pc' = "queues" /\ live' = live \cup {R("mem_constant")}
    <3>1. Queues(0) = {}
      BY DEF Queues
    <3>2. live' = Buffers \cup Queues(0)
      BY <2>1, <2>3, <3>1 DEF Buffers
    <3>. QED
      BY <2>1, <2>3, <3>2
  <2>. QED
    BY <1>9, <2>2, <2>3 DEF AllocConstantMemory, Create
<1>10. CASE CreateQueue
  <2>1. pc = "queues"
    BY <1>10 DEF CreateQueue
  <2>2. CASE q < NStreams
    <3>1. Queues(q + 1) = Queues(q) \cup {Res("queue", q)}
      BY QueuesNext
    <3>2. CASE pc' = "quit"
      BY <1>10, <3>2 DEF CreateQueue
    <3>3. CASE q' = q + 1 /\ live' = live \cup {Res("queue", q)} /\ pc' = pc
      <4>1. live' = Buffers \cup Queues(q')
        BY <2>1, <3>1, <3>3
      <4>2. q' \in 0..NStreams
        BY <2>2, <3>3, OCLDeviceInitAssumption
      <4>3. hostBase' = hostBase
        BY <1>10 DEF CreateQueue
      <4>. QED
        BY <2>1, <3>3, <4>1, <4>2, <4>3
    <3>. QED
      BY <1>10, <2>1, <2>2, <3>2, <3>3 DEF CreateQueue
  <2>3. CASE ~(q < NStreams)
    BY <1>10, <2>1, <2>3, OCLDeviceInitAssumption DEF CreateQueue
  <2>. QED
    BY <2>2, <2>3
<1>11. CASE Migrate
  BY <1>11 DEF Migrate
<1>12. CASE AllocHostMemory
  BY <1>12 DEF AllocHostMemory, Create
<1>13. CASE GetDevicePointers
  BY <1>13 DEF GetDevicePointers
<1>14. CASE MapHostMemory
  BY <1>14 DEF MapHostMemory
<1>15. CASE ExitDevice
  BY <1>15 DEF ExitDevice, Buffers, Queues
<1>16. CASE UNCHANGED vars
  BY <1>16 DEF vars
<1>. QED
  BY <1>1, <1>2, <1>3, <1>4, <1>5, <1>6, <1>7, <1>8, <1>9, <1>10, <1>11, <1>12,
     <1>13, <1>14, <1>15, <1>16 DEF Next

\* Uninitialising after a successful initialisation leaves no OpenCL
\* object alive: ExitDevice_Runtime releases the buffers, every stream's
\* queue, the program and the context that InitDevice_Runtime created.
THEOREM ExitReleasesEverything == Spec => []ExitReleasesAll
<1>1. LiveInv => ExitReleasesAll
  BY DEF LiveInv, ExitReleasesAll
<1>. QED
  BY InitLiveInv, NextLiveInv, <1>1, PTL DEF Spec
-----------------------------------------------------------------------------
(* Device timers.                                                          *)

\* The calls before the queues and those after them.
PreQueues == {"platforms", "devices", "examine", "info", "context", "programs",
              "memgpu", "memconst"}
AfterQueues == {"migrate", "memhost", "getptr", "map", "ok", "exited"}

\* While the queues are created, the timers on an OpenCL 2 GPU mean that
\* every queue so far has profiling; after the loop, all of them.
ProfInv ==
  /\ q \in 0..NStreams
  /\ pc \in PreQueues => qprof = {} /\ q = 0
  /\ pc \in AfterQueues => q = NStreams
  /\ pc \in {"queues"} \cup AfterQueues /\ deviceTimers /\ Dev.major >= 2 /\ Dev.gpu
       => qprof = 0..(q - 1)

LEMMA InitProfInv == Init => ProfInv
BY OCLDeviceInitAssumption DEF Init, ProfInv, PreQueues, AfterQueues

\* A queue made with profiling extends the profiled streams by one.
LEMMA ProfNext ==
  ASSUME NEW n \in Nat
  PROVE  0..n = 0..(n - 1) \cup {n}
OBVIOUS

\* Every call keeps ProfInv: the calls other than the queue loop keep the
\* device, q and qprof, and never switch the timers on.
LEMMA NextProfInv == ProfInv /\ [Next]_vars => ProfInv'
<1> SUFFICES ASSUME ProfInv, [Next]_vars PROVE ProfInv'
  OBVIOUS
<1> USE DEF ProfInv, PreQueues, AfterQueues, Quit, Goto, Keep, Inputs
<1>1. CASE GetPlatforms
  BY <1>1 DEF GetPlatforms
<1>2. CASE GetDevices
  BY <1>2 DEF GetDevices
<1>3. CASE ExamineDevice
  BY <1>3 DEF ExamineDevice
<1>4. CASE ChooseDevice
  BY <1>4 DEF ChooseDevice
<1>5. CASE CheckConstantMemory
  BY <1>5 DEF CheckConstantMemory
<1>6. CASE CreateContext
  BY <1>6 DEF CreateContext, Create
<1>7. CASE LoadPrograms
  BY <1>7 DEF LoadPrograms, Create
<1>8. CASE AllocDeviceMemory
  BY <1>8 DEF AllocDeviceMemory, Create
<1>9. CASE AllocConstantMemory
  <2>1. pc = "memconst" /\ qprof = {} /\ q = 0 /\ UNCHANGED <<q, qprof>>
    BY <1>9 DEF AllocConstantMemory
  <2>2. 0..(0 - 1) = {}
    OBVIOUS
  <2>. QED
    BY <1>9, <2>1, <2>2 DEF AllocConstantMemory, Create
<1>10. CASE CreateQueue
  <2> DEFINE prof == Dev.major >= 2 /\ Dev.gpu /\ deviceTimers
             Made(p) == /\ q' = q + 1 /\ live' = live \cup {Res("queue", q)}
                        /\ qprof' = IF p THEN qprof \cup {q} ELSE qprof
                        /\ UNCHANGED pc
  <2>1. pc = "queues" /\ UNCHANGED <<devices, device>>
    BY <1>10 DEF CreateQueue
  <2>2. Dev' = Dev
    BY <2>1 DEF Dev
  <2>3. CASE q < NStreams
    <3>1. \/ Made(prof) /\ UNCHANGED deviceTimers
          \/ pc' = "quit" /\ UNCHANGED <<q, qprof>>
          \/ deviceTimers' = FALSE /\ Made(FALSE)
      BY <1>10, <2>3 DEF CreateQueue, Made, prof
    <3>2. q \in Nat
      OBVIOUS
    <3>3. CASE Made(prof) /\ UNCHANGED deviceTimers
      <4>1. q' = q + 1 /\ pc' = "queues" /\ q' \in 0..NStreams
        BY <2>1, <2>3, <3>3, OCLDeviceInitAssumption DEF Made
      <4>2. CASE prof
        <5>1. qprof = 0..(q - 1)
          BY <2>1, <4>2 DEF prof
        <5>2. qprof' = 0..(q - 1) \cup {q}
          BY <3>3, <4>2, <5>1 DEF Made
        <5>. QED
          BY <3>2, <4>1, <5>2, ProfNext
      <4>3. CASE ~prof
        <5>1. ~(deviceTimers' /\ Dev'.major >= 2 /\ Dev'.gpu)
          BY <2>2, <3>3, <4>3 DEF prof
        <5>. QED
          BY <4>1, <5>1
      <4>. QED
        BY <4>2, <4>3
    <3>4. CASE pc' = "quit" /\ UNCHANGED <<q, qprof>>
      BY <3>4
    <3>5. CASE deviceTimers' = FALSE /\ Made(FALSE)
      <4>1. q' = q + 1 /\ pc' = "queues" /\ q' \in 0..NStreams /\ qprof' = qprof
        BY <2>1, <2>3, <3>5, OCLDeviceInitAssumption DEF Made
      <4>. QED
        BY <3>5, <4>1
    <3>. QED
      BY <3>1, <3>3, <3>4, <3>5
  <2>4. CASE ~(q < NStreams)
    <3>1. pc' = "migrate" /\ UNCHANGED <<q, qprof, deviceTimers>> /\ q = NStreams
      BY <1>10, <2>1, <2>4, OCLDeviceInitAssumption DEF CreateQueue
    <3>. QED
      BY <2>1, <2>2, <3>1
  <2>. QED
    BY <2>3, <2>4
<1>11. CASE Migrate
  BY <1>11 DEF Migrate, Dev
<1>12. CASE AllocHostMemory
  BY <1>12 DEF AllocHostMemory, Create, Dev
<1>13. CASE GetDevicePointers
  BY <1>13 DEF GetDevicePointers, Dev
<1>14. CASE MapHostMemory
  BY <1>14 DEF MapHostMemory, Dev
<1>15. CASE ExitDevice
  BY <1>15 DEF ExitDevice, Dev
<1>16. CASE UNCHANGED vars
  BY <1>16 DEF vars, Dev
<1>. QED
  BY <1>1, <1>2, <1>3, <1>4, <1>5, <1>6, <1>7, <1>8, <1>9, <1>10, <1>11, <1>12,
     <1>13, <1>14, <1>15, <1>16 DEF Next

\* A platform that refuses the profiling property for any stream has the
\* device timers switched off: once the queues exist on an OpenCL 2 GPU
\* whose timers are still on, every stream's queue was created with
\* profiling (GPUReconstructionOCL::InitDevice_Runtime, lines 296-314).
THEOREM TimersOnlyWithProfiledQueues == Spec => []QueuesProfiledWithTimers
<1>1. ProfInv => QueuesProfiledWithTimers
  BY DEF ProfInv, AfterQueues, QueuesProfiledWithTimers
<1>. QED
  BY <1>1, InitProfInv, NextProfInv, PTL DEF Spec

-----------------------------------------------------------------------------
(* Device selection.                                                       *)

LEMMA InitLoopInv == Init => LoopInv
<1> SUFFICES ASSUME Init PROVE LoopInv
  OBVIOUS
<1>1. deviceNum \in Int /\ platformNum \in Int
  BY DEF Init
<1>2. devices \in Seq(DeviceT) /\ devicesOK \in [DOMAIN devices -> BOOLEAN] /\ Len(devices) = 0
  BY DEF Init
<1>. QED
  BY <1>1, <1>2 DEF Init, LoopInv, LoopTypes, LoopStage, LoopScan, LoopChoice, NoDevice, Chosen

\* Choosing the platform: a quit keeps it unset, otherwise it is the
\* requested or the first compatible one.
LEMMA PlatformsLoopInv == LoopInv /\ GetPlatforms => LoopInv'
<1> SUFFICES ASSUME LoopInv, GetPlatforms PROVE LoopInv'
  OBVIOUS
<1>1. pc = "platforms" /\ platform = -1 /\ devices = <<>> /\ i = 0 /\ bestDevice = NoDevice
      /\ device = -1
  BY DEF GetPlatforms, LoopInv, LoopStage
<1>2. UNCHANGED <<devices, i, bestDevice, devicesOK, device, numPlatforms, compat,
                  platformNum, gpuDeviceOnly, deviceNum>>
  BY DEF GetPlatforms, Inputs
<1>3. FirstCompat' = FirstCompat
  BY <1>2 DEF FirstCompat
<1>4. \/ pc' = "quit" /\ platform' = -1
      \/ pc' = "devices" /\ platform' # -1
         /\ platform' = IF platformNum >= 0 THEN platformNum ELSE FirstCompat
  BY <1>1 DEF GetPlatforms, Quit, Goto
<1>5. LoopTypes'
  BY <1>2 DEF LoopInv, LoopTypes
<1>6. LoopStage'
  BY <1>1, <1>2, <1>3, <1>4 DEF LoopStage
<1>7. LoopScan'
  BY <1>1, <1>2 DEF LoopScan, NoDevice
<1>8. LoopChoice'
  BY <1>4 DEF LoopChoice, Chosen
<1>. QED
  BY <1>5, <1>6, <1>7, <1>8 DEF LoopInv

\* Listing the devices: the loop starts with none examined.
LEMMA DevicesLoopInv == LoopInv /\ GetDevices => LoopInv'
<1> SUFFICES ASSUME LoopInv, GetDevices PROVE LoopInv'
  OBVIOUS
<1>1. pc = "devices" /\ platform # -1 /\ devices = <<>> /\ i = 0 /\ bestDevice = NoDevice
      /\ device = -1
  BY DEF GetDevices, LoopInv, LoopStage
<1>2. UNCHANGED <<platform, i, bestDevice, device, numPlatforms, compat, platformNum,
                  gpuDeviceOnly, deviceNum>>
  BY DEF GetDevices, Inputs
<1>3. FirstCompat' = FirstCompat
  BY <1>2 DEF FirstCompat
<1>4. CASE pc' = "quit" /\ UNCHANGED <<devices, devicesOK>>
  <2>1. LoopTypes' /\ LoopScan'
    BY <1>2, <1>4 DEF LoopInv, LoopTypes, LoopScan, DeviceOK
  <2>2. LoopStage' /\ LoopChoice'
    BY <1>1, <1>2, <1>3, <1>4 DEF LoopInv, LoopStage, LoopChoice, Chosen
  <2>. QED
    BY <2>1, <2>2 DEF LoopInv
<1>5. CASE \E l \in DeviceLists : devices' = l /\ devicesOK' = [j \in DOMAIN l |-> FALSE]
                                   /\ pc' = "examine"
  <2>1. PICK l \in DeviceLists : devices' = l /\ devicesOK' = [j \in DOMAIN l |-> FALSE]
                                  /\ pc' = "examine"
    BY <1>5
  <2>2. l \in Seq(DeviceT)
    BY OCLDeviceInitAssumption
  <2>3. LoopTypes'
    BY <1>1, <1>2, <2>1, <2>2 DEF LoopInv, LoopTypes
  <2>4. LoopScan'
    BY <1>1, <1>2, <2>1, <2>2 DEF LoopScan, NoDevice
  <2>5. LoopStage' /\ LoopChoice'
    BY <1>1, <1>2, <1>3, <2>1 DEF LoopInv, LoopStage, LoopChoice, Chosen
  <2>. QED
    BY <2>3, <2>4, <2>5 DEF LoopInv
<1>. QED
  BY <1>4, <1>5 DEF GetDevices, Quit, Goto

\* One iteration of the device loop marks the examined device exactly when
\* it passes the checks, and makes it the best one when it does.
LEMMA ExamineLoopInv == LoopInv /\ ExamineDevice => LoopInv'
<1> SUFFICES ASSUME LoopInv, ExamineDevice PROVE LoopInv'
  OBVIOUS
<1> DEFINE d == devices[i + 1]
<1>1. pc = "examine" /\ i \in 0..(Len(devices) - 1) /\ i' = i + 1
  BY DEF ExamineDevice, LoopInv, LoopTypes
<1>2. d \in DeviceT
  BY <1>1 DEF LoopInv, LoopTypes
<1>3. UNCHANGED <<pc, platform, devices, device, numPlatforms, compat, platformNum,
                  gpuDeviceOnly, deviceNum>>
  BY DEF ExamineDevice, Inputs
<1>4. DOMAIN devices = 1..Len(devices) /\ devicesOK \in [1..Len(devices) -> BOOLEAN]
  BY DEF LoopInv, LoopTypes
<1>5. \A j \in 0..(Len(devices) - 1) : DeviceOK(devices[j + 1])' <=> DeviceOK(devices[j + 1])
  BY <1>3 DEF DeviceOK
<1>6. LoopStage'
  <2>1. FirstCompat' = FirstCompat
    BY <1>3 DEF FirstCompat
  <2>. QED
    BY <1>1, <1>3, <2>1 DEF LoopInv, LoopStage
<1>7. LoopChoice'
  BY <1>1, <1>3 DEF LoopChoice, Chosen
<1>8. CASE DeviceOK(d)
  <2>1. Better(d)
    BY <1>2 DEF Better, DeviceT
  <2>2. devicesOK' = [devicesOK EXCEPT ![i + 1] = TRUE] /\ bestDevice' = i
    BY <1>8, <2>1 DEF ExamineDevice
  <2>3. LoopTypes'
    BY <1>1, <1>3, <1>4, <2>2 DEF LoopInv, LoopTypes
  <2>4. (\A j \in 0..(Len(devices) - 1) :
           devicesOK[j + 1] <=> (j < i /\ DeviceOK(devices[j + 1])))'
    <3> SUFFICES ASSUME NEW j \in 0..(Len(devices) - 1)
                 PROVE  devicesOK'[j + 1] <=> (j < i + 1 /\ DeviceOK(devices[j + 1]))
      BY <1>1, <1>3, <1>5
    <3>1. CASE j = i
      BY <1>1, <1>8, <1>4, <2>2, <3>1
    <3>2. CASE j # i
      BY <1>1, <1>4, <2>2, <3>2 DEF LoopInv, LoopScan
    <3>. QED
      BY <3>1, <3>2
  <2>5. (/\ bestDevice # NoDevice /\ bestDevice \in 0..(i - 1) /\ DeviceOK(devices[bestDevice + 1])
         /\ ~\A j \in 0..(i - 1) : ~DeviceOK(devices[j + 1]))'
    BY <1>1, <1>3, <1>8, <1>5, <2>2 DEF NoDevice
  <2>. QED
    BY <1>6, <1>7, <2>3, <2>4, <2>5 DEF LoopInv, LoopScan
<1>9. CASE ~DeviceOK(d)
  <2>1. UNCHANGED <<devicesOK, bestDevice>>
    BY <1>9 DEF ExamineDevice
  <2>2. LoopTypes'
    BY <1>1, <1>3, <2>1 DEF LoopInv, LoopTypes
  <2>3. (\A j \in 0..(Len(devices) - 1) :
           devicesOK[j + 1] <=> (j < i /\ DeviceOK(devices[j + 1])))'
    <3> SUFFICES ASSUME NEW j \in 0..(Len(devices) - 1)
                 PROVE  devicesOK[j + 1] <=> (j < i + 1 /\ DeviceOK(devices[j + 1]))
      BY <1>1, <1>3, <1>5, <2>1
    <3>1. CASE j = i
      BY <1>9, <3>1 DEF LoopInv, LoopScan
    <3>2. CASE j # i
      BY <1>1, <3>2 DEF LoopInv, LoopScan
    <3>. QED
      BY <3>1, <3>2
  <2>4. ((bestDevice = NoDevice) <=> \A j \in 0..(i - 1) : ~DeviceOK(devices[j + 1]))'
    <3>1. (\A j \in 0..(i - 1) : ~DeviceOK(devices[j + 1])) <=> (\A j \in 0..i : ~DeviceOK(devices[j + 1]))
      BY <1>1, <1>9
    <3>. QED
      BY <1>1, <1>3, <1>5, <2>1, <3>1 DEF LoopInv, LoopScan
  <2>5. (bestDevice # NoDevice => bestDevice \in 0..(i - 1) /\ DeviceOK(devices[bestDevice + 1]))'
    BY <1>1, <1>3, <1>5, <2>1 DEF LoopInv, LoopScan
  <2>. QED
    BY <1>6, <1>7, <2>2, <2>3, <2>4, <2>5 DEF LoopInv, LoopScan
<1>. QED
  BY <1>8, <1>9

\* After the loop: a quit is justified by the devices, a choice is a
\* usable device, the requested one when one was given.
LEMMA ChooseLoopInv == LoopInv /\ ChooseDevice => LoopInv'
<1> SUFFICES ASSUME LoopInv, ChooseDevice PROVE LoopInv'
  OBVIOUS
<1> DEFINE bad == \/ bestDevice = NoDevice
                  \/ deviceNum >= Len(devices)
                  \/ deviceNum > -1 /\ ~devicesOK[deviceNum + 1]
<1>1. pc = "examine" /\ i = Len(devices) /\ device = -1 /\ platform # -1
  BY DEF ChooseDevice, LoopInv, LoopStage
<1>2. UNCHANGED <<platform, devices, i, bestDevice, devicesOK, numPlatforms, compat,
                  platformNum, gpuDeviceOnly, deviceNum>>
  BY DEF ChooseDevice, Inputs
<1>3. FirstCompat' = FirstCompat /\ Usable' = Usable
  BY <1>2 DEF FirstCompat, Usable, DeviceOK
<1>4. LoopScan'
  BY <1>2 DEF LoopInv, LoopScan, DeviceOK
<1>5. CASE bad
  <2>1. pc' = "quit" /\ device' = -1
    BY <1>1, <1>5 DEF ChooseDevice, Quit
  <2>2. devices # <<>> => Usable = {} \/ (deviceNum > -1 /\ deviceNum \notin Usable)
    <3>1. CASE bestDevice = NoDevice
      BY <1>1, <3>1 DEF LoopInv, LoopScan, Usable
    <3>2. CASE deviceNum >= Len(devices)
      BY <3>2 DEF LoopInv, LoopTypes, Usable
    <3>3. CASE bestDevice # NoDevice /\ deviceNum < Len(devices) /\ deviceNum > -1
               /\ ~devicesOK[deviceNum + 1]
      BY <1>1, <3>3 DEF LoopInv, LoopTypes, LoopScan, Usable
    <3>. QED
      BY <1>5, <3>1, <3>2, <3>3 DEF LoopInv, LoopTypes
  <2>3. LoopTypes' /\ LoopStage'
    BY <1>1, <1>2, <1>3, <2>1 DEF LoopInv, LoopTypes, LoopStage
  <2>4. LoopChoice'
    BY <1>1, <1>2, <1>3, <2>1, <2>2 DEF LoopChoice, Chosen
  <2>. QED
    BY <1>4, <2>3, <2>4 DEF LoopInv
<1>6. CASE ~bad
  <2>1. pc' = "info" /\ device' = IF deviceNum > -1 THEN deviceNum ELSE bestDevice
    BY <1>6 DEF ChooseDevice, Goto
  <2>2. device' \in 0..(Len(devices) - 1) /\ devicesOK[device' + 1]
    <3>1. CASE deviceNum > -1
      BY <1>6, <2>1, <3>1 DEF LoopInv, LoopTypes
    <3>2. CASE ~(deviceNum > -1)
      <4>1. device' = bestDevice /\ bestDevice # NoDevice
        BY <1>6, <2>1, <3>2
      <4>2. bestDevice \in 0..(Len(devices) - 1) /\ DeviceOK(devices[bestDevice + 1])
        BY <1>1, <4>1 DEF LoopInv, LoopScan
      <4>. QED
        BY <1>1, <4>1, <4>2 DEF LoopInv, LoopScan
    <3>. QED
      BY <3>1, <3>2
  <2>3. LoopTypes' /\ LoopStage'
    BY <1>1, <1>2, <1>3, <2>1, <2>2 DEF LoopInv, LoopTypes, LoopStage
  <2>4. LoopChoice'
    BY <1>2, <2>1, <2>2 DEF LoopChoice, Chosen
  <2>. QED
    BY <1>4, <2>3, <2>4 DEF LoopInv
<1>. QED
  BY <1>5, <1>6

\* The calls after the choice leave the platform, the devices and the
\* chosen device as they are, whatever they do.
LEMMA KeepLoopInv ==
  ASSUME LoopInv, Keep, Chosen, pc' \notin {"platforms", "devices", "examine"}
  PROVE  LoopInv'
<1>1. pc # "quit" /\ platform # -1 /\ i = Len(devices)
      /\ device \in 0..(Len(devices) - 1) /\ devicesOK[device + 1]
  BY DEF Chosen, LoopInv, LoopStage, LoopChoice
<1>2. UNCHANGED <<platform, devices, i, bestDevice, devicesOK, device, numPlatforms, compat,
                  platformNum, gpuDeviceOnly, deviceNum>>
  BY DEF Keep, Inputs
<1>3. FirstCompat' = FirstCompat
  BY <1>2 DEF FirstCompat
<1>4. LoopTypes' /\ LoopScan'
  BY <1>2 DEF LoopInv, LoopTypes, LoopScan, DeviceOK
<1>5. LoopStage'
  BY <1>1, <1>2, <1>3 DEF LoopInv, LoopStage
<1>6. LoopChoice'
  BY <1>1, <1>2 DEF LoopInv, LoopChoice, Chosen
<1>. QED
  BY <1>4, <1>5, <1>6 DEF LoopInv

LEMMA NextLoopInv == LoopInv /\ [Next]_vars => LoopInv'
<1> SUFFICES ASSUME LoopInv, [Next]_vars PROVE LoopInv'
  OBVIOUS
<1>1. CASE GetPlatforms
  BY <1>1, PlatformsLoopInv
<1>2. CASE GetDevices
  BY <1>2, DevicesLoopInv
<1>3. CASE ExamineDevice
  BY <1>3, ExamineLoopInv
<1>4. CASE ChooseDevice
  BY <1>4, ChooseLoopInv
<1>5. CASE \/ CheckConstantMemory \/ CreateContext \/ LoadPrograms \/ AllocDeviceMemory
           \/ AllocConstantMemory \/ CreateQueue \/ Migrate \/ AllocHostMemory
           \/ GetDevicePointers \/ MapHostMemory \/ ExitDevice
  <2>1. Keep /\ Chosen /\ pc' \notin {"platforms", "devices", "examine"}
    BY <1>5 DEF CheckConstantMemory, CreateContext, LoadPrograms, AllocDeviceMemory,
                AllocConstantMemory, CreateQueue, Migrate, AllocHostMemory,
                GetDevicePointers, MapHostMemory, ExitDevice, Create, Quit, Goto, Keep, Chosen
  <2>. QED
    BY <2>1, KeepLoopInv
<1>6. CASE UNCHANGED vars
  BY <1>6 DEF vars, LoopInv, LoopTypes, LoopStage, LoopScan, LoopChoice, FirstCompat,
             DeviceOK, Chosen, Usable
<1>. QED
  BY <1>1, <1>2, <1>3, <1>4, <1>5, <1>6 DEF Next

\* The device InitDevice_Runtime goes on with is the requested one when a
\* number was given, a usable device of the chosen platform in any case,
\* and a quit at the choice means no usable device, or an unusable one
\* requested (SelectionSound, checked by the run ocl_init).
THEOREM DeviceSelectionSound == Spec => []SelectionSound
<1>1. LoopInv => SelectionSound
  BY DEF LoopInv, LoopTypes, LoopStage, LoopScan, LoopChoice, SelectionSound, Chosen, Usable
<1>. QED
  BY <1>1, InitLoopInv, NextLoopInv, PTL DEF Spec
=============================================================================
