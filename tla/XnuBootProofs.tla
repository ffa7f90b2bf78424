--------------------------- MODULE XnuBootProofs ---------------------------
(***************************************************************************)
(* Proofs about XnuBoot, for every platform, image, policy and linkage.    *)
(***************************************************************************)
EXTENDS XnuBoot, TLAPS

\* What each step that has succeeded says of the arguments.
PassedMeans ==
    /\ "arguments" \in passed => image.payload
    /\ "header" \in passed => image.header
    /\ "capabilities" \in passed =>
          ("LAYER_CAPABILITIES" \in policy => image.required_capabilities \subseteq p.capabilities)
    /\ "signature" \in passed => "SIGNATURE" \in policy /\ 0 \in p.verify_signature
    /\ "measurement" \in passed =>
          "MEASUREMENT" \in policy /\ image.expected_measurement \in p.measure_sha256
    /\ "rollback" \in passed =>
          /\ "ROLLBACK_PROTECTION" \in policy
          /\ \E g \in p.read_minimum_generation \ {FAILED} : image.generation >= g

\* While the bootloader runs it has passed exactly the steps before its next
\* one, has no result and has not called for recovery.
Progress ==
    /\ pc \in Steps => passed = Before[pc]
    /\ pc = "entry" => passed = {}
    /\ pc = "loaded" => passed = Steps
    /\ pc \in Steps \cup {"entry", "loaded"} => result = NONE
    /\ result = "OK" => passed = Steps

\* Which providers have been initialized when; XNU only where its code is linked.
ProviderStage ==
    /\ pc \in Steps \cup {"entry", "loaded", "kernel_main"} => inits = {}
    /\ pc = "init_native" => <<"NATIVE", TRUE>> \notin inits
    /\ provider = "XNU" => "available" \in linkage

BootInv == TypeOK /\ PassedMeans /\ Progress /\ ResultExplains
           /\ ProviderStage /\ ProviderCoherent

\* The steps' names, spelled out for the provers.
LEMMA StepNames ==
    Steps = {"arguments", "header", "capabilities", "signature", "measurement",
             "rollback", "load"}
  BY DEF Steps, Before

\* boot_entry is reached with nothing checked and no provider chosen.
LEMMA InitBoot == Init => BootInv
  BY BootAssumption, StepNames
  DEF Init, BootInv, TypeOK, PassedMeans, Progress, ResultExplains, FailedStep, ProviderStage,
      ProviderCoherent, NONE

\* A check of xnuxx_bootloader_start that succeeds leads to the next one: if the
\* step's own meaning holds, everything else is kept.
LEMMA PassKeeps ==
    ASSUME BootInv, NEW next \in Steps \cup {"loaded"}, pc \in Steps,
           Pass(pc, next),
           next = "loaded" <=> pc = "load",
           next \in Steps => Before[next] = Before[pc] \cup {pc},
           PassedMeans'
    PROVE  BootInv'
<1>1. TypeOK'
  BY StepNames DEF BootInv, TypeOK, Pass, config, kernel
<1>2. Progress'
  BY StepNames DEF BootInv, TypeOK, Progress, Pass, config, kernel, Before
<1>3. ResultExplains'
  BY StepNames DEF BootInv, Progress, ResultExplains, FailedStep, Pass, config, kernel, NONE
<1>4. ProviderStage' /\ ProviderCoherent'
  BY StepNames DEF BootInv, ProviderStage, ProviderCoherent, Pass, config, kernel
<1> QED BY <1>1, <1>2, <1>3, <1>4 DEF BootInv

\* boot_reject in the step a result stands for leaves that result explained.
LEMMA RejectKeeps ==
    ASSUME BootInv, NEW r \in DOMAIN FailedStep \ {"INVALID_ARGUMENT"}, pc = FailedStep[r],
           Reject(r)
    PROVE  BootInv'
<1>0. pc \in Steps /\ r \in Results /\ r \notin {NONE, "OK"}
  BY StepNames DEF Results, FailedStep, NONE
<1>1. recoveries = <<>> /\ passed = Before[pc]
  BY <1>0 DEF BootInv, Progress, ResultExplains
<1>2. recoveries' = IF p.enter_recovery = {} THEN <<>> ELSE <<r>>
  BY <1>1 DEF Reject
<1>3. TypeOK'
  BY <1>0, <1>2 DEF BootInv, TypeOK, Reject, Return, config, kernel
<1>4. Progress' /\ PassedMeans'
  BY <1>0, StepNames DEF BootInv, Progress, PassedMeans, Reject, Return, config, kernel
<1>5. ResultExplains'
  BY <1>0, <1>1, <1>2 DEF ResultExplains, Reject, Return, config, kernel
<1>6. ProviderStage' /\ ProviderCoherent'
  BY <1>0, StepNames DEF BootInv, ProviderStage, ProviderCoherent, Reject, Return, config, kernel
<1> QED BY <1>3, <1>4, <1>5, <1>6 DEF BootInv

KernelSteps == {"kernel_main", "init_native", "start", "started", "panic", "halted", "running"}

\* kernel_main leaves the bootloader's record alone.
LEMMA RecordKept ==
    ASSUME BootInv, UNCHANGED <<config, passed, result, recoveries>>,
           pc' \in KernelSteps
    PROVE  PassedMeans' /\ Progress' /\ ResultExplains'
<1>1. PassedMeans' BY DEF BootInv, PassedMeans, config
<1>2. Progress' BY StepNames DEF BootInv, Progress, KernelSteps
<1>3. ResultExplains' BY DEF BootInv, ResultExplains, config
<1> QED BY <1>1, <1>2, <1>3

\* Every step of boot_entry, xnuxx_bootloader_start and kernel_main keeps BootInv.
LEMMA BootInductive == BootInv /\ [Next]_vars => BootInv'
<1> SUFFICES ASSUME BootInv, [Next]_vars PROVE BootInv'
  OBVIOUS
<1>t. /\ p \in Platform /\ image \in Image
      /\ pc \in Steps => passed = Before[pc] /\ result = NONE /\ recoveries = <<>>
  BY BootAssumption DEF BootInv, TypeOK, Progress, ResultExplains
<1>1. CASE BootEntry
  <2>1. TypeOK'
    BY <1>1, StepNames DEF BootEntry, BootInv, TypeOK, config
  <2>2. PassedMeans' /\ Progress'
    BY <1>1, StepNames DEF BootEntry, BootInv, PassedMeans, Progress, config, Before, NONE
  <2>3. ResultExplains'
    BY <1>1 DEF BootEntry, BootInv, ResultExplains, config
  <2>4. ProviderStage' /\ ProviderCoherent'
    BY <1>1, StepNames DEF BootEntry, BootInv, ProviderStage, ProviderCoherent, config
  <2> QED BY <2>1, <2>2, <2>3, <2>4 DEF BootInv
<1>2. CASE CheckArguments
  <2>1. CASE image.payload /\ p.write_console
    <3>1. Pass("arguments", "header") /\ pc = "arguments"
      BY <1>2, <2>1 DEF CheckArguments
    <3>2. PassedMeans'
      BY <3>1, <2>1, <1>t, StepNames DEF BootInv, PassedMeans, Pass, config
    <3> QED BY <3>1, <3>2, PassKeeps, StepNames DEF Before
  <2>2. CASE ~ (image.payload /\ p.write_console)
    <3>1. Return("INVALID_ARGUMENT") /\ UNCHANGED recoveries /\ pc = "arguments"
      BY <1>2, <2>2 DEF CheckArguments
    <3>2. TypeOK'
      BY <3>1 DEF Return, BootInv, TypeOK, config, kernel, Results
    <3>3. PassedMeans' /\ Progress'
      BY <3>1, StepNames DEF Return, BootInv, PassedMeans, Progress, config, kernel
    <3>4. passed = {} /\ recoveries = <<>>
      BY <3>1, <1>t, StepNames DEF Before
    <3>5. ResultExplains'
      BY <3>1, <3>4 DEF Return, ResultExplains, FailedStep, Before, NONE
    <3>6. ProviderStage' /\ ProviderCoherent'
      BY <3>1, StepNames
      DEF Return, BootInv, ProviderStage, ProviderCoherent, config, kernel
    <3> QED BY <3>2, <3>3, <3>5, <3>6 DEF BootInv
  <2> QED BY <2>1, <2>2
<1>3. CASE CheckHeader
  <2>1. CASE image.header
    <3>1. Pass("header", "capabilities") /\ pc = "header"
      BY <1>3, <2>1 DEF CheckHeader
    <3>2. PassedMeans'
      BY <3>1, <2>1, <1>t, StepNames DEF BootInv, PassedMeans, Pass, config
    <3> QED BY <3>1, <3>2, PassKeeps, StepNames DEF Before
  <2>2. CASE ~ image.header
    BY <1>3, <2>2, RejectKeeps DEF CheckHeader, Results, FailedStep
  <2> QED BY <2>1, <2>2
<1>4. CASE CheckCapabilities
  <2>1. CASE Reject("CAPABILITY_REJECTED")
    BY <1>4, <2>1, RejectKeeps DEF CheckCapabilities, Results, FailedStep
  <2>2. CASE ~ Reject("CAPABILITY_REJECTED")
    <3>1. /\ Pass("capabilities", "signature") /\ pc = "capabilities"
          /\ "LAYER_CAPABILITIES" \in policy =>
                image.required_capabilities \subseteq p.capabilities
      BY <1>4, <2>2 DEF CheckCapabilities
    <3>2. PassedMeans'
      BY <3>1, <1>t, StepNames DEF BootInv, PassedMeans, Pass, config
    <3> QED BY <3>1, <3>2, PassKeeps, StepNames DEF Before
  <2> QED BY <2>1, <2>2
<1>5. CASE CheckSignature
  <2>1. CASE Reject("SIGNATURE_REJECTED")
    BY <1>5, <2>1, RejectKeeps DEF CheckSignature, Results, FailedStep
  <2>2. CASE ~ Reject("SIGNATURE_REJECTED")
    <3>1. /\ Pass("signature", "measurement") /\ pc = "signature"
          /\ "SIGNATURE" \in policy /\ 0 \in p.verify_signature
      BY <1>5, <2>2, <1>t DEF CheckSignature, Platform
    <3>2. PassedMeans'
      BY <3>1, <1>t, StepNames DEF BootInv, PassedMeans, Pass, config
    <3> QED BY <3>1, <3>2, PassKeeps, StepNames DEF Before
  <2> QED BY <2>1, <2>2
<1>6. CASE CheckMeasurement
  <2>1. CASE Reject("MEASUREMENT_REJECTED")
    BY <1>6, <2>1, RejectKeeps DEF CheckMeasurement, Results, FailedStep
  <2>2. CASE ~ Reject("MEASUREMENT_REJECTED")
    <3>1. /\ Pass("measurement", "rollback") /\ pc = "measurement"
          /\ "MEASUREMENT" \in policy /\ image.expected_measurement \in p.measure_sha256
      BY <1>6, <2>2 DEF CheckMeasurement
    <3>2. PassedMeans'
      BY <3>1, <1>t, StepNames DEF BootInv, PassedMeans, Pass, config
    <3> QED BY <3>1, <3>2, PassKeeps, StepNames DEF Before
  <2> QED BY <2>1, <2>2
<1>7. CASE CheckRollback
  <2>1. CASE Reject("ROLLBACK_REJECTED")
    BY <1>7, <2>1, RejectKeeps DEF CheckRollback, Results, FailedStep
  <2>2. CASE ~ Reject("ROLLBACK_REJECTED")
    <3>1. /\ Pass("rollback", "load") /\ pc = "rollback"
          /\ "ROLLBACK_PROTECTION" \in policy
          /\ \E g \in p.read_minimum_generation \ {FAILED} : image.generation >= g
      BY <1>7, <2>2, <1>t DEF CheckRollback, Platform, Image
    <3>2. PassedMeans'
      BY <3>1, <1>t, StepNames DEF BootInv, PassedMeans, Pass, config
    <3> QED BY <3>1, <3>2, PassKeeps, StepNames DEF Before
  <2> QED BY <2>1, <2>2
<1>8. CASE LoadKernel
  <2>1. CASE Reject("LOAD_FAILED")
    BY <1>8, <2>1, RejectKeeps DEF LoadKernel, Results, FailedStep
  <2>2. CASE ~ Reject("LOAD_FAILED")
    <3>1. Pass("load", "loaded") /\ pc = "load"
      BY <1>8, <2>2 DEF LoadKernel
    <3>2. PassedMeans'
      BY <3>1, StepNames DEF BootInv, PassedMeans, Pass, config
    <3> QED BY <3>1, <3>2, PassKeeps, StepNames DEF Before
  <2> QED BY <2>1, <2>2
<1>9. CASE LoadReturn
  BY <1>9, StepNames
  DEF LoadReturn, Return, BootInv, TypeOK, PassedMeans, Progress, ResultExplains,
      FailedStep, ProviderStage, ProviderCoherent, config, kernel, Results, NONE
<1>10. CASE InitXnu
  <2>1. PassedMeans' /\ Progress' /\ ResultExplains'
    BY <1>10, RecordKept DEF InitXnu, KernelSteps
  <2>2. TypeOK'
    BY <1>10, BootAssumption, StepNames DEF InitXnu, FlagAfter, BootInv, TypeOK, config
  <2>3. ProviderStage' /\ ProviderCoherent'
    BY <1>10, StepNames DEF InitXnu, FlagAfter, BootInv, TypeOK, ProviderStage, ProviderCoherent, config
  <2> QED BY <2>1, <2>2, <2>3 DEF BootInv
<1>11. CASE InitNative
  <2>1. PassedMeans' /\ Progress' /\ ResultExplains'
    BY <1>11, RecordKept DEF InitNative, KernelSteps
  <2>2. TypeOK'
    <3>1. <<"NATIVE", TRUE>> \in {"XNU", "NATIVE"} \X BOOLEAN
      OBVIOUS
    <3>2. inits' \subseteq {"XNU", "NATIVE"} \X BOOLEAN
      BY <1>11, <3>1 DEF InitNative, BootInv, TypeOK
    <3> QED BY <1>11, <3>2, StepNames DEF InitNative, BootInv, TypeOK, config
  <2>3. ProviderStage' /\ ProviderCoherent'
    BY <1>11, StepNames DEF InitNative, BootInv, TypeOK, ProviderStage, ProviderCoherent, config
  <2> QED BY <2>1, <2>2, <2>3 DEF BootInv
<1>12. CASE ProviderStart
  <2>1. PassedMeans' /\ Progress' /\ ResultExplains'
    BY <1>12, RecordKept DEF ProviderStart, KernelSteps
  <2>2. TypeOK'
    BY <1>12, BootAssumption, StepNames DEF ProviderStart, FlagAfter, BootInv, TypeOK, config, Fits, Align16
  <2>3. ProviderStage' /\ ProviderCoherent'
    BY <1>12, StepNames DEF ProviderStart, FlagAfter, BootInv, TypeOK, ProviderStage, ProviderCoherent, config
  <2> QED BY <2>1, <2>2, <2>3 DEF BootInv
<1>13. CASE KernelPanic
  <2>1. PassedMeans' /\ Progress' /\ ResultExplains'
    BY <1>13, RecordKept DEF KernelPanic, KernelSteps
  <2>2. TypeOK'
    BY <1>13, BootAssumption, StepNames DEF KernelPanic, BootInv, TypeOK, config
  <2>3. ProviderStage' /\ ProviderCoherent'
    BY <1>13, StepNames DEF KernelPanic, BootInv, TypeOK, ProviderStage, ProviderCoherent, config
  <2> QED BY <2>1, <2>2, <2>3 DEF BootInv
<1>14. CASE KernelIdle
  <2>1. PassedMeans' /\ Progress' /\ ResultExplains'
    BY <1>14, RecordKept DEF KernelIdle, KernelSteps
  <2>2. TypeOK'
    BY <1>14, BootAssumption, StepNames DEF KernelIdle, FlagAfter, BootInv, TypeOK, config
  <2>3. ProviderStage' /\ ProviderCoherent'
    BY <1>14, StepNames DEF KernelIdle, FlagAfter, BootInv, TypeOK, ProviderStage, ProviderCoherent, config
  <2> QED BY <2>1, <2>2, <2>3 DEF BootInv
<1>15. CASE UNCHANGED vars
  BY <1>15
  DEF vars, BootInv, TypeOK, PassedMeans, Progress, ResultExplains, ProviderStage,
      ProviderCoherent
<1> QED
  BY <1>1, <1>2, <1>3, <1>4, <1>5, <1>6, <1>7, <1>8, <1>9, <1>10, <1>11, <1>12, <1>13,
     <1>14, <1>15
  DEF Next, Bootloader, KernelMain

\* The inductive invariant gives the properties.
LEMMA BootConsequences == BootInv => HandoffVerified /\ ResultExplains /\ ProviderCoherent
<1> SUFFICES ASSUME BootInv PROVE HandoffVerified
  BY DEF BootInv
<1>1. SUFFICES ASSUME pc \in {"load", "loaded"} \/ result \in {"LOAD_FAILED", "OK"}
               PROVE  Acceptable /\ Before.load \subseteq passed
  BY DEF HandoffVerified
<1>2. Before.load \subseteq passed
  BY <1>1, StepNames DEF BootInv, Progress, ResultExplains, FailedStep, Before
<1> QED BY <1>2 DEF BootInv, PassedMeans, Acceptable, Before

\* Every variable of the boot path keeps its type: in particular native_alloc keeps
\* the heap within its extent.
THEOREM TypeCorrect == Spec => []TypeOK
<1>1. Spec => []BootInv
  BY InitBoot, BootInductive, PTL DEF Spec
<1>2. BootInv => TypeOK
  BY DEF BootInv
<1> QED BY <1>1, <1>2, PTL

\* xnuxx_bootloader_start reaches load_kernel, and returns OK, only with an
\* image and a policy that every check accepts, and after all of them have.
THEOREM HandoffAlwaysVerified == Spec => []HandoffVerified
<1>1. Spec => []BootInv
  BY InitBoot, BootInductive, PTL DEF Spec
<1> QED BY <1>1, BootConsequences, PTL

\* The result of xnuxx_bootloader_start names the first check that failed, and
\* boot_reject has told recovery of it exactly once.
THEOREM ResultAlwaysExplains == Spec => []ResultExplains
<1>1. Spec => []BootInv
  BY InitBoot, BootInductive, PTL DEF Spec
<1> QED BY <1>1, BootConsequences, PTL

\* kernel_main starts and runs only a provider whose init succeeded; whatever linked
\* XNU code does to the interrupt flag it halts with interrupts off, and without such
\* code it enables them only in the native loop, with the native tables loaded.
THEOREM ProviderAlwaysCoherent == Spec => []ProviderCoherent
<1>1. Spec => []BootInv
  BY InitBoot, BootInductive, PTL DEF Spec
<1> QED BY <1>1, BootConsequences, PTL
=============================================================================
