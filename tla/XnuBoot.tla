------------------------------ MODULE XnuBoot ------------------------------
(***************************************************************************)
(* From boot_entry to a running kernel: the Multiboot2 entry               *)
(* (boot/boot_entry.c), the platform adapter (boot/boot_platform.c), the   *)
(* verifying bootloader (security/bootloader.c) and the choice of a kernel *)
(* provider (kernel/kernel.c).  One processor runs all of it in order; what*)
(* varies is the platform, the image, the policy, what the callbacks       *)
(* answer and which provider symbols are linked.                           *)
(*                                                                         *)
(* A callback of struct xnuxx_boot_platform is the set of answers it may   *)
(* give; the empty set is a NULL pointer.                                  *)
(***************************************************************************)
EXTENDS Integers, Sequences

CONSTANTS
    Capabilities,  \* XNUXX_BOOT_CAP_*
    Digests,       \* SHA-256 values
    FAILED,        \* a callback's non-zero return
    Platforms, Images, Policies,   \* what xnuxx_bootloader_start may be given
    Linkages,      \* which of the weak xnuxx_xnu_provider_* symbols may be linked
    HEAP_SIZE

PolicyBits == {"SIGNATURE", "MEASUREMENT", "ROLLBACK_PROTECTION", "IOMMU",
               "LAYER_CAPABILITIES", "STRICT"}

XnuSymbols == {"available", "init", "start", "idle"}

\* struct xnuxx_boot_platform; a generation is a uint64_t.
Platform ==
    [capabilities : SUBSET Capabilities,
     write_console : BOOLEAN,
     verify_signature : SUBSET {0, FAILED},
     measure_sha256 : SUBSET (Digests \cup {FAILED}),
     read_minimum_generation : SUBSET (Nat \cup {FAILED}),
     load_kernel : SUBSET {0, FAILED},
     enter_recovery : SUBSET {0, FAILED}]

\* struct xnuxx_boot_image: `payload` when payload and payload_size are usable,
\* `header` when magic, version, header_size, signature and digest pointers are.
Image ==
    [payload : BOOLEAN, header : BOOLEAN, generation : Nat,
     required_capabilities : SUBSET Capabilities, expected_measurement : Digests]

ASSUME BootAssumption ==
    /\ FAILED \notin Digests \cup Nat
    /\ Platforms \subseteq Platform
    /\ Images \subseteq Image
    /\ Policies \subseteq SUBSET PolicyBits
    /\ Linkages \subseteq SUBSET XnuSymbols
    /\ HEAP_SIZE \in Nat

\* enum xnuxx_boot_result; nothing returns UNSUPPORTED or RECOVERY_FAILED.
Results == {"OK", "INVALID_ARGUMENT", "INVALID_IMAGE", "UNSUPPORTED", "CAPABILITY_REJECTED",
            "SIGNATURE_REJECTED", "MEASUREMENT_REJECTED", "ROLLBACK_REJECTED",
            "LOAD_FAILED", "RECOVERY_FAILED"}

VARIABLES
    p, image, policy,  \* the arguments of xnuxx_bootloader_start
    linkage,           \* the provider symbols that are not NULL
    pc,                \* the next step
    passed,            \* the steps of the bootloader that have succeeded
    result,            \* what it returned
    recoveries,        \* the arguments of the calls of enter_recovery
    provider,          \* active_provider
    inits,             \* the providers whose init function was called, with its outcome
    heap,              \* heap_current - HEAP_START
    interrupts         \* the processor's interrupt flag

config == <<p, image, policy, linkage>>
kernel == <<provider, inits, heap, interrupts>>
vars   == <<p, image, policy, linkage, pc, passed, result, recoveries, provider,
            inits, heap, interrupts>>

NONE == "NONE"

Init ==
    /\ p \in Platforms /\ image \in Images /\ policy \in Policies /\ linkage \in Linkages
    /\ pc = "entry"
    /\ passed = {} /\ result = NONE /\ recoveries = <<>>
    /\ provider = NONE /\ inits = {} /\ heap = 0
    /\ interrupts \in BOOLEAN

-----------------------------------------------------------------------------
(* boot_entry: cli, then the magic number decides *)

BootEntry ==
    /\ pc = "entry"
    /\ interrupts' = FALSE
    /\ pc' \in {"arguments", "halted"}
    /\ UNCHANGED <<config, passed, result, recoveries, provider, inits, heap>>

-----------------------------------------------------------------------------
(* xnuxx_bootloader_start; boot_platform_start drops what it returns and   *)
(* boot_entry goes on to kernel_main                                       *)

Return(r) ==
    /\ result' = r
    /\ pc' = "kernel_main"
    /\ UNCHANGED <<config, kernel, passed>>

\* Mutant of Reject: what enter_recovery answers is returned.
RejectAnswer(r) ==
    /\ recoveries' = IF p.enter_recovery # {} THEN Append(recoveries, r) ELSE recoveries
    /\ \E answer \in IF p.enter_recovery # {} THEN p.enter_recovery ELSE {r} : Return(answer)

\* boot_reject and boot_fail: whatever enter_recovery answers, return r.
Reject(r) ==
    /\ recoveries' = IF p.enter_recovery # {} THEN Append(recoveries, r) ELSE recoveries
    /\ Return(r)

Pass(step, next) ==
    /\ passed' = passed \cup {step}
    /\ pc' = next
    /\ UNCHANGED <<config, kernel, result, recoveries>>

\* A refusal here is the only one that does not go through boot_reject.
CheckArguments ==
    /\ pc = "arguments"
    /\ IF image.payload /\ p.write_console
       THEN Pass("arguments", "header")
       ELSE Return("INVALID_ARGUMENT") /\ UNCHANGED recoveries

CheckHeader ==
    /\ pc = "header"
    /\ IF image.header THEN Pass("header", "capabilities") ELSE Reject("INVALID_IMAGE")

CheckCapabilities ==
    /\ pc = "capabilities"
    /\ IF "LAYER_CAPABILITIES" \in policy
          /\ image.required_capabilities \ p.capabilities # {}
       THEN Reject("CAPABILITY_REJECTED")
       ELSE Pass("capabilities", "signature")

\* Mutant of CheckSignature: a missing callback has nothing to object.
CheckSignatureOptional ==
    /\ pc = "signature"
    /\ IF "SIGNATURE" \notin policy THEN Reject("SIGNATURE_REJECTED")
       ELSE \E answer \in p.verify_signature \cup {0} :
               IF answer = FAILED THEN Reject("SIGNATURE_REJECTED")
               ELSE Pass("signature", "measurement")

\* A policy that does not ask for the signature is refused, like a missing callback.
CheckSignature ==
    /\ pc = "signature"
    /\ IF "SIGNATURE" \notin policy \/ p.verify_signature = {}
       THEN Reject("SIGNATURE_REJECTED")
       ELSE \E answer \in p.verify_signature :
               IF answer = FAILED THEN Reject("SIGNATURE_REJECTED")
               ELSE Pass("signature", "measurement")

\* Mutant of CheckMeasurement: the code of the check before it.
CheckMeasurementCode ==
    /\ pc = "measurement"
    /\ IF "MEASUREMENT" \notin policy \/ p.measure_sha256 = {}
       THEN Reject("SIGNATURE_REJECTED")
       ELSE \E answer \in p.measure_sha256 :
               IF answer # image.expected_measurement THEN Reject("SIGNATURE_REJECTED")
               ELSE Pass("measurement", "rollback")

CheckMeasurement ==
    /\ pc = "measurement"
    /\ IF "MEASUREMENT" \notin policy \/ p.measure_sha256 = {}
       THEN Reject("MEASUREMENT_REJECTED")
       ELSE \E answer \in p.measure_sha256 :
               IF answer # image.expected_measurement THEN Reject("MEASUREMENT_REJECTED")
               ELSE Pass("measurement", "rollback")

\* The IOMMU bit, looked at next, has no effect; nothing looks at STRICT.
CheckRollback ==
    /\ pc = "rollback"
    /\ IF "ROLLBACK_PROTECTION" \notin policy \/ p.read_minimum_generation = {}
       THEN Reject("ROLLBACK_REJECTED")
       ELSE \E answer \in p.read_minimum_generation :
               IF answer = FAILED \/ image.generation < answer
               THEN Reject("ROLLBACK_REJECTED")
               ELSE Pass("rollback", "load")

LoadKernel ==
    /\ pc = "load"
    /\ IF p.load_kernel = {}
       THEN Reject("LOAD_FAILED")
       ELSE \E answer \in p.load_kernel :
               IF answer = FAILED THEN Reject("LOAD_FAILED") ELSE Pass("load", "loaded")

LoadReturn == pc = "loaded" /\ Return("OK") /\ UNCHANGED recoveries

-----------------------------------------------------------------------------
(* kernel_main *)

\* The interrupt flag after the part of kernel_main that calls the XNU function
\* named: code outside the repository, if it is linked, may leave it either way.
FlagAfter(symbol) == IF symbol \in linkage THEN BOOLEAN ELSE {interrupts}

\* Mutant of InitXnu: active_provider is set before init answers.
InitXnuEarly ==
    /\ pc = "kernel_main"
    /\ \E available, ok \in BOOLEAN :
          LET tried == "available" \in linkage /\ available
          IN  /\ inits' = IF tried /\ "init" \in linkage
                          THEN inits \cup {<<"XNU", ok>>} ELSE inits
              /\ provider' = IF tried THEN "XNU" ELSE provider
              /\ pc' = IF tried THEN "start" ELSE "init_native"
    /\ interrupts' \in FlagAfter("available")
    /\ UNCHANGED <<config, passed, result, recoveries, heap>>

\* provider_init, the XNU half: available and init are external, answer freely and
\* may change the interrupt flag.
InitXnu ==
    /\ pc = "kernel_main"
    /\ \E available, ok \in BOOLEAN :
          LET tried   == "available" \in linkage /\ available
              success == tried /\ "init" \in linkage /\ ok
          IN  /\ inits' = IF tried /\ "init" \in linkage
                          THEN inits \cup {<<"XNU", ok>>} ELSE inits
              /\ provider' = IF success THEN "XNU" ELSE provider
              /\ pc' = IF success THEN "start" ELSE "init_native"
    /\ interrupts' \in FlagAfter("available")
    /\ UNCHANGED <<config, passed, result, recoveries, heap>>

\* native_provider_init loads the GDT and IDT, without a cli of its own, sets up the
\* PIC and cannot fail.
InitNative ==
    /\ pc = "init_native"
    /\ inits' = inits \cup {<<"NATIVE", TRUE>>}
    /\ provider' = "NATIVE"
    /\ pc' = "start"
    /\ UNCHANGED <<config, passed, result, recoveries, heap, interrupts>>

\* native_alloc of a bump allocator: where heap_current ends up, if it fits.
Align16(size) == ((size + 15) \div 16) * 16
Fits(size) == heap + Align16(size) <= HEAP_SIZE

\* Mutant of ProviderStart: a failed start selects a provider again.
ProviderRestart ==
    /\ pc = "start"
    /\ \E ok \in BOOLEAN :
          pc' = IF ok /\ IF provider = "XNU" THEN "start" \in linkage ELSE Fits(4)
                THEN "started" ELSE "kernel_main"
    /\ UNCHANGED <<config, passed, result, recoveries, kernel>>

\* provider_start: the XNU one answers freely; native_provider_start allocates
\* four bytes, and memory may fail the test it makes of them.
ProviderStart ==
    /\ pc = "start"
    /\ \E ok \in BOOLEAN :
          pc' = IF ok /\ IF provider = "XNU" THEN "start" \in linkage ELSE Fits(4)
                THEN "started" ELSE "panic"
    /\ heap' = IF provider = "NATIVE" /\ Fits(4) THEN heap + Align16(4) ELSE heap
    /\ interrupts' \in IF provider = "XNU" THEN FlagAfter("start") ELSE {interrupts}
    /\ UNCHANGED <<config, passed, result, recoveries, provider, inits>>

\* kernel_panic: cli, then hlt for ever.
KernelPanic ==
    /\ pc = "panic"
    /\ interrupts' = FALSE
    /\ pc' = "halted"
    /\ UNCHANGED <<config, passed, result, recoveries, provider, inits, heap>>

\* The idle loop of the provider: sti in the native one, else that of XNU.
KernelIdle ==
    /\ pc = "started"
    /\ interrupts' \in IF provider = "XNU" THEN FlagAfter("idle") ELSE {TRUE}
    /\ pc' = "running"
    /\ UNCHANGED <<config, passed, result, recoveries, provider, inits, heap>>

-----------------------------------------------------------------------------
Bootloader ==
    \/ CheckArguments
    \/ CheckHeader
    \/ CheckCapabilities
    \/ CheckSignature
    \/ CheckMeasurement
    \/ CheckRollback
    \/ LoadKernel
    \/ LoadReturn

KernelMain ==
    \/ InitXnu
    \/ InitNative
    \/ ProviderStart
    \/ KernelPanic
    \/ KernelIdle

Next == BootEntry \/ Bootloader \/ KernelMain

\* The processor keeps executing, and callbacks and providers return.
Spec == Init /\ [][Next]_vars /\ WF_vars(Next)

-----------------------------------------------------------------------------
(* Properties *)

\* The steps of the bootloader in order: those before each of them.
Before ==
    [arguments    |-> {},
     header       |-> {"arguments"},
     capabilities |-> {"arguments", "header"},
     signature    |-> {"arguments", "header", "capabilities"},
     measurement  |-> {"arguments", "header", "capabilities", "signature"},
     rollback     |-> {"arguments", "header", "capabilities", "signature", "measurement"},
     load         |-> {"arguments", "header", "capabilities", "signature", "measurement",
                       "rollback"}]

Steps == DOMAIN Before

\* The boot's progress, the bootloader's record and the provider have their types.
TypeOK ==
    /\ p \in Platforms /\ image \in Images /\ policy \in Policies /\ linkage \in Linkages
    /\ pc \in Steps \cup
              {"entry", "loaded", "kernel_main", "init_native", "start", "started",
               "panic", "halted", "running"}
    /\ passed \subseteq Steps
    /\ result \in Results \cup {NONE}
    /\ recoveries \in Seq(Results)
    /\ provider \in {NONE, "XNU", "NATIVE"}
    /\ inits \subseteq {"XNU", "NATIVE"} \X BOOLEAN
    /\ heap \in 0 .. HEAP_SIZE
    /\ interrupts \in BOOLEAN

\* What may make load_kernel legitimate, judged from the arguments alone.
Acceptable ==
    /\ image.payload /\ image.header
    /\ "LAYER_CAPABILITIES" \in policy => image.required_capabilities \subseteq p.capabilities
    /\ {"SIGNATURE", "MEASUREMENT", "ROLLBACK_PROTECTION"} \subseteq policy
    /\ 0 \in p.verify_signature
    /\ image.expected_measurement \in p.measure_sha256
    /\ \E g \in p.read_minimum_generation \ {FAILED} : image.generation >= g

\* load_kernel is reached, and OK returned, only for an image and a policy with
\* which every check can pass, and after each of them has.
HandoffVerified ==
    pc \in {"load", "loaded"} \/ result \in {"LOAD_FAILED", "OK"} =>
        /\ Acceptable
        /\ Before.load \subseteq passed

\* The step whose failure each result stands for.
FailedStep ==
    [INVALID_ARGUMENT |-> "arguments", INVALID_IMAGE |-> "header",
     CAPABILITY_REJECTED |-> "capabilities", SIGNATURE_REJECTED |-> "signature",
     MEASUREMENT_REJECTED |-> "measurement", ROLLBACK_REJECTED |-> "rollback",
     LOAD_FAILED |-> "load"]

\* The result names the first check that failed, none after it was made, and
\* recovery has been told of it exactly once; an invalid argument and a success
\* are never reported.
ResultExplains ==
    /\ result \in DOMAIN FailedStep =>
          /\ passed = Before[FailedStep[result]]
          /\ recoveries = IF p.enter_recovery = {} \/ result = "INVALID_ARGUMENT"
                          THEN <<>> ELSE <<result>>
    /\ result \in {NONE, "OK"} => recoveries = <<>>

\* A provider runs only if its own init succeeded, XNU never on top of the native
\* descriptor tables (native after a failed XNU init is what provider_init does, and
\* is accepted here); whatever XNU code did to the flag, a machine that halts has
\* interrupts off; and when none is linked they stay off from boot_entry until the
\* native provider, with its tables loaded, enters its loop.
ProviderCoherent ==
    /\ pc \in {"start", "started", "running"} =>
          /\ <<provider, TRUE>> \in inits
          /\ provider = "XNU" => <<"NATIVE", TRUE>> \notin inits
    /\ pc = "halted" => ~interrupts
    /\ "available" \notin linkage /\ pc # "entry" /\ interrupts =>
          pc = "running" /\ <<"NATIVE", TRUE>> \in inits

\* Every boot ends in a halt or in the idle loop of a provider.
BootSettles == <>(pc \in {"halted", "running"})

\* security/bootloader.c, boot_fail: "Deny-by-default: if no recovery callback
\* exists, do not continue boot.  Caller must halt or enter a trusted recovery
\* path."  The kernel is entered only with an accepted image.
DenyByDefault ==
    pc \in {"kernel_main", "init_native", "start", "started", "running"} => result = "OK"
=============================================================================
