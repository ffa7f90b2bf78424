----------------------------- MODULE MCXnuBoot -----------------------------
(***************************************************************************)
(* Instances of XnuBoot: the arguments boot_platform_start passes, and all *)
(* that differ from acceptable ones in the callbacks, the image or the     *)
(* policy.                                                                 *)
(***************************************************************************)
EXTENDS XnuBoot

CONSTANTS zeros, other   \* 32 zero bytes, and any other digest

RequiredBits == {"SIGNATURE", "MEASUREMENT", "ROLLBACK_PROTECTION", "LAYER_CAPABILITIES"}

\* Every callback NULL or free to give any answer.
AnyPlatform ==
    { [capabilities |-> {"KERNEL_PROVIDER"},
       write_console |-> console,
       verify_signature |-> verify,
       measure_sha256 |-> measure,
       read_minimum_generation |-> minimum,
       load_kernel |-> load,
       enter_recovery |-> recovery] :
        console \in BOOLEAN,
        verify \in {{}, {0, FAILED}},
        measure \in {{}, {zeros, other, FAILED}},
        minimum \in {{}, {0, 1, FAILED}},
        load \in {{}, {0, FAILED}},
        recovery \in {{}, {0, FAILED}} }

AnyImage ==
    { [payload |-> payload, header |-> header, generation |-> generation,
       required_capabilities |-> required, expected_measurement |-> zeros] :
        payload \in BOOLEAN, header \in BOOLEAN, generation \in 0 .. 1,
        required \in {{"KERNEL_PROVIDER"}, {"KERNEL_PROVIDER", "SECURITY_LAYER"}} }

\* A missing bit each, all of them, and every bit there is.
AnyPolicy == { RequiredBits \ {bit} : bit \in RequiredBits } \cup {RequiredBits, PolicyBits}

AnyLinkage == { {}, {"available"}, {"available", "init"}, XnuSymbols }

\* boot/boot_platform.c: the adapter's table of callbacks, its image and policy.
AdapterPlatform ==
    { [capabilities |-> {"KERNEL_PROVIDER", "SECURITY_LAYER", "UPDATE_LAYER",
                         "DEVICE_LAYER", "RECOVERY"},
       write_console |-> TRUE,
       verify_signature |-> {0},
       measure_sha256 |-> {zeros, other},
       read_minimum_generation |-> {0},
       load_kernel |-> {0},
       enter_recovery |-> {FAILED}] }

AdapterImage ==
    { [payload |-> TRUE, header |-> TRUE, generation |-> 0,
       required_capabilities |-> {"KERNEL_PROVIDER", "SECURITY_LAYER", "DEVICE_LAYER"},
       expected_measurement |-> zeros] }

AdapterPolicy == { RequiredBits }
=============================================================================
