------------------------------ MODULE PciBars -------------------------------
(***************************************************************************)
(* PCI enumeration of virtio devices on LoongArch                          *)
(* (src/os/src/drivers/virtio/mod.rs): enumerate_pci walks the functions  *)
(* of bus 0 in order; for a virtio function it enables the device          *)
(* (set_command), assigns its BAR 4 in dump_bar_contents, builds the       *)
(* PciTransport and probes the driver into ALL_DEVICES.                    *)
(*                                                                         *)
(* dump_bar_contents gives a memory BAR that the firmware left at address  *)
(* 0 the next range of PCI_RANGES, a bump allocator of (start, remaining)  *)
(* bytes.  A BAR register decodes an address aligned to the BAR's size:   *)
(* its low bits are read-only zero, so the address written is rounded     *)
(* down (PCI Local Bus spec, base address registers); the second bar_info *)
(* reads that back.                                                        *)
(*                                                                         *)
(* Enumeration runs once, at boot, on one CPU, so each iteration of the   *)
(* loop is one step.  Addresses and sizes are in 4 KiB units.  The BAR     *)
(* dump itself only reads device memory and is left out.                   *)
(***************************************************************************)
EXTENDS Integers, Sequences, FiniteSets

CONSTANTS
    Buses,      \* what enumerate_bus(0) can yield: sequences of function infos
    PCI_START,  \* PCI_RANGES.0 at boot
    PCI_SIZE    \* PCI_RANGES.1 at boot

VirtioTypes   == {"Block", "Network", "Input", "Console"}
BarKinds      == {"Memory", "Io", "Invalid"}      \* Invalid: bar_info is Err
BarTypes      == {"Width32", "Below1MiB", "Width64"}

\* A function of bus 0: its virtio device type ("None" for another device),
\* its BAR 4 as bar_info reports it, and whether PciTransport::new succeeds.
FunctionInfos ==
    [virtio : VirtioTypes \cup {"None"},
     bar : [kind : BarKinds, address : Nat, size : Nat, type : BarTypes],
     transport_ok : BOOLEAN]

ASSUME PciConstants ==
    /\ \A b \in Buses : b \in Seq(FunctionInfos)
    /\ PCI_START \in Nat /\ PCI_SIZE \in Nat

VARIABLES
    funcs,     \* the functions enumerate_bus(0) yields
    next,      \* index of the function the loop is at
    ranges,    \* PCI_RANGES: [start, remaining]
    bar,       \* BAR 4 register of each function, as the device decodes it
    assigned,  \* functions whose BAR 4 dump_bar_contents wrote
    enabled,   \* functions set_command enabled
    devices,   \* ALL_DEVICES: the functions probed into a driver
    panicked   \* "none", or the macro or unwrap that stopped the kernel

vars == <<funcs, next, ranges, bar, assigned, enabled, devices, panicked>>

\* What a BAR of the given size decodes after the address a is written:
\* the address with the bits below the size cleared.
Decoded(a, size) == (a \div size) * size

Init ==
    /\ funcs \in Buses
    /\ next = 1
    /\ ranges = [start |-> PCI_START, remaining |-> PCI_SIZE]
    /\ bar = [i \in 1..Len(funcs) |-> funcs[i].bar.address]
    /\ assigned = {}
    /\ enabled = {}
    /\ devices = << >>
    /\ panicked = "none"

Halt(why) ==
    /\ panicked' = why
    /\ UNCHANGED <<funcs, next, ranges, bar, assigned, enabled, devices>>

\* dump_bar_contents(root, df, 4) on LoongArch: bar_info(...).unwrap(); a
\* memory BAR at address 0 with a size asserts PCI_RANGES.1 > size, takes
\* start = PCI_RANGES.0, bumps both fields by size, and writes start with
\* set_bar_32 or set_bar_64 (Below1MiB reaches todo!()).  The outcome:
\* "ok" with the new ranges and register, or the reason it panicked.
DumpBarContents(i) ==
    LET b == funcs[i].bar
    IN CASE b.kind = "Invalid" -> [res |-> "unwrap"]
         [] b.kind = "Memory" /\ b.address = 0 /\ b.size > 0 ->
              CASE ~(ranges.remaining > b.size) -> [res |-> "assert"]
                [] b.type = "Below1MiB"         -> [res |-> "todo"]
                [] OTHER ->
                     [res |-> "ok", write |-> TRUE,
                      ranges |-> [start |-> ranges.start + b.size,
                                  remaining |-> ranges.remaining - b.size],
                      reg |-> Decoded(ranges.start, b.size)]
         [] OTHER -> [res |-> "ok", write |-> FALSE]

\* virtio_device_probe: Block and Network devices get a driver that is
\* added to ALL_DEVICES; any other type is only logged.
Probed(i) ==
    IF funcs[i].virtio \in {"Block", "Network"} THEN Append(devices, i)
    ELSE devices

\* One iteration of enumerate_pci's loop over enumerate_bus(0): a virtio
\* function is enabled (IO_SPACE | MEMORY_SPACE | BUS_MASTER), its BAR 4
\* assigned, PciTransport::new(...).unwrap() built, its features written
\* back filtered, and the transport probed; any other function is skipped.
EnumerateStep ==
    LET i == next
        d == DumpBarContents(i)
    IN /\ panicked = "none"
       /\ next <= Len(funcs)
       /\ IF funcs[i].virtio = "None"
            THEN /\ next' = next + 1
                 /\ UNCHANGED <<funcs, ranges, bar, assigned, enabled, devices, panicked>>
          ELSE IF d.res # "ok" THEN Halt(d.res)
          ELSE IF ~funcs[i].transport_ok THEN Halt("unwrap")
          ELSE /\ enabled' = enabled \cup {i}
               /\ ranges' = IF d.write THEN d.ranges ELSE ranges
               /\ bar' = IF d.write THEN [bar EXCEPT ![i] = d.reg] ELSE bar
               /\ assigned' = IF d.write THEN assigned \cup {i} ELSE assigned
               /\ devices' = Probed(i)
               /\ next' = next + 1
               /\ UNCHANGED <<funcs, panicked>>

Next == EnumerateStep

Spec == Init /\ [][Next]_vars

-----------------------------------------------------------------------------
(* Properties                                                              *)

\* The address range BAR 4 of function i decodes
Window(i) == bar[i]..(bar[i] + funcs[i].bar.size - 1)

\* The BARs dump_bar_contents assigns from PCI_RANGES decode disjoint
\* ranges inside the window PCI_RANGES stands for, so no two devices
\* answer the same MMIO address.
AssignedBarsDisjoint ==
    \A i \in assigned :
        /\ Window(i) \subseteq PCI_START..(PCI_START + PCI_SIZE - 1)
        /\ \A j \in assigned \ {i} : Window(i) \cap Window(j) = {}

=============================================================================
