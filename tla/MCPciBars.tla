------------------------------ MODULE MCPciBars ------------------------------
(* Instantiation of PciBars for TLC: buses of up to three functions drawn *)
(* from a few kinds of device.  Units are 4 KiB: PCI_RANGES starts at     *)
(* 0x4000_0000 (0x40000 units) with 0x2_0000 bytes (32 units).             *)
EXTENDS PciBars

Fn(type, size, width, ok) ==
    [virtio |-> type,
     bar |-> [kind |-> "Memory", address |-> 0, size |-> size, type |-> width],
     transport_ok |-> ok]

\* QEMU's virtio-pci devices put their capabilities in a 16 KiB 64-bit
\* BAR 4; a device may also have a 4 KiB 32-bit one, a firmware-assigned
\* one, or none that bar_info can read; a bridge or other function is not
\* virtio.
MCFunctions ==
    { Fn("Block", 4, "Width64", TRUE),
      Fn("Network", 1, "Width32", TRUE),
      Fn("Input", 4, "Width64", TRUE),
      Fn("Block", 4, "Below1MiB", TRUE),
      Fn("Network", 4, "Width64", FALSE),
      [Fn("Console", 4, "Width64", TRUE) EXCEPT !.bar.address = 8],
      [Fn("Block", 4, "Width64", TRUE) EXCEPT !.bar.kind = "Invalid"],
      Fn("None", 0, "Width32", TRUE) }

MCBuses == UNION {[1..n -> MCFunctions] : n \in 1..3}
=============================================================================
