-------------------------------- MODULE Pci --------------------------------
(***************************************************************************)
(* The scan of bus 0 in Kernel/drives/pci.c.  A bus gives for every device *)
(* and function what answers there: a storage controller, a display        *)
(* adapter, something else or nothing, and for every device the            *)
(* multi-function bit of function 0.  Where nothing answers, all bits read *)
(* as 1: a device without function 0 is scanned like a multi-function one. *)
(***************************************************************************)
EXTENDS Integers, Sequences, SequencesExt

CONSTANTS
    Devs,         \* device numbers, 0..31
    Funcs         \* function numbers, 0..7

Gpus == {"bochs", "vmware", "vga"}
Classes == {"none", "ide", "storage", "other"} \cup Gpus
Buses == [fn : [Devs \X Funcs -> Classes], multi : [Devs -> BOOLEAN]]

pci_device_exists(bus, d, f) == bus.fn[<<d, f>>] # "none"

\* The functions of a device the loops come to: without the multi-function bit the inner
\* loop breaks after function 0.
Multi(bus, d) == bus.multi[d] \/ ~pci_device_exists(bus, d, 0)
Visited(bus) == {p \in Devs \X Funcs : p[2] = 0 \/ Multi(bus, p[1])}

Earlier(a, b) == a[1] < b[1] \/ (a[1] = b[1] /\ a[2] < b[2])
InOrder(s) == SetToSortSeq(s, Earlier)
Truncated(s, max_count) == SubSeq(s, 1, IF Len(s) < max_count THEN Len(s) ELSE max_count)

\* The controllers in the order they are met, at most max_count of them.
pci_find_storage_controllers(bus, max_count) ==
    Truncated(InOrder({p \in Visited(bus) : bus.fn[p] \in {"ide", "storage"}}), max_count)

pci_scan_gpu(bus, max_count) ==
    Truncated(InOrder({p \in Visited(bus) : bus.fn[p] \in Gpus}), max_count)
=============================================================================
