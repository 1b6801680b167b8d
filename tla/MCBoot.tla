------------------------------- MODULE MCBoot -------------------------------
(***************************************************************************)
(* Boot on a few machines, with a volume of a few clusters.                *)
(***************************************************************************)
EXTENDS Boot

\* "long1" and "long2" shorten to the same 8.3 name and differ in length.
MCNames == {"short", "long1", "long2"}
MCTo83 == [n \in MCNames |-> IF n = "short" THEN "S" ELSE "L"]
MCPieces == [n \in MCNames |-> IF n = "long2" THEN 2 ELSE 1]

MCFsInfos == {[free |-> TotalClusters - 1, next |-> UNKNOWN]}

\* Disks: with the system volume, with an empty partition table, with a table of less than
\* a sector, with a system partition that is not FAT32, and without any partitions.
MCDisks == {"system", "empty", "short", "alien", "bare"}
MCGpt == MCDisks \ {"bare"}
MCTable == [d \in MCDisks |-> IF d = "short" THEN 0 ELSE 1]
MCEsp == [d \in MCDisks |-> IF d \in {"empty", "bare"} THEN NoEsp ELSE 3]

\* Machines: one disk; the volume on a slave alone, and behind a CD; empty first channel
\* and two disks on the second; disks without a volume; no IDE controller that is found.
Attached(a, b, c, d) == (0 :> a) @@ (1 :> b) @@ (2 :> c) @@ (3 :> d)
Plain == Attached("system", "none", "none", "none")
Slave == Attached("none", "system", "none", "none")
Mixed == Attached("float", "float", "system", "empty")
Cd == Attached("atapi", "system", "none", "none")
Odd == Attached("short", "alien", "none", "none")
Bare == Attached("alien", "bare", "none", "none")
Hidden == Attached("bare", "none", "none", "none")
Blind == Attached("none", "none", "none", "none")
MCMachines == {Plain, Slave, Mixed, Cd, Odd, Bare, Hidden, Blind}

\* Buses: an IDE function of a multi-function device behind another controller; adapters
\* of each kind, one behind one without the VBE ports; an IDE controller too far back;
\* an adapter without a driver.
BusOf(a, b, c, d, m) ==
    [fn |-> (<<0, 0>> :> a) @@ (<<0, 1>> :> b) @@ (<<1, 0>> :> c) @@ (<<1, 1>> :> d),
     multi |-> [x \in Devs |-> m]]
MCBus == [m \in MCMachines |->
            CASE m = Plain -> BusOf("storage", "ide", "bochs", "none", TRUE)
              [] m = Slave -> BusOf("ide", "storage", "none", "vmware", FALSE)
              [] m = Mixed -> BusOf("other", "ide", "vga", "bochs", TRUE)
              [] m = Hidden -> BusOf("storage", "storage", "ide", "bochs", TRUE)
              [] m = Blind -> BusOf("storage", "none", "vga", "none", FALSE)
              [] OTHER -> BusOf("ide", "none", "vga", "none", FALSE)]
MCFileMachines == {Plain}
MCScreenMachines == {Hidden, Blind}
=============================================================================
