------------------------------- MODULE MCPmm -------------------------------
(***************************************************************************)
(* PmmSystem on small memory maps.                                         *)
(***************************************************************************)
EXTENDS PmmSystem

Entry(s, n, t) == [start |-> s, pages |-> n, type |-> t]
Top(entries, top) == [entries |-> entries, top |-> top]
Two == {"loader", "conventional"}

\* Maps of two entries of up to two pages and of three entries of one page, with and
\* without holes, starting at address 0 or above; one where the loader's stack ends at the
\* start of free memory, and one too long for the loader.
MCFirmwares ==
    {Top(<<Entry(s, n1, t1), Entry(s + n1 + g, n2, t2)>>, 9) :
        s \in 0..1, n1, n2 \in 1..2, g \in 0..1, t1 \in Two, t2 \in {"other", "boot"}}
    \cup
    {Top(<<Entry(s, 1, t1), Entry(s + 1 + g1, 1, t2), Entry(s + 2 + g1 + g2, 1, t3)>>, 9) :
        s \in 0..1, g1, g2 \in 0..1, t1, t3 \in Two, t2 \in {"loader", "boot"}}
    \cup
    {Top(<<Entry(1, 1, "loader"), Entry(2, 1, "conventional"), Entry(3, 1, "boot")>>, 2),
     Top(<<Entry(1, 1, "loader"), Entry(2, 1, "boot"), Entry(3, 1, "loader"), Entry(4, 1, "boot")>>, 9)}

\* One available descriptor of four pages.
MCOneRegion == {Top(<<Entry(1, 4, "conventional")>>, 9)}

\* The kernel's view: the same entries, each available or not.
Views(f) == {[k \in 1..Len(f.entries) |-> [start |-> f.entries[k].start,
                                          pages |-> f.entries[k].pages, avail |-> a[k]]] :
               a \in [1..Len(f.entries) -> BOOLEAN]}
MCMaps == UNION {Views(f) : f \in MCFirmwares}
MCOneMap == UNION {Views(f) : f \in MCOneRegion}
=============================================================================
