------------------------------ MODULE Display ------------------------------
(***************************************************************************)
(* Kernel/drives/display.c and fillRect of Kernel/lib/Draw.c: the adapter  *)
(* that is found, the mode that is set, and drawing into the linear frame  *)
(* buffer.  A pixel is a 32-bit word, known by its index.  Every content   *)
(* of the screen is like every other, so one drawing is made on a screen   *)
(* whose pixels all differ.                                                *)
(***************************************************************************)
EXTENDS Pci

CONSTANTS
    width, height,       \* the mode InitSystem sets
    MaxGpus              \* 4, the adapters display_probe asks for
ASSUME DisplayAssumption ==
    width \in Nat \ {0} /\ height \in Nat \ {0} /\ MaxGpus \in Nat \ {0}

VARIABLES
    driver,              \* g_display_driver: its kind, and the function it drives
    fb,                  \* the frame buffer of the mode
    drawn                \* the drawing that was made
displayVars == <<driver, fb, drawn>>

NoDriver == [kind |-> "none", hw |-> <<>>]
Pixels == 0..(width * height - 1)
Fresh == [i \in Pixels |-> i]
Ink == -1
Nothing == [f |-> "none", args |-> <<>>, wild |-> FALSE]

DisplayInit == driver = NoDriver /\ fb = Fresh /\ drawn = Nothing

-----------------------------------------------------------------------------
\* display_probe: the first adapter with its own VMware registers, or any adapter as long
\* as the VBE ports answer - which they do for every adapter when one of them has them.
VBE(bus) == \E p \in DOMAIN bus.fn : bus.fn[p] = "bochs"
display_probe(bus) ==
    LET gpus == pci_scan_gpu(bus, MaxGpus)
        kind(k) == IF bus.fn[gpus[k]] = "vmware" THEN "vmware" ELSE "bochs"
        fit == {k \in 1..Len(gpus) : bus.fn[gpus[k]] = "vmware" \/ VBE(bus)}
        first == CHOOSE k \in fit : \A l \in fit : k <= l
    IN  IF fit = {} THEN NoDriver ELSE [kind |-> kind(first), hw |-> gpus[first]]

\* InitSystem: probe, then set_mode; without a driver the screen stays as UEFI left it.
ProbeDisplay(bus) == driver' = display_probe(bus) /\ UNCHANGED <<fb, drawn>>

-----------------------------------------------------------------------------
\* Clipping as fill_rect and blit do it.
Cut(x, w, limit) == IF x + w > limit THEN limit - x ELSE w

bochs_fill_rect(x, y, w, h) ==
    LET run(row) == LET at == (y + row) * width + x IN at .. (at + Cut(x, w, width) - 1)
    IN  IF x >= width \/ y >= height THEN {}
        ELSE UNION {run(row) : row \in 0..(Cut(y, h, height) - 1)}

\* bochs_hline and bochs_vline.
bochs_hline(x, y, w) ==
    IF x >= width \/ y >= height THEN {}
    ELSE LET at == y * width + x IN at .. (at + Cut(x, w, width) - 1)
bochs_vline(x, y, h) ==
    IF x >= width \/ y >= height THEN {}
    ELSE {y * width + x + r * width : r \in 0..(Cut(y, h, height) - 1)}

bochs_pixel(x, y) == IF x \in 0..(width - 1) /\ y \in 0..(height - 1) THEN {y * width + x} ELSE {}

\* bochs_line: one point after the other, with the error there, until the end is met, where
\* the loop breaks; it is there within as many turns as the screen has rows and columns.
Abs(a) == IF a < 0 THEN -a ELSE a
Toward(a, b) == IF b > a THEN 1 ELSE -1
bochs_line_turn(p, x1, y1, x2, y2) ==
    LET dx == Abs(x2 - x1)
        dy == Abs(y2 - y1)
        right == 2 * p.err > -dy
        down == 2 * p.err < dx
    IN  IF p.x = x2 /\ p.y = y2 THEN p
        ELSE [x |-> IF right THEN p.x + Toward(x1, x2) ELSE p.x,
              y |-> IF down THEN p.y + Toward(y1, y2) ELSE p.y,
              err |-> p.err - (IF right THEN dy ELSE 0) + (IF down THEN dx ELSE 0)]
bochs_line(x1, y1, x2, y2) ==
    LET walk[k \in 0..(width + height)] ==
            IF k = 0 THEN [x |-> x1, y |-> y1, err |-> Abs(x2 - x1) - Abs(y2 - y1)]
            ELSE bochs_line_turn(walk[k - 1], x1, y1, x2, y2)
    IN  UNION {bochs_pixel(walk[k].x, walk[k].y) : k \in 0..(width + height)}

\* bochs_blit: the words are copied one by one, rows from the end when moving down.
blit_rows_Down(sy, dy, h) == [k \in 1..h |-> k - 1]
blit_rows(sy, dy, h) == IF sy < dy THEN [k \in 1..h |-> h - k] ELSE [k \in 1..h |-> k - 1]
bochs_blit(sx, sy, dx, dy, w0, h0) ==
    LET w == Cut(dx, Cut(sx, w0, width), width)
        h == Cut(dy, Cut(sy, h0, height), height)
        rows == blit_rows(sy, dy, h)
        copy[k \in 0..(w * h)] ==
            IF k = 0 THEN fb
            ELSE LET row == rows[((k - 1) \div w) + 1]
                     col == (k - 1) % w
                     before == copy[k - 1]
                 IN  [before EXCEPT ![(dy + row) * width + dx + col] =
                                      before[(sy + row) * width + sx + col]]
    IN  IF sx >= width \/ sy >= height \/ dx >= width \/ dy >= height \/ w = 0 \/ h = 0
        THEN fb ELSE copy[w * h]

-----------------------------------------------------------------------------
Xs == 0..width
Ys == 0..height
Ws == 0..(width + 1)
Hs == 0..(height + 1)

Painted(s) == [i \in Pixels \cup s |-> IF i \in s THEN Ink ELSE fb[i]]
Drawing(f, a, s) == drawn' = [f |-> f, args |-> a, wild |-> FALSE] /\ fb' = Painted(s)

\* fillRect goes through g_display_driver even when there is none: the word it takes for
\* fill_rect may be 0, then it draws by points, or it is called.
FillRect(x, y, w, h) ==
    \/ Drawing("fill", <<x, y, w, h>>, bochs_fill_rect(x, y, w, h))
    \/ /\ driver = NoDriver
       /\ drawn' = [f |-> "fill", args |-> <<x, y, w, h>>, wild |-> TRUE]
       /\ UNCHANGED fb

DrawLines ==
    /\ driver # NoDriver
    /\ \E x \in Xs, y \in Ys :
         \/ \E w \in Ws : Drawing("hline", <<x, y, w, 1>>, bochs_hline(x, y, w))
         \/ \E h \in Hs : Drawing("vline", <<x, y, 1, h>>, bochs_vline(x, y, h))
         \/ \E x2 \in Xs, y2 \in Ys :
              Drawing("line", <<x, y, x2, y2>>, bochs_line(x, y, x2, y2))

Blit ==
    /\ driver # NoDriver
    /\ \E sx, dx \in Xs, sy, dy \in Ys, w \in Ws, h \in Hs :
         /\ drawn' = [f |-> "blit", args |-> <<sx, sy, dx, dy, w, h>>, wild |-> FALSE]
         /\ fb' = bochs_blit(sx, sy, dx, dy, w, h)

Draw ==
    /\ drawn = Nothing
    /\ (\E x \in Xs, y \in Ys, w \in Ws, h \in Hs : FillRect(x, y, w, h)) \/ DrawLines \/ Blit
    /\ UNCHANGED driver

-----------------------------------------------------------------------------
Row(i) == i \div width
Col(i) == i % width
Within(i, x, y, w, h) == Col(i) \in x..(x + w - 1) /\ Row(i) \in y..(y + h - 1)

\* Of the d + 1 places across a line of D steps along its longer axis, b is the one nearest
\* to the line after k steps; of two as near, the one closer to the start.
Nearest(D, k, d, b) ==
    /\ k \in 0..D /\ b \in 0..d
    /\ D # 0 => -D <= 2 * (b * D - k * d) /\ 2 * (b * D - k * d) < D
OnLine(i, x1, y1, x2, y2) ==
    LET dx == Abs(x2 - x1)
        dy == Abs(y2 - y1)
        across == (Col(i) - x1) * Toward(x1, x2)
        down == (Row(i) - y1) * Toward(y1, y2)
    IN  IF dx >= dy THEN Nearest(dx, across, dy, down) ELSE Nearest(dy, down, dx, across)

\* A drawing changes exactly the pixels it names that are on the screen, and no word
\* outside the frame buffer: rectangles and lines are cut at the edges, a slanted line is
\* the pixels nearest to it, one for each step along its longer axis, and a block arrives
\* as it was before the copy began - unless it overlaps itself to the right in the same
\* rows, where memcpy repeats it, and unless there is no driver, when fillRect calls
\* whatever is at address 0.
DrawingIsExact ==
    ~drawn.wild =>
        /\ DOMAIN fb = Pixels
        /\ LET a == drawn.args
           IN  /\ drawn.f \in {"fill", "hline", "vline"} =>
                    \A i \in Pixels : fb[i] = IF Within(i, a[1], a[2], a[3], a[4]) THEN Ink ELSE i
               /\ drawn.f = "line" =>
                    \A i \in Pixels : fb[i] = IF OnLine(i, a[1], a[2], a[3], a[4]) THEN Ink ELSE i
               /\ drawn.f = "blit" /\ ~(a[2] = a[4] /\ a[1] < a[3] /\ a[3] < a[1] + a[5]) =>
                    \A i \in Pixels :
                      LET sx == Col(i) - a[3] + a[1]
                          sy == Row(i) - a[4] + a[2]
                      IN  fb[i] = IF /\ Within(i, a[3], a[4], a[5], a[6])
                                     /\ sx < width /\ sy < height /\ a[3] < width /\ a[4] < height
                                  THEN sy * width + sx ELSE i
=============================================================================
