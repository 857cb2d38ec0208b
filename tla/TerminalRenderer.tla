-------------------------- MODULE TerminalRenderer --------------------------
(***************************************************************************)
(* The direct VT renderer (greentyper terminal.rs, with the layout of       *)
(* presentation.rs): the rows of a screen are cut to the viewport, set into *)
(* a frame of cells, and only the cells that differ from the frame before   *)
(* are written.  The emulator at the other end is modelled by what writing  *)
(* over one half of a double-width character does: the other half blanks.   *)
(***************************************************************************)
EXTENDS Integers, Sequences, FiniteSets

CONSTANTS
    Glyphs,         \* graphemes: [symbol, width]
    Texts,          \* bound: the texts a row may have
    Statuses,       \* bound: the texts of the status row
    Notices,        \* bound: the texts of the notice; <<>> for none
    Widths,         \* bound: columns of the viewport
    Heights,        \* bound: rows of the viewport
    MaxColumns,     \* MAX_TERMINAL_COLUMNS
    MaxRows,        \* MAX_TERMINAL_ROWS
    MaxBody         \* bound: rows of a screen

Space == [symbol |-> "space", width |-> 1]
Ellipsis == [symbol |-> "ellipsis", width |-> 1]

\* The width of a grapheme is a function of it (UnicodeWidthStr).
ASSUME RendererAssumption ==
    /\ Texts \cup Statuses \cup Notices \subseteq Seq(Glyphs)
    /\ \A g \in Glyphs : g.width \in Nat
    /\ \A g, h \in Glyphs \cup {Space, Ellipsis} : g.symbol = h.symbol => g.width = h.width
    /\ {MaxColumns, MaxRows, MaxBody} \subseteq Nat /\ Widths \cup Heights \subseteq Nat

VARIABLES
    surface,    \* TerminalSurface: "closed", "active", "left"
    raw,        \* raw mode of the terminal
    viewport,   \* [width, height]
    previous,   \* DirectVtRenderer.previous
    has_frame,
    glass,      \* the emulator's cells
    picked      \* ghost: the selected row of the body drawn, and whether it shows

renderer_vars == <<surface, raw, viewport, previous, has_frame, glass, picked>>

Cell(symbol, continuation, style) ==
    [symbol |-> symbol, continuation |-> continuation, style |-> style]
blank_cell == Cell(Space.symbol, FALSE, "Plain")
display_width(cell) ==
    IF cell.continuation THEN 0
    ELSE (CHOOSE g \in Glyphs \cup {Space, Ellipsis} : g.symbol = cell.symbol).width
blank_frame(v) == [r \in 1..v.height |-> [c \in 1..v.width |-> blank_cell]]

-----------------------------------------------------------------------------
(* Layout.                                                                  *)

\* The columns the first i graphemes of a text take.
columns(text) ==
    LET upto[i \in 0..Len(text)] == IF i = 0 THEN 0 ELSE upto[i - 1] + text[i].width
    IN  upto

LastNonSpace(text) ==
    LET solid == {i \in DOMAIN text : text[i] # Space}
    IN  IF solid = {} THEN 0 ELSE CHOOSE i \in solid : \A j \in solid : j <= i

\* A text too wide ends in an ellipsis, without the spaces before it.
fit_text(text, max_width) ==
    LET upto == columns(text) IN
    IF upto[Len(text)] <= max_width THEN text
    ELSE CASE max_width = 0 -> <<>>
           [] max_width = 1 -> <<Ellipsis>>
           [] OTHER ->
                LET fits == {i \in 0..Len(text) : upto[i] <= max_width - 1}
                    n == CHOOSE i \in fits : \A j \in fits : j <= i
                    kept == SubSeq(text, 1, n)
                IN  Append(SubSeq(kept, 1, LastNonSpace(kept)), Ellipsis)

SelectedRow(rows) == {i \in DOMAIN rows : rows[i].selected}

\* A list keeps its title and the rows up to the selected one.
truncate_rows_keeping_selection(rows, capacity) ==
    IF Len(rows) <= capacity THEN rows
    ELSE IF SelectedRow(rows) = {} THEN SubSeq(rows, 1, capacity)
    ELSE LET selected == CHOOSE i \in SelectedRow(rows) : \A j \in SelectedRow(rows) : i <= j
         IN  CASE capacity = 0 -> <<>>
               [] selected <= capacity -> SubSeq(rows, 1, capacity)
               [] capacity = 1 -> <<rows[selected]>>
               [] OTHER -> <<rows[1]>> \o SubSeq(rows, selected + 2 - capacity, selected)

\* One status row; the second needs a width this model does not reach.
layout(rows, listing, status, v) ==
    LET capacity == v.height - 1
        body == IF listing THEN truncate_rows_keeping_selection(rows, capacity)
                ELSE SubSeq(rows, 1, IF Len(rows) < capacity THEN Len(rows) ELSE capacity)
    IN  [body |-> [i \in DOMAIN body |->
                    [text |-> fit_text(body[i].text, v.width), selected |-> body[i].selected]],
         status |-> fit_text(status, v.width)]

-----------------------------------------------------------------------------
(* Frames.                                                                  *)

UnsupportedCellWidth(text) == \E i \in DOMAIN text : text[i].width \notin 1..2

set_row_HalfWide(cells, text, style) ==
    LET upto == columns(text)
        placed == {i \in DOMAIN text : upto[i] <= Len(cells)}
        At(c) == {i \in placed : c = upto[i - 1] + 1}
    IN  [c \in DOMAIN cells |->
            IF At(c) = {} THEN cells[c]
            ELSE Cell(text[CHOOSE j \in At(c) : TRUE].symbol, FALSE, style)]
\* What set_row leaves in a row of cells; it stops at the edge.
set_row(cells, text, style) ==
    LET upto == columns(text)
        placed == {i \in DOMAIN text : upto[i] <= Len(cells)}
        At(c) == {i \in placed : c \in (upto[i - 1] + 1)..upto[i]}
    IN  [c \in DOMAIN cells |->
            IF At(c) = {} THEN cells[c]
            ELSE LET i == CHOOSE j \in At(c) : TRUE
                 IN  IF c = upto[i - 1] + 1 THEN Cell(text[i].symbol, FALSE, style)
                     ELSE Cell("empty", TRUE, style)]

RowStyle(row, i) == IF row.selected THEN "Accent" ELSE IF i = 1 THEN "Header" ELSE "Plain"

\* A notice takes the last row above the status.
from_layout_with_notice(l, notice, v) ==
    LET status_start == v.height - 1
        notice_row == IF status_start = 0 THEN 0 ELSE status_start - 1
        body_limit == IF notice = <<>> THEN status_start ELSE notice_row
        body == [r \in 1..v.height |->
                    IF r <= body_limit /\ r <= Len(l.body)
                    THEN set_row(blank_frame(v)[r], l.body[r].text, RowStyle(l.body[r], r))
                    ELSE blank_frame(v)[r]]
        status == [body EXCEPT ![v.height] = set_row(@, l.status, "Dim")]
    IN  IF notice = <<>> THEN status
        ELSE [status EXCEPT ![notice_row + 1] = set_row(@, notice, "Warning")]

-----------------------------------------------------------------------------
(* DirectVtRenderer::draw.                                                  *)

\* A cell that differs takes the other half of a wide character with it, the
\* old one's or the new one's.
changed(old, new) ==
    LET differs == {c \in DOMAIN new : old[c] # new[c]}
    IN  differs
        \cup {c \in DOMAIN new : c + 1 \in differs /\ (old[c + 1].continuation \/ new[c + 1].continuation)}
        \cup {c \in DOMAIN new : c - 1 \in differs /\ 2 \in {display_width(old[c - 1]), display_width(new[c - 1])}}

\* The emulator: a character written at column c, and what it cuts.
Put(cells, c, cell, width) ==
    [k \in DOMAIN cells |->
        CASE k = c -> cell
          [] k = c + 1 /\ width = 2 -> Cell("empty", TRUE, cell.style)
          [] k = c - 1 /\ cells[c].continuation -> blank_cell
          [] k = c + width /\ cells[k].continuation -> blank_cell
          [] OTHER -> cells[k]]

\* Runs of changed cells, left to right; a continuation is not written.
Written(cells, old, new) ==
    LET upto[c \in 0..Len(new)] ==
            IF c = 0 THEN cells
            ELSE IF c \in changed(old, new) /\ ~new[c].continuation
            THEN Put(upto[c - 1], c, new[c], display_width(new[c]))
            ELSE upto[c - 1]
    IN  upto[Len(new)]

Leave == surface' = "left" /\ raw' = FALSE

\* TerminalSurface::enter and the renderer on a cleared screen.
enter(v) ==
    /\ surface = "closed"
    /\ IF 0 \in {v.width, v.height} \/ v.width > MaxColumns \/ v.height > MaxRows
       THEN Leave /\ UNCHANGED <<viewport, previous, has_frame, glass>>
       ELSE /\ \/ surface' = "active" /\ raw' = TRUE
               \/ Leave
            /\ viewport' = v
            /\ previous' = blank_frame(v) /\ has_frame' = FALSE /\ glass' = blank_frame(v)
    /\ UNCHANGED picked

\* A screen is laid out and drawn; a grapheme without a width, or an output
\* that fails, ends the loop and the surface is restored.
draw(rows, listing, status, notice) ==
    /\ surface = "active"
    /\ LET l == layout(rows, listing, status, viewport)
           frame == from_layout_with_notice(l, notice, viewport)
           body_limit == viewport.height - (IF notice = <<>> THEN 1 ELSE 2)
           texts == {l.body[r].text : r \in {i \in DOMAIN l.body : i <= body_limit}} \cup {l.status, notice}
       IN  IF \E text \in texts : UnsupportedCellWidth(text)
           THEN Leave /\ UNCHANGED <<previous, has_frame, glass, picked>>
           ELSE /\ \/ UNCHANGED <<surface, raw>>
                   \/ Leave
                /\ glass' = [r \in 1..viewport.height |-> Written(glass[r], previous[r], frame[r])]
                /\ previous' = frame /\ has_frame' = TRUE
                /\ picked' = [selected |-> SelectedRow(rows) # {},
                              shows |-> listing => \E r \in DOMAIN frame, c \in 1..viewport.width :
                                                        frame[r][c].style = "Accent"]
    /\ UNCHANGED viewport

\* The screen is cleared before it is drawn again.
resize(v) ==
    /\ surface = "active" /\ v # viewport
    /\ IF 0 \in {v.width, v.height} \/ v.width > MaxColumns \/ v.height > MaxRows
       THEN Leave /\ UNCHANGED <<viewport, previous, has_frame, glass>>
       ELSE /\ viewport' = v
            /\ previous' = blank_frame(v) /\ has_frame' = FALSE /\ glass' = blank_frame(v)
            /\ UNCHANGED <<surface, raw>>
    /\ UNCHANGED picked

finish ==
    /\ surface = "active" /\ Leave
    /\ UNCHANGED <<viewport, previous, has_frame, glass, picked>>

RendererInit ==
    /\ surface = "closed" /\ raw = FALSE
    /\ viewport = [width |-> 1, height |-> 1]
    /\ previous = blank_frame(viewport) /\ has_frame = FALSE /\ glass = previous
    /\ picked = [selected |-> FALSE, shows |-> TRUE]

Rows == UNION {[1..n -> Texts] : n \in 1..MaxBody}

RendererNext ==
    \/ \E w \in Widths, h \in Heights :
        enter([width |-> w, height |-> h]) \/ resize([width |-> w, height |-> h])
    \/ finish
    \/ \E texts \in Rows : \E selected \in 0..Len(texts), listing \in BOOLEAN,
            status \in Statuses, notice \in Notices :
        draw([i \in DOMAIN texts |-> [text |-> texts[i], selected |-> i = selected]],
             listing, status, notice)

-----------------------------------------------------------------------------
\* What the terminal shows is the frame last drawn, cell by cell, whatever
\* wide characters the two frames had where; raw mode ends with the surface.
\* In a terminal of one row the notice is set over the status and may cut one
\* of its characters, which is left out here.
ScreenShowsFrame ==
    /\ surface = "active" /\ viewport.height > 1 => glass = previous
    /\ surface # "active" => ~raw

\* The selected row of a list is on the screen (the layout cuts a list around
\* its selection so that it is).
SelectionIsVisible == picked.selected => picked.shows
==============================================================================
