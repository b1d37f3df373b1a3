---------------------------- MODULE ConsoleLayout ----------------------------
(***************************************************************************)
(* How the control console divides the terminal among its panels            *)
(* (cmd/getsloth/host_control_layout.go).  A block is what a piece of       *)
(* rendered text covers: its width, its height, and the area of the panels  *)
(* in it, which is less than their product if the text leaves holes.  The   *)
(* lines of the header, at most MinWidth wide, count as whole rows.         *)
(***************************************************************************)
EXTENDS Naturals, Sequences, SequencesExt

CardRows     == 4
ActivityRows == 5
MinPanelRows == 5
MinPlotRows  == 6
HeaderRows   == 3
MinMainRows  == MinPlotRows + MinPanelRows
MinWidth     == 66
MinInfoWidth == 34

AtLeast(n, least) == IF n < least THEN least ELSE n
AtMost(n, most)   == IF n > most THEN most ELSE n

Block(w, h) == [w |-> w, h |-> h, area |-> w * h]
Empty       == Block(0, 0)

\* titledPanel: two borders around its rows.
Panel(w, innerRows) == Block(w, innerRows + 2)

\* lipgloss.JoinHorizontal, and lines joined by "\n".
Beside(a, b) == [w |-> a.w + b.w, h |-> AtLeast(a.h, b.h), area |-> a.area + b.area]
Above(a, b)  == [w |-> AtLeast(a.w, b.w), h |-> a.h + b.h, area |-> a.area + b.area]

InRow(blocks)    == FoldLeft(Beside, Empty, blocks)
InColumn(blocks) == FoldLeft(Above, Empty, blocks)

-----------------------------------------------------------------------------
\* A faulty Shares: what does not divide is lost.
SharesEven(total, parts) == [i \in 1 .. parts |-> total \div parts]

\* splitRows: the first parts take what does not divide.
Shares(total, parts) ==
    [i \in 1 .. parts |-> (total \div parts) + (IF i <= total % parts THEN 1 ELSE 0)]

\* Equal parts, the last of which takes what is left.
LastTakesRest(total, parts) ==
    [i \in 1 .. parts |-> IF i < parts THEN total \div parts
                          ELSE total - (total \div parts) * (parts - 1)]

InviteRows(showInvite) == IF showInvite THEN 3 ELSE 1

\* consoleMinHeight.
MinHeight(showInvite) ==
    HeaderRows + CardRows + InviteRows(showInvite) + ActivityRows + MinMainRows

StatCards(w) ==
    InRow([i \in 1 .. 5 |-> Panel(LastTakesRest(w, 5)[i], CardRows - 2)])

ActivityStrip(w) == Panel(w, ActivityRows - 2)

\* overlayPanel: a time axis and two borders around the chart, whose middle row
\* takes a hint when there is nobody to draw.
OverlayPanel(w, rows) == Panel(w, rows - 2)

\* viewerPanels: a grid over the whole height; viewers beyond it are left out.
ViewerPanels(viewers, w, rows) ==
    LET perRow   == AtMost(AtLeast(w \div 36, 1), viewers)
        gridRows == AtMost((viewers + perRow - 1) \div perRow, rows \div MinPanelRows)
        heights  == Shares(rows, gridRows)
        drawn    == AtMost(viewers, perRow * gridRows)
        inRow(g) == AtMost(perRow, drawn - (g - 1) * perRow)
    IN InColumn([g \in 1 .. gridRows |->
           InRow([i \in 1 .. inRow(g) |->
                    Panel(LastTakesRest(w, inRow(g))[i], heights[g] - 2)])])

GraphMain(viewers, w, rows) ==
    LET share == AtLeast((rows * 55) \div 100, MinPlotRows)
        plot  == IF rows - share < MinPanelRows THEN rows - MinPanelRows ELSE share
    IN IF viewers = 0 THEN OverlayPanel(w, rows)
       ELSE Above(OverlayPanel(w, plot), ViewerPanels(viewers, w, rows - plot))

\* usersMain: a heading, and a line for each viewer that fits, or a hint.
TableRows(viewers, rows) ==
    LET fits == AtMost(viewers, rows - MinPlotRows - 3) IN
    AtLeast(1 + (IF viewers = 0 THEN 1 ELSE fits), 2) + 2

UsersMain(viewers, w, rows) ==
    Above(Panel(w, TableRows(viewers, rows) - 2),
          OverlayPanel(w, rows - TableRows(viewers, rows)))

\* joinMain: the QR code on the left if it fits, what there is to know beside it.
JoinMain(viewers, qr, info, w, rows) ==
    IF qr.h = 0 \/ qr.h + 2 > rows \/ qr.w + 4 + MinInfoWidth > w
      THEN Panel(w, rows - 2)
      ELSE LET spare     == rows - (qr.h + 2)
               left      == IF spare >= MinPanelRows
                              THEN Above(Panel(qr.w + 4, qr.h), Panel(qr.w + 4, spare - 2))
                            ELSE IF spare > 0 THEN Panel(qr.w + 4, rows - 2)
                            ELSE Panel(qr.w + 4, qr.h)
               right     == w - qr.w - 4
               spareInfo == IF rows > info + 2 THEN rows - (info + 2) ELSE 0
           IN Beside(left,
                IF spareInfo >= MinPlotRows /\ viewers > 0
                  THEN Above(Panel(right, info), OverlayPanel(right, spareInfo))
                  ELSE Panel(right, rows - 2))

\* renderHostControlConsole, for a terminal of width columns and height rows.
Console(view, showInvite, viewers, qr, info, width, height) ==
    LET w        == AtLeast(width, MinWidth)
        h        == AtLeast(height, MinHeight(showInvite))
        mainRows == h - HeaderRows - CardRows - InviteRows(showInvite) - ActivityRows
        header   == Block(w, HeaderRows)
    IN IF view = "join"
         THEN Above(header, JoinMain(viewers, qr, info, w, h - HeaderRows))
         ELSE InColumn(<<header, StatCards(w), Block(w, InviteRows(showInvite)),
                         IF view = "graph" THEN GraphMain(viewers, w, mainRows)
                                           ELSE UsersMain(viewers, w, mainRows),
                         ActivityStrip(w)>>)
=============================================================================
