---------------------------- MODULE ConsoleScreen ----------------------------
(***************************************************************************)
(* The screen of the control console (hostControlTUI,                       *)
(* cmd/getsloth/host_control_bubbletea.go): what keys, clicks, the          *)
(* terminal's size and new snapshots make of it.  What the console asks of  *)
(* the host is in HostConsole.                                              *)
(***************************************************************************)
EXTENDS ConsoleLayout

CONSTANTS
    Width, Height,  \* terminal sizes
    MaxViewers,     \* bound on the viewers of a snapshot
    QRHeight,       \* the QR code of the invite; 0: there is none
    InfoRows        \* lines of joinInfoLines, which depend on the invite

ASSUME ScreenAssumption ==
    /\ Width \subseteq Nat /\ Height \subseteq Nat \ {0} /\ MaxViewers \in Nat
    /\ QRHeight \subseteq Nat /\ InfoRows \subseteq Nat

VARIABLES view, showInvite, width, height, viewers, qr, open

screenVars == <<view, showInvite, width, height, viewers, qr, open>>

Views == <<"graph", "users", "join">>

\* A terminal cell holds two rows of the code's modules, of which there are as
\* many as columns.
QRCode(h) == [w |-> 2 * h, h |-> h]

\* The terminal has told its size (before, a plainer dashboard is shown).
ScreenInit ==
    /\ view = "graph" /\ showInvite = FALSE /\ open = TRUE
    /\ width \in Width /\ height \in Height
    /\ viewers = 0
    /\ \E h \in QRHeight : qr = QRCode(h)

-----------------------------------------------------------------------------
\* hostControlKeyAction, of a key or the button drawn for it: [r], [k] and [c]
\* leave the screen as it is.
ControlKey(key) ==
    /\ CASE key = "q" -> open' = FALSE /\ UNCHANGED showInvite
         [] key = "i" -> showInvite' = ~showInvite /\ UNCHANGED open
         [] OTHER     -> UNCHANGED <<open, showInvite>>
    /\ UNCHANGED <<view, width, height, viewers, qr>>

\* Keys that have a name of more than one letter count by its first letter.
FirstLetter ==
    [key \in {"r", "right"} |-> "r"] @@ [key \in {"i", "insert"} |-> "i"]
      @@ [key \in {"c", "ctrl+c"} |-> "c"] @@ ("k" :> "k") @@ ("q" :> "q")

Press(key) == open /\ ControlKey(FirstLetter[key])

Tab ==
    /\ open
    /\ \E i \in 1 .. 3 : view = Views[i] /\ view' = Views[(i % 3) + 1]
    /\ UNCHANGED <<showInvite, width, height, viewers, qr, open>>

SelectView(v) ==
    /\ open /\ view' = v
    /\ UNCHANGED <<showInvite, width, height, viewers, qr, open>>

\* hostControlKeybarRegions: each button's key, and its columns.
Buttons == <<[key |-> "r", w |-> 11], [key |-> "k", w |-> 16],
             [key |-> "i", w |-> IF showInvite THEN 8 ELSE 10],
             [key |-> "c", w |-> 8], [key |-> "q", w |-> 9]>>

StartCol(i) == FoldLeft(LAMBDA col, b : col + b.w + 3, 0, SubSeq(Buttons, 1, i - 1))

Region(i) == StartCol(i) .. StartCol(i) + Buttons[i].w - 1

\* A click into the keybar's row.
Click(x) ==
    /\ open
    /\ \E i \in DOMAIN Buttons : x \in Region(i) /\ ControlKey(Buttons[i].key)

WindowSize(w, h) ==
    /\ open /\ width' = w /\ height' = h
    /\ UNCHANGED <<view, showInvite, viewers, qr, open>>

\* hostControlSnapshotMsg, without an error.
Snapshot(n) ==
    /\ open /\ viewers' = n
    /\ UNCHANGED <<view, showInvite, width, height, qr, open>>

-----------------------------------------------------------------------------
ScreenNext ==
    \/ \E key \in DOMAIN FirstLetter : Press(key)
    \/ Tab \/ (\E i \in 1 .. 3 : SelectView(Views[i]))
    \/ \E x \in 0 .. MinWidth - 1 : Click(x)
    \/ \E w \in Width, h \in Height : WindowSize(w, h)
    \/ \E n \in 0 .. MaxViewers : Snapshot(n)

ScreenSpec == ScreenInit /\ [][ScreenNext]_screenVars

-----------------------------------------------------------------------------
(* Safety.                                                                 *)

\* host_control_layout.go says that every row of the terminal is spent: on one
\* that is large enough the panels of each view cover all of it and nothing
\* twice, whatever rounding the division among viewers takes; on a smaller one
\* they cover the least the layout needs.
EveryRowIsSpent ==
    \A info \in InfoRows :
        LET drawn == Console(view, showInvite, viewers, qr, info, width, height) IN
        /\ drawn.w = AtLeast(width, MinWidth)
        /\ drawn.h = AtLeast(height, MinHeight(showInvite))
        /\ drawn.area = drawn.w * drawn.h

=============================================================================
