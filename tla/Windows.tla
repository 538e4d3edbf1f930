------------------------------- MODULE Windows -------------------------------
(***************************************************************************)
(* apps/shell/src/desktop/windows.ts: the windows of the desktop and the   *)
(* reducer every action on them goes through.  One operator per case of    *)
(* the reducer, from a WindowsState to the next.                           *)
(*                                                                         *)
(* The vertical axis is treated as the horizontal one is and is left out:  *)
(* a geometry is a left edge and a width, in pixels, and a viewport is its *)
(* width.                                                                  *)
(***************************************************************************)
EXTENDS Integers, Sequences, FiniteSets, FiniteSetsExt

CONSTANT ContextIds   \* the contexts a window may show

ChromeLeft == 88
ChromeRight == 8
MinWidth == 320
KeepVisible == 96   \* Window.tsx: what clampPosition leaves of a title bar

(* The window of a context is "ctx:<contextId>"; of the others there is    *)
(* one each.                                                               *)
ContextWindow(c) == <<"context", c>>
Only(kind) == <<kind, 0>>
WindowIds == {Only(kind) : kind \in {"context-map", "terminal", "system-status"}}
                 \union {ContextWindow(c) : c \in ContextIds}

DefaultWidth(id) == [k \in {"context-map", "context", "terminal", "system-status"} |->
                        CASE k = "context-map" -> 560
                          [] k = "context" -> 720
                          [] k = "terminal" -> 520
                          [] OTHER -> 300][id[1]]

Geometry == [x : Int, width : Int]
NoRestore == [x |-> 0, width |-> 0]
Window == [id : WindowIds, at : Geometry, z : Nat, minimized : BOOLEAN,
           maximized : BOOLEAN, restore : Geometry]
WindowsState == [windows : Seq(Window), nextZ : Nat]

IdsOf(s) == {s.windows[i].id : i \in DOMAIN s.windows}
IsOpen(s, id) == id \in IdsOf(s)

-----------------------------------------------------------------------------
TopZ(s) == s.nextZ + 1

(* Mutant: what is open already is not looked for. *)
OpensAgain(s, id, at) ==
    [nextZ |-> TopZ(s),
     windows |-> Append(s.windows,
        [id |-> id, at |-> at, z |-> TopZ(s), minimized |-> FALSE,
         maximized |-> FALSE, restore |-> NoRestore])]

(* What `id` names is shown and comes on top. *)
Raise(s, id) ==
    [nextZ |-> TopZ(s),
     windows |-> [i \in DOMAIN s.windows |->
        IF s.windows[i].id = id
        THEN [s.windows[i] EXCEPT !.z = TopZ(s), !.minimized = FALSE]
        ELSE s.windows[i]]]

Open(s, id, at) ==
    IF IsOpen(s, id) THEN Raise(s, id)
    ELSE [nextZ |-> TopZ(s),
          windows |-> Append(s.windows,
            [id |-> id, at |-> at, z |-> TopZ(s), minimized |-> FALSE,
             maximized |-> FALSE, restore |-> NoRestore])]

(* windows.filter(), from the first window to the last. *)
Close(s, id) ==
    LET kept[n \in 0 .. Len(s.windows)] ==
            IF n = 0 THEN <<>>
            ELSE IF s.windows[n].id # id THEN Append(kept[n - 1], s.windows[n])
            ELSE kept[n - 1]
    IN [s EXCEPT !.windows = kept[Len(s.windows)]]

(* The window on top is left as it is. *)
Focus(s, id) ==
    IF \E i \in DOMAIN s.windows : s.windows[i].id = id /\ s.windows[i].z = s.nextZ
    THEN s ELSE Raise(s, id)

Move(s, id, x) ==
    [s EXCEPT !.windows = [i \in DOMAIN s.windows |->
        IF s.windows[i].id = id THEN [s.windows[i] EXCEPT !.at.x = x]
        ELSE s.windows[i]]]

Resize(s, id, width) ==
    [s EXCEPT !.windows = [i \in DOMAIN s.windows |->
        IF s.windows[i].id = id
        THEN [s.windows[i] EXCEPT !.at.width = Max({MinWidth, width})]
        ELSE s.windows[i]]]

Minimize(s, id) ==
    [s EXCEPT !.windows = [i \in DOMAIN s.windows |->
        IF s.windows[i].id = id THEN [s.windows[i] EXCEPT !.minimized = TRUE]
        ELSE s.windows[i]]]

Maximized(viewport) ==
    [x |-> ChromeLeft, width |-> viewport - ChromeLeft - ChromeRight]

ToggleMaximize(s, id, viewport) ==
    [nextZ |-> TopZ(s),
     windows |-> [i \in DOMAIN s.windows |->
        IF s.windows[i].id # id THEN s.windows[i]
        ELSE IF s.windows[i].maximized
        THEN [s.windows[i] EXCEPT !.at = s.windows[i].restore,
                                  !.maximized = FALSE, !.z = TopZ(s)]
        ELSE [s.windows[i] EXCEPT !.restore = s.windows[i].at,
                                  !.at = Maximized(viewport),
                                  !.maximized = TRUE, !.z = TopZ(s)]]]

AllMinimized(s, yes) ==
    [s EXCEPT !.windows =
        [i \in DOMAIN s.windows |-> [s.windows[i] EXCEPT !.minimized = yes]]]

(* Math.ceil(Math.sqrt(n)) *)
Columns(n) == CHOOSE c \in 1..n : c * c >= n /\ (c - 1) * (c - 1) < n

Tile(s, viewport) ==
    LET visible == {i \in DOMAIN s.windows : ~s.windows[i].minimized}
        cell == (viewport - ChromeLeft - ChromeRight) \div Columns(Cardinality(visible))
        column(i) == Cardinality({j \in visible : j < i}) % Columns(Cardinality(visible))
        placed(i) == [x |-> ChromeLeft + column(i) * cell,
                      width |-> Max({MinWidth, cell - 8})]
    IN [s EXCEPT !.windows = [i \in DOMAIN s.windows |->
            IF i \in visible
            THEN [s.windows[i] EXCEPT !.at = placed(i), !.maximized = FALSE]
            ELSE s.windows[i]]]

-----------------------------------------------------------------------------
(* cascade(): where a window goes that is opened beside `count` others. *)
Cascade(count, id, viewport) ==
    [x |-> Min({ChromeLeft + 24 + (count % 6) * 26,
                Max({ChromeLeft, viewport - DefaultWidth(id) - ChromeRight})}),
     width |-> DefaultWidth(id)]

(* focusedId: the highest of those that are shown, none if none is. *)
IsFocused(s, id) ==
    \E i \in DOMAIN s.windows :
        /\ s.windows[i].id = id
        /\ ~s.windows[i].minimized
        /\ \A j \in DOMAIN s.windows :
            ~s.windows[j].minimized => s.windows[j].z <= s.windows[i].z

(* Window.tsx clampPosition: where a window of this width may be put. *)
ClampX(x, width, viewport) ==
    Min({Max({x, ChromeLeft - width + KeepVisible}), viewport - KeepVisible})

(* Window.tsx: the effect of a frame that appears, or whose viewport has   *)
(* changed, for the windows `ids`.                                         *)
PulledBack(s, ids, viewport) ==
    [s EXCEPT !.windows = [i \in DOMAIN s.windows |->
        IF s.windows[i].id \in ids
        THEN [s.windows[i] EXCEPT !.at.x = ClampX(@, s.windows[i].at.width, viewport)]
        ELSE s.windows[i]]]

-----------------------------------------------------------------------------
(* One window for a context (windows.ts: "Two windows for one context      *)
(* would break the equivalence"), and no two at one height, none above     *)
(* nextZ: what is painted on top is what has the focus.                    *)
Stacked(s) ==
    /\ \A i, j \in DOMAIN s.windows :
        i # j => /\ s.windows[i].id # s.windows[j].id
                 /\ s.windows[i].z # s.windows[j].z
    /\ \A i \in DOMAIN s.windows : s.windows[i].z <= s.nextZ
=============================================================================
