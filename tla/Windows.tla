------------------------------ MODULE Windows ------------------------------
(***************************************************************************)
(* The desktop: the stack of windows (window_manager.c), the drag and      *)
(* click handling of a frame (events.c, gui.c) and the programs that open  *)
(* and keep a window (apps/).  main draws frame after frame; the mouse     *)
(* interrupt changes mouse_state between any two of its reads.             *)
(*                                                                         *)
(* A window is its block of the heap, and a canvas is named by the window  *)
(* it was made for.  Positions are left out: whenever the code looks for   *)
(* the window under the pointer, it may be any window or none.             *)
(***************************************************************************)
EXTENDS Integers, Sequences, SequencesExt

CONSTANTS
  Menu,                            \* the programs, as the start menu lists them
  Terminal,                        \* the one with a close callback of its own
  StartMenu, Taskbar,              \* the other titles
  MaxWindows,                      \* MAX_WINDOWS
  Blocks,                          \* where malloc may put a window
  NULL

Apps == Range(Menu)
Titles == Apps \cup {StartMenu, Taskbar}

\* What a button may do: one of these, or launch a program.
Callbacks == {"close", "terminal_close", "start"} \cup Apps

WindowRecords == [title : Titles, callbacks : SUBSET Callbacks, canvas : BOOLEAN]

ASSUME WindowsAssumption ==
  /\ Menu \in Seq(Apps)
  /\ Terminal \in Apps /\ {StartMenu, Taskbar} \cap Apps = {}
  /\ {"close", "terminal_close", "start"} \cap Apps = {}
  /\ StartMenu # Taskbar
  /\ MaxWindows \in Nat \ {0, 1}
  /\ NULL \notin Blocks \cup WindowRecords

VARIABLES
  windows,            \* windows[0..window_count-1], rearmost first
  heap,               \* the window in each block, or NULL
  app_window,         \* terminal_window, cpu_vis_window, ...
  app_canvas,         \* terminal_canvas, cpu_vis_canvas, ...
  buttons,            \* bit 0 of mouse_state.buttons
  previous_buttons,   \* bit 0 of it
  dragged_window,
  pc,                 \* where the frame is
  orphaned,           \* programs whose window was destroyed under them (history)
  raced,              \* the button went up behind update_drag (history)
  armed               \* the button went down since the last click (history)

desktop == <<windows, heap, app_window, app_canvas, orphaned>>
mouse == <<buttons, armed, raced>>
vars == <<windows, heap, app_window, app_canvas, buttons, previous_buttons,
          dragged_window, pc, orphaned, raced, armed>>

HasTitleBar(t) == t \notin {StartMenu, Taskbar}

\* Fault: the terminal is closed like any other window.
DefaultClose(t) == "close"

\* What the window's buttons do, in the order they are made.  The "x" is made
\* while every window still has a title bar.
CloseCallback(t) == IF t = Terminal THEN "terminal_close" ELSE "close"

Buttons(t) ==
  <<CloseCallback(t)>> \o
    CASE t = Taskbar -> <<"start">>
      [] t = StartMenu -> Menu
      [] OTHER -> <<>>

Window(t, n, canvas) ==
  [title |-> t, callbacks |-> {Buttons(t)[i] : i \in 1..n}, canvas |-> canvas]

Listed(w) == w \in Range(windows)

-----------------------------------------------------------------------------
(* window_manager.c *)

Room == Len(windows) < MaxWindows

\* create_window and the buttons and the canvas its caller asks for.  A malloc
\* that fails costs the buttons after it, and the canvas, which is larger.
Create(t, b, n, canvas) ==
  /\ Room
  /\ heap[b] = NULL
  /\ canvas => t \in Apps /\ n = Len(Buttons(t))
  /\ heap' = [heap EXCEPT ![b] = Window(t, n, canvas)]
  /\ windows' = Append(windows, b)

Position(w) == CHOOSE i \in 1..Len(windows) : windows[i] = w

\* The windows above w move down by one.
Without(w) ==
  [i \in 1..Len(windows) - 1 |-> windows[IF i < Position(w) THEN i ELSE i + 1]]

\* Fault: the last window stays in the list.
ListKept(w) == windows

Shifted(w) == Without(w)

\* destroy_window
Destroy(w) ==
  IF Listed(w)
  THEN /\ heap' = [heap EXCEPT ![w] = NULL]
       /\ windows' = Shifted(w)
  ELSE UNCHANGED <<heap, windows>>

\* Fault: the window sinks to the back.
SendToBack(w) == IF Listed(w) THEN <<w>> \o Without(w) ELSE windows

BringToFront(w) == IF Listed(w) THEN Append(Without(w), w) ELSE windows

-----------------------------------------------------------------------------
(* The callbacks *)

HasWindow(a) == app_window[a] # NULL

\* terminal_callback, cpu_visualiser_callback, ...: a window whose canvas could
\* not be made stays.
Launch(a) ==
  /\ UNCHANGED orphaned
  /\ \/ /\ HasWindow(a)
        /\ windows' = BringToFront(app_window[a])
        /\ UNCHANGED <<heap, app_window, app_canvas>>
     \/ /\ ~HasWindow(a)
        /\ \E b \in Blocks, n \in 0..Len(Buttons(a)), canvas \in BOOLEAN :
             /\ Create(a, b, n, canvas)
             /\ app_window' = [app_window EXCEPT ![a] = b]
             /\ app_canvas' = [app_canvas EXCEPT ![a] = IF canvas THEN b ELSE NULL]
     \/ /\ ~HasWindow(a)
        /\ UNCHANGED <<windows, heap, app_window, app_canvas>>  \* full, or no memory

\* start_button_callback: a new menu on every click.
Start ==
  /\ \/ \E b \in Blocks, n \in 0..Len(Buttons(StartMenu)) : Create(StartMenu, b, n, FALSE)
     \/ UNCHANGED <<windows, heap>>
  /\ UNCHANGED <<app_window, app_canvas, orphaned>>

\* default_close_callback: the program is not told.
Close(w) ==
  /\ Destroy(w)
  /\ orphaned' = orphaned \cup ({heap[w].title} \cap Apps)
  /\ UNCHANGED <<app_window, app_canvas>>

\* terminal_close_callback
TerminalClose ==
  /\ UNCHANGED orphaned
  /\ IF HasWindow(Terminal)
     THEN /\ Destroy(app_window[Terminal])
          /\ app_window' = [app_window EXCEPT ![Terminal] = NULL]
          /\ app_canvas' = [app_canvas EXCEPT ![Terminal] = NULL]
     ELSE UNCHANGED <<heap, windows, app_window, app_canvas>>

OnClick(w, callback) ==
  CASE callback = "close" -> Close(w)
    [] callback = "terminal_close" -> TerminalClose
    [] callback = "start" -> Start
    [] OTHER -> Launch(callback)

-----------------------------------------------------------------------------
(* A frame *)

\* Fault: the drag goes on when the button is up.
StillDragged == dragged_window

AfterRelease == NULL

\* update_drag.  The menu and the taskbar have no title bar to be dragged by.
UpdateDrag ==
  /\ pc = "drag" /\ pc' = "test"
  /\ \/ /\ ~buttons
        /\ dragged_window' = AfterRelease
        /\ raced' = FALSE
     \/ /\ buttons /\ dragged_window = NULL
        /\ dragged_window' \in {NULL} \cup {w \in Range(windows) : HasTitleBar(heap[w].title)}
        /\ UNCHANGED raced
     \/ /\ buttons /\ dragged_window # NULL
        /\ UNCHANGED <<dragged_window, raced>>
  /\ UNCHANGED <<desktop, buttons, armed, previous_buttons>>

Released == previous_buttons /\ ~buttons

\* update_mouse_click's test and process_mouse_click, which runs at most one
\* callback: any button of any window, or none under the pointer.
TestClick ==
  /\ pc = "test" /\ pc' = "store"
  /\ armed' = (armed /\ ~Released)
  /\ \/ Released /\ \E w \in Range(windows) :
          \E callback \in heap[w].callbacks : OnClick(w, callback)
     \/ UNCHANGED desktop
  /\ UNCHANGED <<buttons, raced, previous_buttons, dragged_window>>

\* Fault: a button once seen down stays remembered.
StaysPressed == previous_buttons \/ buttons

Remembered == buttons

\* update_mouse_click's second read of the buttons.
StoreButtons ==
  /\ pc = "store" /\ pc' = "draw"
  /\ previous_buttons' = Remembered
  /\ UNCHANGED <<desktop, mouse, dragged_window>>

\* draw_all_windows and the programs' update functions, which change no window.
Draw ==
  /\ pc = "draw" /\ pc' = "drag"
  /\ UNCHANGED <<desktop, mouse, previous_buttons, dragged_window>>

\* mouse_handler at the end of a packet.
MouseButton ==
  /\ buttons' = ~buttons
  /\ armed' = (armed \/ ~buttons)
  /\ raced' = (raced \/ (buttons /\ pc = "test"))
  /\ UNCHANGED <<desktop, previous_buttons, dragged_window, pc>>

-----------------------------------------------------------------------------
Frame == UpdateDrag \/ TestClick \/ StoreButtons \/ Draw

\* init_gui on a fresh heap: the taskbar and the terminal over it.
Init ==
  \E bar, term \in Blocks :
    /\ bar # term
    /\ windows = <<bar, term>>
    /\ heap = [b \in Blocks |->
                 CASE b = bar -> Window(Taskbar, 2, FALSE)
                   [] b = term -> Window(Terminal, 1, TRUE)
                   [] OTHER -> NULL]
    /\ app_window = [a \in Apps |-> IF a = Terminal THEN term ELSE NULL]
    /\ app_canvas = app_window
    /\ buttons = FALSE /\ previous_buttons = FALSE /\ dragged_window = NULL
    /\ pc = "drag"
    /\ orphaned = {} /\ raced = FALSE /\ armed = FALSE

Next == Frame \/ MouseButton

Spec == Init /\ [][Next]_vars
-----------------------------------------------------------------------------
(* Properties *)

Pointers == Blocks \cup {NULL}

TypeOK ==
  /\ windows \in Seq(Blocks) /\ Len(windows) <= MaxWindows
  /\ heap \in [Blocks -> WindowRecords \cup {NULL}]
  /\ app_window \in [Apps -> Pointers] /\ app_canvas \in [Apps -> Pointers]
  /\ dragged_window \in Pointers
  /\ buttons \in BOOLEAN /\ previous_buttons \in BOOLEAN
  /\ pc \in {"drag", "test", "store", "draw"}
  /\ orphaned \subseteq Apps
  /\ raced \in BOOLEAN /\ armed \in BOOLEAN

\* The desktop draws every window once and no freed one, and no window is lost
\* from the list while its block is in use, however windows are opened, raised
\* and closed (window_manager.c:63-163, 245-251).
ListIsExact ==
  /\ TypeOK
  /\ IsInjective(windows)
  /\ Range(windows) = {b \in Blocks : heap[b] # NULL}

Titled(t) == {w \in Range(windows) : heap[w] # NULL /\ heap[w].title = t}

\* terminal_window is the one terminal on the desktop or NULL, and
\* terminal_canvas is that window's, so update_terminal never draws into freed
\* memory (terminal.c:120-165, 197-207; window_manager.c:90-96).
TerminalTracked ==
  /\ Titled(Terminal) = {app_window[Terminal]} \ {NULL}
  /\ app_canvas[Terminal] # NULL =>
       app_canvas[Terminal] = app_window[Terminal] /\ heap[app_window[Terminal]].canvas

\* Choosing a program puts its window on top, unless none could be made or its
\* window was destroyed under it before (window_manager.c:146-163).
LaunchShows ==
  [][\A a \in Apps \ orphaned :
       pc = "test" /\ Launch(a) /\ app_window'[a] # NULL
         => Last(windows') \in Titled(a)']_vars

\* A drag keeps a window that has been freed only if the button went up between
\* update_drag and update_mouse_click of one frame (events.c:42-73, gui.c:24-30).
DragHoldsLive == dragged_window # NULL => Listed(dragged_window) \/ raced

\* One press of the button yields at most one click, wherever the interrupts of
\* the mouse fall (gui.c:24-30).
ClickOnce == [][TestClick /\ Released => armed]_vars
=============================================================================
