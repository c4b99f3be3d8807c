---------------------------- MODULE WindowsProofs ----------------------------
(***************************************************************************)
(* The window list is exact, the terminal is tracked, a freed window is    *)
(* dragged only after one race and a press is one click, for every set of  *)
(* programs, any number of windows and any heap.  Then what the terminal   *)
(* shows in its window: the line that was typed, the wrapped text and its  *)
(* tail, for every size of buffer, line, row and canvas.                   *)
(***************************************************************************)
EXTENDS Windows, Terminal, SequenceTheorems, FiniteSetTheorems, WellFoundedInduction, TLAPS

Used == {b \in Blocks : heap[b] # NULL}

\* The list, as ListIsExact has it.
Exact ==
  /\ windows \in Seq(Blocks) /\ Len(windows) <= MaxWindows
  /\ IsInjective(windows)
  /\ Range(windows) = Used

\* No window of the terminal has the close callback of the others.
WellMade ==
  /\ heap \in [Blocks -> WindowRecords \cup {NULL}]
  /\ \A b \in Used : heap[b].title = Terminal => "close" \notin heap[b].callbacks

\* A program whose window was not destroyed under it points at its own window.
Tracked ==
  /\ app_window \in [Apps -> Pointers] /\ app_canvas \in [Apps -> Pointers]
  /\ orphaned \subseteq Apps /\ Terminal \notin orphaned
  /\ \A a \in Apps \ orphaned :
       app_window[a] # NULL => app_window[a] \in Used /\ heap[app_window[a]].title = a
  /\ \A b \in Used : heap[b].title = Terminal => b = app_window[Terminal]
  /\ app_canvas[Terminal] # NULL =>
       app_canvas[Terminal] = app_window[Terminal] /\ heap[app_window[Terminal]].canvas

Desktop == Exact /\ WellMade /\ Tracked

\* The button is down, or was when last remembered, only after a press that no
\* click has used.
Pressed ==
  /\ buttons \in BOOLEAN /\ previous_buttons \in BOOLEAN /\ armed \in BOOLEAN
  /\ pc \in {"drag", "test", "store", "draw"}
  /\ buttons => armed
  /\ pc # "store" /\ previous_buttons => armed

Dragging ==
  /\ raced \in BOOLEAN /\ dragged_window \in Pointers
  /\ pc = "test" /\ dragged_window # NULL /\ ~buttons => raced
  /\ DragHoldsLive

Sound == Desktop /\ Pressed /\ Dragging
-----------------------------------------------------------------------------
(* Lists and records *)

\* A window appended to the list.
LEMMA Appended ==
  ASSUME NEW s \in Seq(Blocks), IsInjective(s), NEW b \in Blocks, b \notin Range(s)
  PROVE  /\ Append(s, b) \in Seq(Blocks) /\ Len(Append(s, b)) = Len(s) + 1
         /\ IsInjective(Append(s, b))
         /\ Range(Append(s, b)) = Range(s) \cup {b}
         /\ Append(s, b)[Len(Append(s, b))] = b
<1> DEFINE t == Append(s, b)
<1>1. /\ t \in Seq(Blocks) /\ Len(t) = Len(s) + 1 /\ Len(s) \in Nat
      /\ DOMAIN t = 1..Len(t) /\ DOMAIN s = 1..Len(s)
      /\ \A i \in 1..Len(s) : t[i] = s[i]
      /\ t[Len(s) + 1] = b
  BY AppendProperties
<1> HIDE DEF t
<1>2. \A i \in 1..Len(t) : i \in 1..Len(s) \/ i = Len(s) + 1
  BY <1>1
<1>3. \A i \in 1..Len(s) : i \in 1..Len(t) /\ s[i] \in Range(s) /\ s[i] # b
  BY <1>1 DEF Range
<1>4. IsInjective(t)
  BY <1>1, <1>2, <1>3 DEF IsInjective
<1>5. Range(t) = Range(s) \cup {b}
  <2>1. Range(t) \subseteq Range(s) \cup {b}
    BY <1>1, <1>2 DEF Range
  <2>2. Range(s) \subseteq Range(t)
    BY <1>1, <1>3 DEF Range
  <2>3. b \in Range(t)
    BY <1>1 DEF Range
  <2> QED
    BY <2>1, <2>2, <2>3
<1> QED
  BY <1>1, <1>4, <1>5 DEF t

\* A listed window taken out of the list.
LEMMA TakenOut ==
  ASSUME windows \in Seq(Blocks), IsInjective(windows), NEW w, Listed(w)
  PROVE  /\ Without(w) \in Seq(Blocks) /\ Len(Without(w)) = Len(windows) - 1
         /\ IsInjective(Without(w))
         /\ Range(Without(w)) = Range(windows) \ {w}
<1> DEFINE n == Len(windows)
           k == Position(w)
           t == Without(w)
<1>1. n \in Nat /\ DOMAIN windows = 1..n /\ \A i \in 1..n : windows[i] \in Blocks
  OBVIOUS
<1>2. k \in 1..n /\ windows[k] = w
  BY <1>1 DEF Position, Listed, Range
<1> DEFINE at(i) == IF i < k THEN i ELSE i + 1
<1>3. t = [i \in 1..(n - 1) |-> windows[at(i)]]
  BY DEF Without
<1> HIDE DEF n, k, t
<1>4. n >= 1 /\ n - 1 \in Nat
  BY <1>1, <1>2
<1>5. \A i \in 1..(n - 1) : at(i) \in 1..n /\ at(i) # k
  BY <1>1, <1>2
<1>6. \A i, j \in 1..(n - 1) : at(i) = at(j) => i = j
  BY <1>1, <1>2
<1>7. \A m \in 1..n : m # k => \E i \in 1..(n - 1) : at(i) = m
  <2> SUFFICES ASSUME NEW m \in 1..n, m # k
               PROVE  \E i \in 1..(n - 1) : at(i) = m
    OBVIOUS
  <2>1. CASE m < k
    <3>1. m \in 1..(n - 1) /\ at(m) = m
      BY <1>1, <1>2, <2>1
    <3> QED
      BY <3>1
  <2>2. CASE m > k
    <3>1. m - 1 \in 1..(n - 1) /\ at(m - 1) = m
      BY <1>1, <1>2, <2>2
    <3> QED
      BY <3>1
  <2> QED
    BY <1>1, <1>2, <2>1, <2>2
<1> HIDE DEF at
<1>8. /\ DOMAIN t = 1..(n - 1)
      /\ \A i \in 1..(n - 1) : t[i] = windows[at(i)] /\ t[i] \in Blocks
  BY <1>1, <1>3, <1>5
<1>9. t \in Seq(Blocks) /\ Len(t) = n - 1
  <2>1. t \in [1..(n - 1) -> Blocks]
    BY <1>1, <1>3, <1>5
  <2> QED
    BY <1>4, <2>1
<1>10. IsInjective(t)
  <2> SUFFICES ASSUME NEW i \in 1..(n - 1), NEW j \in 1..(n - 1), t[i] = t[j]
               PROVE  i = j
    BY <1>8 DEF IsInjective
  <2>1. windows[at(i)] = windows[at(j)]
    BY <1>8
  <2>2. at(i) = at(j)
    BY <1>1, <1>5, <2>1 DEF IsInjective
  <2> QED
    BY <1>6, <2>2
<1>11. \A m \in 1..n : windows[m] = w => m = k
  BY <1>1, <1>2 DEF IsInjective
<1>12. Range(t) \subseteq Range(windows) \ {w}
  BY <1>1, <1>5, <1>8, <1>11 DEF Range
<1>13. Range(windows) \ {w} \subseteq Range(t)
  <2> SUFFICES ASSUME NEW m \in 1..n, windows[m] # w
               PROVE  windows[m] \in Range(t)
    BY <1>1 DEF Range
  <2>1. PICK i \in 1..(n - 1) : at(i) = m
    BY <1>2, <1>7
  <2> QED
    BY <1>8, <2>1 DEF Range
<1> QED
  BY <1>9, <1>10, <1>12, <1>13 DEF n, t

\* The buttons of a window are what they should be, and the terminal has no
\* close callback but its own.
LEMMA ButtonsKnown ==
  ASSUME NEW t \in Titles
  PROVE  /\ \A i \in 1..Len(Buttons(t)) : Buttons(t)[i] \in Callbacks
         /\ t = Terminal => \A i \in 1..Len(Buttons(t)) : Buttons(t)[i] # "close"
         /\ Len(Buttons(t)) \in Nat /\ Len(Buttons(t)) >= 1
<1> DEFINE first == <<CloseCallback(t)>>
           rest == CASE t = Taskbar -> <<"start">>
                     [] t = StartMenu -> Menu
                     [] OTHER -> <<>>
<1>1. first \in Seq(Callbacks) /\ Len(first) = 1
  BY DEF CloseCallback, Callbacks
<1>2. Menu \in Seq(Callbacks)
  <2>1. Menu \in Seq(Apps) /\ Apps \subseteq Callbacks
    BY WindowsAssumption DEF Callbacks
  <2> QED
    BY <2>1
<1>3. <<"start">> \in Seq(Callbacks)
  BY DEF Callbacks
<1>4. rest \in Seq(Callbacks)
  <2>1. CASE t = Taskbar
    BY <1>3, <2>1, WindowsAssumption
  <2>2. CASE t = StartMenu
    BY <1>2, <2>2, WindowsAssumption
  <2>3. CASE t # Taskbar /\ t # StartMenu
    BY <2>3
  <2> QED
    BY <2>1, <2>2, <2>3
<1>5. t = Terminal => rest = <<>> /\ first = <<"terminal_close">>
  BY WindowsAssumption DEF CloseCallback
<1>6. Buttons(t) = first \o rest
  BY DEF Buttons
<1> HIDE DEF first, rest
<1>7. Buttons(t) \in Seq(Callbacks) /\ Len(Buttons(t)) = Len(first) + Len(rest)
  BY <1>1, <1>4, <1>6, ConcatProperties
<1>8. t = Terminal => Buttons(t) = <<"terminal_close">>
  BY <1>1, <1>5, <1>6, ConcatEmptySeq
<1>9. ASSUME t = Terminal
      PROVE  \A i \in 1..Len(Buttons(t)) : Buttons(t)[i] # "close"
  <2>1. Len(Buttons(t)) = 1 /\ Buttons(t)[1] = "terminal_close"
    BY <1>8, <1>9
  <2> QED
    BY <2>1
<1> QED
  BY <1>1, <1>4, <1>7, <1>9

LEMMA WindowKnown ==
  ASSUME NEW t \in Titles, NEW n \in 0..Len(Buttons(t)), NEW canvas \in BOOLEAN
  PROVE  /\ Window(t, n, canvas) \in WindowRecords /\ Window(t, n, canvas) # NULL
         /\ Window(t, n, canvas).title = t /\ Window(t, n, canvas).canvas = canvas
         /\ t = Terminal => "close" \notin Window(t, n, canvas).callbacks
<1>1. \A i \in 1..n : i \in 1..Len(Buttons(t))
  BY ButtonsKnown
<1>2. {Buttons(t)[i] : i \in 1..n} \in SUBSET Callbacks
  BY <1>1, ButtonsKnown
<1>3. t = Terminal => "close" \notin {Buttons(t)[i] : i \in 1..n}
  BY <1>1, ButtonsKnown
<1>4. Window(t, n, canvas) \in WindowRecords
  BY <1>2 DEF Window, WindowRecords
<1>5. Window(t, n, canvas) # NULL
  BY <1>4, WindowsAssumption
<1> QED
  BY <1>3, <1>4, <1>5 DEF Window
-----------------------------------------------------------------------------
(* window_manager.c *)

LEMMA CreateKeeps ==
  ASSUME Exact, WellMade,
         NEW t \in Titles, NEW b \in Blocks, NEW n \in 0..Len(Buttons(t)),
         NEW canvas \in BOOLEAN, Create(t, b, n, canvas)
  PROVE  /\ Exact' /\ WellMade'
         /\ b \notin Used /\ Used' = Used \cup {b}
         /\ heap'[b] = Window(t, n, canvas)
         /\ \A c \in Used : heap'[c] = heap[c]
         /\ windows' # <<>> /\ windows'[Len(windows')] = b
<1> DEFINE win == Window(t, n, canvas)
<1>1. /\ win \in WindowRecords /\ win # NULL /\ win.title = t
      /\ t = Terminal => "close" \notin win.callbacks
  BY WindowKnown
<1>2. /\ Len(windows) < MaxWindows /\ heap[b] = NULL
      /\ heap' = [heap EXCEPT ![b] = win] /\ windows' = Append(windows, b)
  BY DEF Create, Room
<1> HIDE DEF win
<1>3. heap \in [Blocks -> WindowRecords \cup {NULL}]
  BY DEF WellMade
<1>4. /\ heap' \in [Blocks -> WindowRecords \cup {NULL}] /\ heap'[b] = win
      /\ \A c \in Blocks : c # b => heap'[c] = heap[c]
  BY <1>1, <1>2, <1>3
<1>5. b \notin Used /\ Used' = Used \cup {b} /\ \A c \in Used : c # b
  BY <1>1, <1>2, <1>4 DEF Used
<1>6. WellMade'
  <2>1. \A c \in Used' : heap'[c].title = Terminal => "close" \notin heap'[c].callbacks
    <3> SUFFICES ASSUME NEW c \in Used', heap'[c].title = Terminal
                 PROVE  "close" \notin heap'[c].callbacks
      OBVIOUS
    <3>1. CASE c = b
      BY <1>1, <1>4, <3>1
    <3>2. CASE c # b
      BY <1>4, <1>5, <3>2 DEF WellMade, Used
    <3> QED
      BY <3>1, <3>2
  <2> QED
    BY <1>4, <2>1 DEF WellMade
<1>7. /\ windows \in Seq(Blocks) /\ IsInjective(windows) /\ Range(windows) = Used
      /\ Len(windows) \in Nat
  BY DEF Exact
<1>8. /\ windows' \in Seq(Blocks) /\ Len(windows') = Len(windows) + 1
      /\ IsInjective(windows') /\ Range(windows') = Used'
      /\ windows'[Len(windows')] = b
  BY <1>2, <1>5, <1>7, Appended
<1>9. Len(windows') <= MaxWindows /\ windows' # <<>>
  BY <1>2, <1>7, <1>8, WindowsAssumption
<1>10. Exact'
  BY <1>8, <1>9 DEF Exact
<1> QED
  BY <1>4, <1>5, <1>6, <1>8, <1>9, <1>10 DEF Used, win

LEMMA DestroyKeeps ==
  ASSUME Exact, WellMade, NEW w \in Used, Destroy(w)
  PROVE  /\ Exact' /\ WellMade'
         /\ Used' = Used \ {w}
         /\ \A c \in Used \ {w} : heap'[c] = heap[c]
<1>1. /\ windows \in Seq(Blocks) /\ IsInjective(windows) /\ Range(windows) = Used
      /\ Len(windows) \in Nat /\ Len(windows) <= MaxWindows /\ Listed(w)
  BY DEF Exact, Listed
<1>2. heap' = [heap EXCEPT ![w] = NULL] /\ windows' = Without(w)
  BY <1>1 DEF Destroy, Shifted
<1>3. /\ heap' \in [Blocks -> WindowRecords \cup {NULL}] /\ heap'[w] = NULL
      /\ \A c \in Blocks : c # w => heap'[c] = heap[c]
  BY <1>2 DEF WellMade, Used
<1>4. Used' = Used \ {w}
  BY <1>3 DEF Used
<1>5. \A c \in Used' : c \in Blocks /\ c \in Used /\ heap'[c] = heap[c]
  BY <1>3, <1>4 DEF Used
<1>6. WellMade'
  BY <1>3, <1>5 DEF WellMade
<1>7. /\ windows' \in Seq(Blocks) /\ Len(windows') = Len(windows) - 1
      /\ IsInjective(windows') /\ Range(windows') = Used'
  BY <1>1, <1>2, <1>4, TakenOut
<1>8. Len(windows') <= MaxWindows
  BY <1>1, <1>7, WindowsAssumption
<1> QED
  BY <1>3, <1>4, <1>5, <1>6, <1>7, <1>8 DEF Exact

LEMMA BringKeeps ==
  ASSUME Exact, UNCHANGED heap, NEW w \in Blocks, windows' = BringToFront(w)
  PROVE  /\ Exact'
         /\ w \in Used => windows' # <<>> /\ windows'[Len(windows')] = w
<1>1. /\ windows \in Seq(Blocks) /\ IsInjective(windows) /\ Range(windows) = Used
      /\ Len(windows) \in Nat /\ Len(windows) <= MaxWindows
  BY DEF Exact
<1>2. Used' = Used
  BY DEF Used
<1>3. CASE w \in Used
  <2>1. Listed(w)
    BY <1>1, <1>3 DEF Listed
  <2>2. windows' = Append(Without(w), w)
    BY <2>1 DEF BringToFront
  <2>3. /\ Without(w) \in Seq(Blocks) /\ Len(Without(w)) = Len(windows) - 1
        /\ IsInjective(Without(w)) /\ Range(Without(w)) = Used \ {w}
    BY <1>1, <2>1, TakenOut
  <2>4. /\ windows' \in Seq(Blocks) /\ Len(windows') = Len(Without(w)) + 1
        /\ IsInjective(windows') /\ Range(windows') = (Used \ {w}) \cup {w}
        /\ windows'[Len(windows')] = w
    <3>1. w \notin Range(Without(w))
      BY <2>3
    <3> QED
      BY <2>2, <2>3, <3>1, Appended
  <2>5. Range(windows') = Used' /\ Len(windows') = Len(windows)
    BY <1>1, <1>2, <1>3, <2>3, <2>4
  <2>6. windows' # <<>>
    <3>1. w \in Range(windows')
      BY <2>4
    <3> QED
      BY <3>1 DEF Range
  <2> QED
    BY <1>1, <2>4, <2>5, <2>6 DEF Exact
<1>4. CASE w \notin Used
  <2>1. windows' = windows
    BY <1>1, <1>4 DEF BringToFront, Listed
  <2> QED
    BY <1>1, <1>2, <1>4, <2>1 DEF Exact
<1> QED
  BY <1>3, <1>4
-----------------------------------------------------------------------------
(* The callbacks *)

\* A new window of a program that has none, or of the menu.
LEMMA NewWindowKeeps ==
  ASSUME Desktop, NEW t \in Titles, NEW b \in Blocks, NEW n \in 0..Len(Buttons(t)),
         NEW canvas \in BOOLEAN, Create(t, b, n, canvas), UNCHANGED orphaned,
         \/ t \notin Apps /\ UNCHANGED <<app_window, app_canvas>>
         \/ /\ t \in Apps /\ app_window[t] = NULL
            /\ app_window' = [app_window EXCEPT ![t] = b]
            /\ app_canvas' = [app_canvas EXCEPT ![t] = IF canvas THEN b ELSE NULL]
  PROVE  Desktop'
<1>1. /\ Exact' /\ WellMade'
      /\ b \notin Used /\ Used' = Used \cup {b}
      /\ heap'[b] = Window(t, n, canvas)
      /\ \A c \in Used : heap'[c] = heap[c]
  BY CreateKeeps DEF Desktop
<1>2. heap'[b].title = t /\ heap'[b].canvas = canvas
  BY <1>1, WindowKnown
<1>3. Tracked /\ Terminal \in Apps /\ NULL \notin Blocks /\ NULL \notin Used
  BY WindowsAssumption DEF Desktop, Used
<1>4. /\ app_window' \in [Apps -> Pointers] /\ app_canvas' \in [Apps -> Pointers]
      /\ \A a \in Apps : a # t => app_window'[a] = app_window[a] /\ app_canvas'[a] = app_canvas[a]
      /\ t \in Apps => /\ app_window[t] = NULL /\ app_window'[t] = b
                       /\ app_canvas'[t] = IF canvas THEN b ELSE NULL
  BY <1>3 DEF Tracked, Pointers
<1>5. ASSUME NEW a \in Apps \ orphaned, app_window'[a] # NULL
      PROVE  app_window'[a] \in Used' /\ heap'[app_window'[a]].title = a
  <2>1. CASE a = t
    BY <1>1, <1>2, <1>4, <2>1
  <2>2. CASE a # t
    BY <1>1, <1>3, <1>4, <1>5, <2>2 DEF Tracked
  <2> QED
    BY <2>1, <2>2
<1>6. ASSUME NEW d \in Used', heap'[d].title = Terminal
      PROVE  d = app_window'[Terminal]
  <2>1. CASE d = b
    BY <1>2, <1>3, <1>4, <1>6, <2>1
  <2>2. CASE d # b
    <3>1. d \in Used /\ heap[d].title = Terminal /\ d = app_window[Terminal]
      BY <1>1, <1>3, <1>6, <2>2 DEF Tracked
    <3> QED
      BY <1>3, <1>4, <3>1
  <2> QED
    BY <2>1, <2>2
<1>7. ASSUME app_canvas'[Terminal] # NULL
      PROVE  app_canvas'[Terminal] = app_window'[Terminal] /\ heap'[app_window'[Terminal]].canvas
  <2>1. CASE t = Terminal
    BY <1>2, <1>3, <1>4, <1>7, <2>1
  <2>2. CASE t # Terminal
    <3>1. /\ app_canvas[Terminal] # NULL /\ app_canvas[Terminal] = app_window[Terminal]
          /\ heap[app_window[Terminal]].canvas
      BY <1>3, <1>4, <1>7, <2>2 DEF Tracked
    <3>2. app_window[Terminal] \in Used
      BY <1>3, <3>1 DEF Tracked
    <3> QED
      BY <1>1, <1>3, <1>4, <2>2, <3>1, <3>2
  <2> QED
    BY <2>1, <2>2
<1>8. Tracked'
  BY <1>3, <1>4, <1>5, <1>6, <1>7 DEF Tracked
<1> QED
  BY <1>1, <1>8 DEF Desktop

LEMMA LaunchKeeps ==
  ASSUME Desktop, NEW a \in Apps, Launch(a)
  PROVE  Desktop'
<1>1. CASE HasWindow(a) /\ windows' = BringToFront(app_window[a])
           /\ UNCHANGED <<heap, app_window, app_canvas, orphaned>>
  <2>1. app_window[a] \in Blocks
    BY <1>1 DEF Desktop, Tracked, HasWindow, Pointers
  <2>2. Exact'
    BY <1>1, <2>1, BringKeeps DEF Desktop
  <2>3. WellMade' /\ Tracked'
    BY <1>1 DEF Desktop, WellMade, Tracked, Used
  <2> QED
    BY <2>2, <2>3 DEF Desktop
<1>2. ASSUME NEW b \in Blocks, NEW n \in 0..Len(Buttons(a)), NEW canvas \in BOOLEAN,
             ~HasWindow(a), UNCHANGED orphaned,
             Create(a, b, n, canvas),
             app_window' = [app_window EXCEPT ![a] = b],
             app_canvas' = [app_canvas EXCEPT ![a] = IF canvas THEN b ELSE NULL]
      PROVE  Desktop'
  BY <1>2, NewWindowKeeps DEF HasWindow, Titles
<1>3. CASE UNCHANGED <<windows, heap, app_window, app_canvas, orphaned>>
  BY <1>3 DEF Desktop, Exact, WellMade, Tracked, Used
<1> QED
  BY <1>1, <1>2, <1>3 DEF Launch

LEMMA StartKeeps ==
  ASSUME Desktop, Start
  PROVE  Desktop'
<1>1. ASSUME NEW b \in Blocks, NEW n \in 0..Len(Buttons(StartMenu)),
             Create(StartMenu, b, n, FALSE)
      PROVE  Desktop'
  <2>1. StartMenu \in Titles /\ StartMenu \notin Apps /\ FALSE \in BOOLEAN
    BY WindowsAssumption DEF Titles
  <2> QED
    BY <1>1, <2>1, NewWindowKeeps DEF Start
<1>2. CASE UNCHANGED <<windows, heap>>
  BY <1>2 DEF Start, Desktop, Exact, WellMade, Tracked, Used
<1> QED
  BY <1>1, <1>2 DEF Start

LEMMA CloseKeeps ==
  ASSUME Desktop, NEW w \in Used, "close" \in heap[w].callbacks, Close(w)
  PROVE  Desktop'
<1>1. /\ Exact' /\ WellMade' /\ Used' = Used \ {w}
      /\ \A c \in Used \ {w} : heap'[c] = heap[c]
  BY DestroyKeeps DEF Desktop, Close
<1>2. heap[w].title # Terminal
  BY DEF Desktop, WellMade
<1>3. /\ orphaned' = orphaned \cup ({heap[w].title} \cap Apps)
      /\ UNCHANGED <<app_window, app_canvas>>
  BY DEF Close
<1>4. Tracked /\ Terminal \in Apps /\ NULL \notin Used
  BY WindowsAssumption DEF Desktop, Used
<1>5. orphaned' \subseteq Apps /\ Terminal \notin orphaned'
  BY <1>2, <1>3, <1>4 DEF Tracked
<1>6. ASSUME NEW a \in Apps \ orphaned', app_window[a] # NULL
      PROVE  app_window[a] \in Used' /\ heap'[app_window[a]].title = a
  <2>1. a \in Apps \ orphaned /\ a # heap[w].title
    BY <1>3, <1>6
  <2>2. app_window[a] \in Used /\ heap[app_window[a]].title = a
    BY <1>4, <1>6, <2>1 DEF Tracked
  <2> QED
    BY <1>1, <2>1, <2>2
<1>7. ASSUME NEW d \in Used', heap'[d].title = Terminal
      PROVE  d = app_window[Terminal]
  BY <1>1, <1>4, <1>7 DEF Tracked
<1>8. ASSUME app_canvas[Terminal] # NULL
      PROVE  heap'[app_window[Terminal]] = heap[app_window[Terminal]]
  <2>1. app_window[Terminal] \in Used /\ heap[app_window[Terminal]].title = Terminal
    BY <1>4, <1>8 DEF Tracked
  <2> QED
    BY <1>1, <1>2, <2>1
<1>9. Tracked'
  BY <1>3, <1>4, <1>5, <1>6, <1>7, <1>8 DEF Tracked
<1> QED
  BY <1>1, <1>9 DEF Desktop

LEMMA TerminalCloseKeeps ==
  ASSUME Desktop, TerminalClose
  PROVE  Desktop'
<1>1. CASE ~HasWindow(Terminal)
  BY <1>1 DEF TerminalClose, Desktop, Exact, WellMade, Tracked, Used
<1>2. CASE HasWindow(Terminal)
  <2> DEFINE w == app_window[Terminal]
  <2>1. Tracked /\ Terminal \in Apps /\ NULL \notin Used
    BY WindowsAssumption DEF Desktop, Used
  <2>2. w \in Used /\ heap[w].title = Terminal
    BY <1>2, <2>1 DEF Tracked, HasWindow
  <2>3. /\ Destroy(w) /\ UNCHANGED orphaned
        /\ app_window' = [app_window EXCEPT ![Terminal] = NULL]
        /\ app_canvas' = [app_canvas EXCEPT ![Terminal] = NULL]
    BY <1>2 DEF TerminalClose
  <2>4. /\ Exact' /\ WellMade' /\ Used' = Used \ {w}
        /\ \A c \in Used \ {w} : heap'[c] = heap[c]
    BY <2>2, <2>3, DestroyKeeps DEF Desktop
  <2>5. /\ app_window' \in [Apps -> Pointers] /\ app_canvas' \in [Apps -> Pointers]
        /\ app_window'[Terminal] = NULL /\ app_canvas'[Terminal] = NULL
        /\ \A a \in Apps : a # Terminal => app_window'[a] = app_window[a]
    BY <2>1, <2>3 DEF Tracked, Pointers
  <2>6. ASSUME NEW a \in Apps \ orphaned, app_window'[a] # NULL
        PROVE  app_window'[a] \in Used' /\ heap'[app_window'[a]].title = a
    <3>1. a # Terminal /\ app_window'[a] = app_window[a]
      BY <2>5, <2>6
    <3>2. app_window[a] \in Used /\ heap[app_window[a]].title = a
      BY <2>1, <2>6, <3>1 DEF Tracked
    <3>3. app_window[a] # w
      BY <2>2, <3>1, <3>2
    <3> QED
      BY <2>4, <3>1, <3>2, <3>3
  <2>7. \A d \in Used' : heap'[d].title # Terminal
    BY <2>1, <2>4 DEF Tracked
  <2> HIDE DEF w
  <2>8. Tracked'
    BY <2>1, <2>3, <2>5, <2>6, <2>7 DEF Tracked
  <2> QED
    BY <2>4, <2>8 DEF Desktop
<1> QED
  BY <1>1, <1>2

LEMMA ClickKeeps ==
  ASSUME Desktop, NEW w \in Range(windows), NEW callback \in heap[w].callbacks,
         OnClick(w, callback)
  PROVE  Desktop'
<1>1. w \in Used
  BY DEF Desktop, Exact
<1>2. callback \in Callbacks
  <2>1. heap[w] \in WindowRecords
    BY <1>1 DEF Desktop, WellMade, Used
  <2> QED
    BY <2>1 DEF WindowRecords
<1>3. CASE callback = "close"
  BY <1>1, <1>3, CloseKeeps DEF OnClick
<1>4. CASE callback = "terminal_close"
  BY <1>4, TerminalCloseKeeps DEF OnClick
<1>5. CASE callback = "start"
  BY <1>5, StartKeeps DEF OnClick
<1>6. CASE callback \in Apps
  <2>1. callback # "close" /\ callback # "terminal_close" /\ callback # "start"
    BY <1>6, WindowsAssumption
  <2>2. Launch(callback)
    BY <2>1 DEF OnClick
  <2> QED
    BY <1>6, <2>2, LaunchKeeps
<1> QED
  BY <1>2, <1>3, <1>4, <1>5, <1>6 DEF Callbacks
-----------------------------------------------------------------------------
(* A frame, and the mouse behind it *)

LEMMA InitSound == Init => Sound
<1> SUFFICES ASSUME Init PROVE Sound
  OBVIOUS
<1>1. PICK bar \in Blocks, term \in Blocks :
        /\ bar # term
        /\ windows = <<bar, term>>
        /\ heap = [b \in Blocks |->
                     CASE b = bar -> Window(Taskbar, 2, FALSE)
                       [] b = term -> Window(Terminal, 1, TRUE)
                       [] OTHER -> NULL]
        /\ app_window = [a \in Apps |-> IF a = Terminal THEN term ELSE NULL]
        /\ app_canvas = app_window
        /\ orphaned = {}
  BY DEF Init
<1>2. Taskbar \in Titles /\ Terminal \in Titles /\ Terminal \in Apps /\ Taskbar \notin Apps
      /\ NULL \notin Blocks
  BY WindowsAssumption DEF Titles
<1>3. 2 \in 0..Len(Buttons(Taskbar)) /\ 1 \in 0..Len(Buttons(Terminal))
  <2>1. Buttons(Taskbar) = <<CloseCallback(Taskbar)>> \o <<"start">>
    BY WindowsAssumption DEF Buttons
  <2>2. Len(<<CloseCallback(Taskbar)>> \o <<"start">>) = 2
    OBVIOUS
  <2> QED
    BY <1>2, <2>1, <2>2, ButtonsKnown
<1>4. /\ heap[bar] \in WindowRecords /\ heap[bar] # NULL /\ heap[bar].title = Taskbar
      /\ heap[term] \in WindowRecords /\ heap[term] # NULL /\ heap[term].title = Terminal
      /\ heap[term].canvas /\ "close" \notin heap[term].callbacks
      /\ \A b \in Blocks : b # bar /\ b # term => heap[b] = NULL
  <2>1. heap[bar] = Window(Taskbar, 2, FALSE)
    BY <1>1
  <2>2. heap[term] = Window(Terminal, 1, TRUE)
    BY <1>1
  <2>3. \A b \in Blocks : b # bar /\ b # term => heap[b] = NULL
    BY <1>1
  <2>4. /\ Window(Taskbar, 2, FALSE) \in WindowRecords /\ Window(Taskbar, 2, FALSE) # NULL
        /\ Window(Taskbar, 2, FALSE).title = Taskbar
    BY <1>2, <1>3, WindowKnown
  <2>5. /\ Window(Terminal, 1, TRUE) \in WindowRecords /\ Window(Terminal, 1, TRUE) # NULL
        /\ Window(Terminal, 1, TRUE).title = Terminal
        /\ Window(Terminal, 1, TRUE).canvas = TRUE
        /\ "close" \notin Window(Terminal, 1, TRUE).callbacks
    BY <1>2, <1>3, WindowKnown
  <2> QED
    BY <2>1, <2>2, <2>3, <2>4, <2>5
<1>5. Used = {bar, term}
  BY <1>4 DEF Used
<1>6. Exact
  <2>1. /\ windows \in Seq(Blocks) /\ Len(windows) = 2 /\ DOMAIN windows = {1, 2}
        /\ windows[1] = bar /\ windows[2] = term
    BY <1>1
  <2>2. Range(windows) = {bar, term} /\ IsInjective(windows)
    BY <1>1, <2>1 DEF Range, IsInjective
  <2> QED
    BY <1>5, <2>1, <2>2, WindowsAssumption DEF Exact
<1>7. WellMade
  <2>1. DOMAIN heap = Blocks /\ heap = [b \in Blocks |-> heap[b]]
    BY <1>1
  <2>2. \A b \in Blocks : heap[b] \in WindowRecords \cup {NULL}
    BY <1>4
  <2>3. heap \in [Blocks -> WindowRecords \cup {NULL}]
    BY <2>1, <2>2
  <2> QED
    BY <1>2, <1>4, <1>5, <2>3 DEF WellMade
<1>8. Tracked
  BY <1>1, <1>2, <1>4, <1>5 DEF Tracked, Pointers
<1>9. Pressed /\ Dragging
  BY DEF Init, Pressed, Dragging, Pointers, DragHoldsLive
<1> QED
  BY <1>6, <1>7, <1>8, <1>9 DEF Sound, Desktop

LEMMA DesktopKept ==
  ASSUME Desktop, UNCHANGED desktop
  PROVE  Desktop'
  BY DEF desktop, Desktop, Exact, WellMade, Tracked, Used

LEMMA NextSound == Sound /\ [Next]_vars => Sound'
<1> SUFFICES ASSUME Sound, [Next]_vars PROVE Sound'
  OBVIOUS
<1>1. Desktop /\ Pressed /\ Dragging
  BY DEF Sound
<1>2. CASE UpdateDrag
  <2>1. Desktop' /\ UNCHANGED <<windows, buttons, armed, previous_buttons>>
    BY <1>1, <1>2, DesktopKept DEF UpdateDrag, desktop
  <2>2. Pressed'
    BY <1>1, <1>2, <2>1 DEF UpdateDrag, Pressed
  <2>3. Range(windows) \subseteq Blocks
    BY <1>1 DEF Desktop, Exact, Used
  <2>4. Dragging'
    <3>1. CASE ~buttons /\ dragged_window' = NULL /\ raced' = FALSE
      BY <2>1, <3>1 DEF Dragging, DragHoldsLive, Pointers
    <3>2. CASE /\ buttons /\ UNCHANGED raced
               /\ dragged_window' \in {NULL} \cup Range(windows)
      BY <1>1, <2>1, <2>3, <3>2 DEF Dragging, DragHoldsLive, Pointers, Listed
    <3>3. CASE buttons /\ UNCHANGED <<dragged_window, raced>>
      BY <1>1, <2>1, <3>3 DEF Dragging, DragHoldsLive, Listed
    <3> QED
      BY <1>2, <3>1, <3>2, <3>3 DEF UpdateDrag, AfterRelease
  <2> QED
    BY <2>1, <2>2, <2>4 DEF Sound
<1>3. CASE TestClick
  <2>1. pc = "test" /\ pc' = "store" /\ UNCHANGED <<buttons, raced, previous_buttons, dragged_window>>
        /\ armed' = (armed /\ ~Released)
    BY <1>3 DEF TestClick
  <2>2. Pressed'
    <3>1. armed' \in BOOLEAN
      BY <2>1
    <3>2. buttons => armed'
      BY <1>1, <2>1 DEF Pressed, Released
    <3> QED
      BY <1>1, <2>1, <3>1, <3>2 DEF Pressed
  <2>3. CASE UNCHANGED desktop
    <3>1. Desktop' /\ UNCHANGED windows
      BY <1>1, <2>3, DesktopKept DEF desktop
    <3>2. Dragging'
      BY <1>1, <2>1, <3>1 DEF Dragging, DragHoldsLive, Listed
    <3> QED
      BY <2>2, <3>1, <3>2 DEF Sound
  <2>4. ASSUME Released, NEW w \in Range(windows), NEW callback \in heap[w].callbacks,
               OnClick(w, callback)
        PROVE  Sound'
    <3>1. Desktop'
      BY <1>1, <2>4, ClickKeeps
    <3>2. Dragging'
      BY <1>1, <2>1, <2>4 DEF Dragging, DragHoldsLive, Released
    <3> QED
      BY <2>2, <3>1, <3>2 DEF Sound
  <2> QED
    BY <1>3, <2>3, <2>4 DEF TestClick
<1>4. CASE StoreButtons \/ Draw
  <2>1. Desktop' /\ UNCHANGED <<windows, buttons, armed, raced, dragged_window>>
    BY <1>1, <1>4, DesktopKept DEF StoreButtons, Draw, desktop, mouse
  <2>2. Pressed'
    BY <1>1, <1>4, <2>1 DEF StoreButtons, Draw, Remembered, Pressed
  <2>3. Dragging'
    BY <1>1, <1>4, <2>1 DEF StoreButtons, Draw, Dragging, DragHoldsLive, Listed
  <2> QED
    BY <2>1, <2>2, <2>3 DEF Sound
<1>5. CASE MouseButton
  <2>1. Desktop' /\ UNCHANGED <<windows, previous_buttons, dragged_window, pc>>
    BY <1>1, <1>5, DesktopKept DEF MouseButton, desktop
  <2>2. /\ buttons' = ~buttons /\ armed' = (armed \/ ~buttons)
        /\ raced' = (raced \/ (buttons /\ pc = "test"))
    BY <1>5 DEF MouseButton
  <2>3. buttons' \in BOOLEAN /\ armed' \in BOOLEAN /\ raced' \in BOOLEAN
    BY <2>2
  <2>4. Pressed'
    BY <1>1, <2>1, <2>2, <2>3, Zenon DEF Pressed
  <2>5. Dragging'
    <3>1. raced => raced'
      BY <2>2
    <3>2. Listed(dragged_window) => Listed(dragged_window)'
      BY <2>1 DEF Listed
    <3>3. pc = "test" /\ dragged_window # NULL /\ ~buttons' => raced'
      BY <2>2
    <3> QED
      BY <1>1, <2>1, <2>3, <3>1, <3>2, <3>3, Zenon DEF Dragging, DragHoldsLive
  <2> QED
    BY <2>1, <2>4, <2>5 DEF Sound
<1>6. CASE UNCHANGED vars
  <2>1. Desktop' /\ UNCHANGED windows
    BY <1>1, <1>6, DesktopKept DEF vars, desktop
  <2>2. Pressed' /\ Dragging'
    BY <1>1, <1>6 DEF vars, Pressed, Dragging, DragHoldsLive, Listed
  <2> QED
    BY <2>1, <2>2 DEF Sound
<1> QED
  BY <1>2, <1>3, <1>4, <1>5, <1>6 DEF Next, Frame

\* Sound is inductive, hence holds in every state that can be reached.
THEOREM SoundAlways == Spec => []Sound
  BY InitSound, NextSound, PTL DEF Spec
-----------------------------------------------------------------------------
(* What holds of every behaviour *)

\* ListIsExact: every window in use is listed once and no freed one is
\* (window_manager.c:63-163, 245-251).
THEOREM ListAlwaysExact == Spec => []ListIsExact
<1>1. Sound => ListIsExact
  BY DEF Sound, Desktop, Exact, WellMade, Tracked, Pressed, Dragging, ListIsExact, TypeOK, Used
<1> QED
  BY <1>1, SoundAlways, PTL

\* TerminalTracked: terminal_window is the one terminal or NULL, and its canvas
\* is that window's (terminal.c:120-165, 197-207; window_manager.c:90-96).
THEOREM TerminalAlwaysTracked == Spec => []TerminalTracked
<1>1. ASSUME Desktop
      PROVE  Titled(Terminal) = {app_window[Terminal]} \ {NULL}
  <2>1. Range(windows) = Used /\ NULL \notin Used
    BY <1>1, WindowsAssumption DEF Desktop, Exact, Used
  <2>2. app_window[Terminal] # NULL =>
          app_window[Terminal] \in Used /\ heap[app_window[Terminal]].title = Terminal
    BY <1>1, WindowsAssumption DEF Desktop, Tracked
  <2>3. \A b \in Used : heap[b].title = Terminal => b = app_window[Terminal]
    BY <1>1 DEF Desktop, Tracked
  <2>4. Titled(Terminal) = {b \in Used : heap[b].title = Terminal}
    BY <2>1 DEF Titled, Used
  <2> QED
    BY <2>1, <2>2, <2>3, <2>4
<1>2. Sound => TerminalTracked
  BY <1>1 DEF Sound, Desktop, Tracked, TerminalTracked
<1> QED
  BY <1>2, SoundAlways, PTL

\* DragHoldsLive: a freed window is dragged only when the button went up between
\* update_drag and update_mouse_click of one frame (events.c:42-73, gui.c:24-30).
THEOREM DragAlwaysLive == Spec => []DragHoldsLive
<1>1. Sound => DragHoldsLive
  BY DEF Sound, Dragging
<1> QED
  BY <1>1, SoundAlways, PTL

\* ClickOnce: a click uses up a press of the button, wherever the interrupts of
\* the mouse fall (gui.c:24-30).
THEOREM OneClickPerPress == Spec => ClickOnce
<1>1. Sound /\ [Next]_vars => [TestClick /\ Released => armed]_vars
  BY DEF Sound, Pressed, TestClick, Released
<1> QED
  BY <1>1, SoundAlways, PTL DEF Spec, ClickOnce

\* LaunchShows: choosing a program puts its window on top, unless none could be
\* made or its window was destroyed under it (window_manager.c:146-163).
THEOREM LaunchAlwaysShows == Spec => LaunchShows
<1>1. ASSUME Desktop, NEW a \in Apps \ orphaned, Launch(a), app_window'[a] # NULL
      PROVE  Last(windows') \in Titled(a)'
  <2>1. Titled(a)' = {w \in Range(windows') : heap'[w] # NULL /\ heap'[w].title = a}
    BY DEF Titled
  <2>2. Desktop'
    BY <1>1, LaunchKeeps
  <2>3. Range(windows') = Used'
    BY <2>2 DEF Desktop, Exact
  <2> DEFINE w == app_window'[a]
  <2>4. w \in Used' /\ heap'[w] # NULL /\ heap'[w].title = a
    BY <1>1, <2>2 DEF Desktop, Tracked, Launch, Used
  <2>5. windows'[Len(windows')] = w
    <3>1. CASE HasWindow(a) /\ windows' = BringToFront(app_window[a])
               /\ UNCHANGED <<heap, app_window, app_canvas>>
      <4>1. app_window[a] \in Used /\ app_window[a] \in Blocks
        BY <1>1, <3>1 DEF HasWindow, Desktop, Tracked, Used
      <4> QED
        BY <1>1, <3>1, <4>1, BringKeeps DEF Desktop
    <3>2. ASSUME NEW b \in Blocks, NEW n \in 0..Len(Buttons(a)), NEW canvas \in BOOLEAN,
                 Create(a, b, n, canvas), app_window' = [app_window EXCEPT ![a] = b]
          PROVE  windows'[Len(windows')] = w
      <4>1. windows'[Len(windows')] = b
        BY <1>1, <3>2, CreateKeeps DEF Desktop, Titles
      <4>2. w = b
        BY <1>1, <3>2 DEF Desktop, Tracked
      <4> QED
        BY <4>1, <4>2
    <3>3. CASE ~HasWindow(a) /\ UNCHANGED app_window
      BY <1>1, <3>3 DEF HasWindow
    <3> QED
      BY <1>1, <3>1, <3>2, <3>3 DEF Launch
  <2> QED
    BY <2>1, <2>3, <2>4, <2>5 DEF Last
<1>2. Sound /\ [Next]_vars =>
        [\A a \in Apps \ orphaned : pc = "test" /\ Launch(a) /\ app_window'[a] # NULL
           => Last(windows') \in Titled(a)']_vars
  BY <1>1 DEF Sound
<1> QED
  BY <1>2, SoundAlways, PTL DEF Spec, LaunchShows

-----------------------------------------------------------------------------
(* The terminal.  What follows is about TerminalSpec, whose variables are  *)
(* not those above.                                                        *)

\* Induction: the least number for which a statement fails.
LEMMA LeastCounterexample ==
  ASSUME NEW S, S \subseteq Nat, S # {}
  PROVE  \E i \in S : i = 0 \/ i - 1 \in Nat \ S
<1>1. PICK i \in S : \A j \in S : ~(<<j, i>> \in OpToRel(<, Nat))
  BY NatLessThanWellFounded, WFMin, Zenon
<1>2. \A j \in S : ~(j < i)
  BY <1>1 DEF OpToRel
<1>3. QED  BY <1>2

-----------------------------------------------------------------------------
(* Counting the members of a set of positions up to a position. *)

Upto(B, p) == Cardinality({q \in B : q <= p})

\* The sets of positions counted are finite.
LEMMA PositionsFinite ==
  ASSUME NEW n \in Nat, NEW B, B \subseteq 1..n
  PROVE  \A T \in SUBSET B : IsFiniteSet(T) /\ Cardinality(T) \in Nat
<1>1. IsFiniteSet(1..n)
  BY FS_Interval
<1>2. IsFiniteSet(B)
  BY <1>1, FS_Subset
<1>3. QED  BY <1>2, FS_Subset, FS_CardinalityType

\* None up to 0, all up to the end.
LEMMA UptoEnds ==
  ASSUME NEW n \in Nat, NEW B, B \subseteq 1..n
  PROVE  Upto(B, 0) = 0 /\ Upto(B, n) = Cardinality(B) /\ Cardinality(B) \in Nat
<1>1. \A q \in B : q \in Nat /\ q > 0 /\ q <= n
  OBVIOUS
<1>2. {q \in B : q <= 0} = {} /\ {q \in B : q <= n} = B
  <2>1. \A q \in B : ~(q <= 0) /\ q <= n
    BY <1>1
  <2>2. QED  BY <2>1, Zenon
<1>3. QED  BY <1>2, FS_EmptySet, PositionsFinite DEF Upto

LEMMA UptoAt ==
  ASSUME NEW n \in Nat, NEW B, B \subseteq 1..n, NEW p \in Nat
  PROVE  /\ Upto(B, p) \in Nat
         /\ Cardinality({q \in B : q > p}) = Cardinality(B) - Upto(B, p)
<1> DEFINE low == {q \in B : q <= p}
           high == {q \in B : q > p}
<1>1. low \in SUBSET B /\ B \in SUBSET B
  OBVIOUS
<1>2. \A q \in B : q > p <=> ~(q <= p)
  OBVIOUS
<1>3. high = B \ low /\ B \cap low = low
  BY <1>2, Zenon
<1> HIDE DEF low, high
<1>4. IsFiniteSet(B) /\ Cardinality(low) \in Nat
  BY <1>1, PositionsFinite
<1>5. Cardinality(high) = Cardinality(B) - Cardinality(low)
  <2>1. Cardinality(B \ low) = Cardinality(B) - Cardinality(B \cap low)
    BY <1>4, FS_Difference, Zenon
  <2>2. QED  BY <1>3, <2>1, Zenon
<1>6. QED  BY <1>4, <1>5 DEF Upto, low, high

LEMMA UptoStep ==
  ASSUME NEW n \in Nat, NEW B, B \subseteq 1..n, NEW p \in Nat, NEW o, o = p + 1
  PROVE  Upto(B, o) = Upto(B, p) + (IF o \in B THEN 1 ELSE 0)
<1> DEFINE low == {q \in B : q <= p}
           next == {q \in B : q <= o}
<1>1. low \in SUBSET B
  OBVIOUS
<1>2. \A q \in B : (q <= o <=> q <= p \/ q = o) /\ (q <= p => q # o)
  OBVIOUS
<1>3. o \in B => next = low \cup {o} /\ o \notin low
  BY <1>2, Zenon
<1>4. o \notin B => next = low
  BY <1>2, Zenon
<1> HIDE DEF low, next
<1>5. IsFiniteSet(low) /\ Cardinality(low) \in Nat
  BY <1>1, PositionsFinite
<1>6. o \in B => Cardinality(next) = Cardinality(low) + 1
  BY <1>3, <1>5, FS_AddElement
<1>7. Cardinality(next) = Cardinality(low) + (IF o \in B THEN 1 ELSE 0)
  BY <1>4, <1>5, <1>6
<1>8. QED  BY <1>7 DEF Upto, low, next

\* Every count is reached at a member.
LEMMA CountReached ==
  ASSUME NEW n \in Nat, NEW B, B \subseteq 1..n, NEW k \in 1..Cardinality(B)
  PROVE  \E p \in B : Upto(B, p) = k
<1> DEFINE S == {p \in 0..n : Upto(B, p) >= k}
<1>0. Cardinality(B) \in Nat /\ Upto(B, 0) = 0 /\ Upto(B, n) = Cardinality(B)
  BY UptoEnds
<1>1. n \in S
  BY <1>0
<1>2. PICK p \in S : p = 0 \/ p - 1 \in Nat \ S
  <2>1. S \subseteq Nat /\ S # {}
    BY <1>1
  <2> HIDE DEF S
  <2>2. QED  BY <2>1, LeastCounterexample
<1>3. p # 0
  BY <1>0, <1>2
<1> DEFINE o == p - 1
<1>4. p \in 0..n /\ Upto(B, p) >= k /\ o \in Nat /\ p = o + 1 /\ ~(Upto(B, o) >= k)
  BY <1>2, <1>3
<1> HIDE DEF o, S
<1>5. Upto(B, o) \in Nat /\ Upto(B, p) = Upto(B, o) + (IF p \in B THEN 1 ELSE 0)
  BY <1>4, UptoAt, UptoStep
<1>6. p \in B /\ Upto(B, p) = k
  BY <1>0, <1>4, <1>5
<1>7. QED  BY <1>6

\* The picture starts behind a break, with at most MaxLines breaks to come.
LEMMA OffsetKeepsTail ==
  ASSUME NEW S, NEW s \in Seq(S)
  PROVE  /\ VisibleOffset(s) \in 0..Len(s)
         /\ VisibleOffset(s) > 0 => s[VisibleOffset(s)] = NL
         /\ Cardinality({p \in Breaks(s) : p > VisibleOffset(s)}) <= MaxLines
<1> DEFINE B == Breaks(s)
           skip == Cardinality(B) - MaxLines
           ends == {p \in B : Upto(B, p) = skip}
<1>1. Len(s) \in Nat /\ B \subseteq 1..Len(s) /\ \A p \in B : s[p] = NL
  BY DEF Breaks
<1>2. Cardinality(B) \in Nat
  BY <1>1, UptoEnds
<1>3. VisibleOffset(s) = IF skip > 0 THEN CHOOSE p \in ends : TRUE ELSE 0
  BY DEF VisibleOffset, LinesToSkip, Upto
<1> HIDE DEF B
<1>4. CASE skip > 0
  <2>1. skip \in 1..Cardinality(B)
    BY <1>2, <1>4, TerminalAssumption
  <2>2. \E p \in B : Upto(B, p) = skip
    BY <1>1, <2>1, CountReached
  <2>3. VisibleOffset(s) \in ends
    BY <1>3, <1>4, <2>2
  <2>4. /\ VisibleOffset(s) \in 1..Len(s) /\ s[VisibleOffset(s)] = NL
        /\ Upto(B, VisibleOffset(s)) = skip
    BY <1>1, <2>3
  <2>5. Cardinality({p \in B : p > VisibleOffset(s)}) = Cardinality(B) - skip
    <3>1. VisibleOffset(s) \in Nat
      BY <2>4
    <3> HIDE DEF skip
    <3>2. QED  BY <1>1, <2>4, <3>1, UptoAt
  <2>6. QED  BY <1>2, <2>4, <2>5, TerminalAssumption DEF B
<1>5. CASE ~(skip > 0)
  <2>1. VisibleOffset(s) = 0
    BY <1>3, <1>5
  <2>3. {p \in B : p > VisibleOffset(s)} = B
    <3>1. \A p \in B : p > VisibleOffset(s)
      BY <1>1, <2>1
    <3>2. QED  BY <3>1, Zenon
  <2>2. Cardinality(B) <= MaxLines
    BY <1>2, <1>5, TerminalAssumption
  <2>4. Cardinality({p \in B : p > VisibleOffset(s)}) <= MaxLines
    BY <2>2, <2>3, Zenon
  <2>5. VisibleOffset(s) \in 0..Len(s) /\ ~(VisibleOffset(s) > 0)
    BY <1>1, <2>1
  <2>6. QED  BY <2>4, <2>5, Zenon DEF B
<1>6. QED  BY <1>4, <1>5

-----------------------------------------------------------------------------
(* wrap_text. *)

LEMMA NextRemainder ==
  ASSUME NEW n \in Nat, NEW w \in Nat \ {0}
  PROVE  n % w \in 0..(w - 1) /\ (n + 1) % w = IF (n % w) + 1 < w THEN (n % w) + 1 ELSE 0
<1> DEFINE q == n \div w
           r == n % w
<1>1. q \in Int /\ r \in 0..(w - 1) /\ n = w * q + r
  OBVIOUS
<1> HIDE DEF q, r
<1>2. ASSUME NEW a \in Int, NEW b \in 0..(w - 1) PROVE (w * a + b) % w = b
  BY Z3
<1>3. CASE r + 1 < w
  <2>1. n + 1 = w * q + (r + 1) /\ r + 1 \in 0..(w - 1)
    BY <1>1, <1>3
  <2> DEFINE b == r + 1
  <2>2. b \in 0..(w - 1) /\ n + 1 = w * q + b
    BY <2>1
  <2> HIDE DEF b
  <2>3. (n + 1) % w = b
    BY <1>1, <1>2, <2>2
  <2>4. QED  BY <1>1, <1>3, <2>3 DEF b, r
<1>4. CASE ~(r + 1 < w)
  <2> DEFINE a == q + 1
  <2>1. n + 1 = w * a + 0 /\ a \in Int /\ 0 \in 0..(w - 1)
    BY <1>1, <1>4
  <2> HIDE DEF a
  <2>2. (w * a + 0) % w = 0
    BY <1>2, <2>1
  <2>3. (n + 1) % w = 0
    BY <2>1, <2>2
  <2>4. QED  BY <1>1, <1>4, <2>3 DEF r
<1>5. QED  BY <1>3, <1>4

\* first begins the line p is in.
LineAt(s, p, first) ==
  /\ first \in 1..p
  /\ first = 1 \/ s[first - 1] = NL
  /\ \A q \in first..p : s[q] # NL

\* The row p is in ends with p.
RowEnds(s, p) == \E first \in 1..p : LineAt(s, p, first) /\ (p - first + 1) % Width = 0

\* What count is, behind the first p characters.
RowSound(s, count, p) ==
  /\ count \in 0..(Width - 1)
  /\ p = 0 \/ s[p] = NL => count = 0
  /\ p > 0 /\ s[p] # NL => \E first \in 1..p : LineAt(s, p, first) /\ (p - first + 1) % Width = count

LEMMA LineStartsOnce ==
  ASSUME NEW s, NEW p \in Nat, NEW a, NEW b, LineAt(s, p, a), LineAt(s, p, b)
  PROVE  a = b
<1>1. ASSUME NEW c, NEW d, LineAt(s, p, c), LineAt(s, p, d), c < d PROVE FALSE
  <2>1. c \in 1..p /\ d \in 1..p /\ d # 1 /\ d - 1 \in c..p
    BY <1>1 DEF LineAt
  <2>2. s[d - 1] = NL /\ s[d - 1] # NL
    BY <1>1, <2>1 DEF LineAt
  <2>3. QED  BY <2>2
<1>2. a \in 1..p /\ b \in 1..p
  BY DEF LineAt
<1>3. QED  BY <1>1, <1>2

LEMMA RowStep ==
  ASSUME NEW s, NEW o \in Nat, NEW p, p = o + 1, NEW count, RowSound(s, count, o), s[p] # NL
  PROVE  /\ RowFull(count + 1) <=> RowEnds(s, p)
         /\ RowSound(s, IF RowFull(count + 1) THEN 0 ELSE count + 1, p)
<1>0. Width \in Nat \ {0} /\ count \in 0..(Width - 1) /\ p \in Nat /\ p > 0 /\ o = p - 1
  BY TerminalAssumption DEF RowSound
<1>1. \E first \in 1..p : /\ LineAt(s, p, first)
                          /\ (p - first + 1) % Width = IF RowFull(count + 1) THEN 0 ELSE count + 1
  <2>1. CASE o = 0 \/ s[o] = NL
    <3>1. count = 0 /\ LineAt(s, p, p)
      BY <1>0, <2>1 DEF RowSound, LineAt
    <3>2. p - p + 1 = 0 + 1 /\ 0 \in Nat
      BY <1>0
    <3>3. 0 % Width = 0
      BY <1>0
    <3>4. (0 + 1) % Width = IF 0 + 1 < Width THEN 0 + 1 ELSE 0
      BY <1>0, <3>3, NextRemainder
    <3>5. (p - p + 1) % Width = IF RowFull(count + 1) THEN 0 ELSE count + 1
      BY <1>0, <3>1, <3>2, <3>4 DEF RowFull
    <3>6. p \in 1..p
      BY <1>0
    <3>7. QED  BY <3>1, <3>5, <3>6
  <2>2. CASE o > 0 /\ s[o] # NL
    <3>1. PICK first \in 1..o : LineAt(s, o, first) /\ (o - first + 1) % Width = count
      BY <2>2 DEF RowSound
    <3>2. LineAt(s, p, first) /\ first \in 1..p
      BY <1>0, <3>1 DEF LineAt
    <3> DEFINE n == o - first + 1
    <3>3. n \in Nat /\ n + 1 = p - first + 1 /\ n % Width = count
      BY <1>0, <3>1
    <3> HIDE DEF n
    <3>4. (n + 1) % Width = IF (n % Width) + 1 < Width THEN (n % Width) + 1 ELSE 0
      BY <1>0, <3>3, NextRemainder
    <3>5. (n + 1) % Width = IF RowFull(count + 1) THEN 0 ELSE count + 1
      BY <1>0, <3>3, <3>4 DEF RowFull
    <3>6. QED  BY <3>2, <3>3, <3>5
  <2>3. QED  BY <2>1, <2>2
<1>2. PICK first \in 1..p : /\ LineAt(s, p, first)
                            /\ (p - first + 1) % Width = IF RowFull(count + 1) THEN 0 ELSE count + 1
  BY <1>1
<1>3. RowFull(count + 1) => RowEnds(s, p)
  BY <1>2 DEF RowEnds
<1>4. RowEnds(s, p) => RowFull(count + 1)
  <2>1. SUFFICES ASSUME NEW f \in 1..p, LineAt(s, p, f), (p - f + 1) % Width = 0
                 PROVE  RowFull(count + 1)
    BY DEF RowEnds
  <2>2. f = first
    BY <1>0, <1>2, <2>1, LineStartsOnce
  <2>3. QED  BY <1>0, <1>2, <2>1, <2>2
<1>5. RowSound(s, IF RowFull(count + 1) THEN 0 ELSE count + 1, p)
  <2>1. (IF RowFull(count + 1) THEN 0 ELSE count + 1) \in 0..(Width - 1)
    BY <1>0 DEF RowFull
  <2>2. QED  BY <1>0, <1>2, <2>1 DEF RowSound
<1>6. QED  BY <1>3, <1>4, <1>5

\* Where the character p of the text stands in the picture.
At(B, p) == p + Upto(B, p - 1)

\* What out is, behind the first p characters, with breaks behind those of B.
OutSound(s, B, out, p) ==
  /\ Len(out) = p + Upto(B, p)
  /\ \A q \in 1..p : At(B, q) \in 1..Len(out) /\ out[At(B, q)] = s[q]
  /\ \A q \in 1..p : q \in B => At(B, q) + 1 \in 1..Len(out) /\ out[At(B, q) + 1] = NL

LEMMA OutStep ==
  ASSUME NEW S, NL \in S, NEW s \in Seq(S), NEW B, B \subseteq 1..Len(s), NEW out \in Seq(S),
         NEW o \in Nat, NEW p, p = o + 1, p <= Len(s), OutSound(s, B, out, o),
         NEW more, more = IF p \in B THEN <<s[p], NL>> ELSE <<s[p]>>
  PROVE  out \o more \in Seq(S) /\ OutSound(s, B, out \o more, p)
<1> DEFINE new == out \o more
<1>1. p \in 1..Len(s) /\ s[p] \in S /\ Len(s) \in Nat /\ Len(out) \in Nat /\ o = p - 1
  OBVIOUS
<1>2. more \in Seq(S) /\ Len(more) = (IF p \in B THEN 2 ELSE 1) /\ more[1] = s[p]
        /\ (p \in B => more[2] = NL)
  BY <1>1
<1> HIDE DEF new
<1>3. /\ new \in Seq(S) /\ Len(new) = Len(out) + (IF p \in B THEN 2 ELSE 1)
      /\ \A i \in 1..Len(out) : new[i] = out[i]
      /\ new[Len(out) + 1] = s[p] /\ (p \in B => new[Len(out) + 2] = NL)
  BY <1>2 DEF new
<1>4. Upto(B, o) \in Nat /\ Upto(B, p) = Upto(B, o) + (IF p \in B THEN 1 ELSE 0)
  <2> DEFINE n == Len(s)
  <2>1. n \in Nat /\ B \subseteq 1..n
    BY <1>1
  <2> HIDE DEF n
  <2>2. Upto(B, o) \in Nat
    BY <2>1, UptoAt
  <2>3. QED  BY <2>1, <2>2, UptoStep
<1>5. Len(out) = o + Upto(B, o) /\ At(B, p) = Len(out) + 1
  BY <1>1, <1>4 DEF OutSound, At
<1>6. Len(new) = p + Upto(B, p)
  BY <1>1, <1>3, <1>4, <1>5
<1>7. ASSUME NEW q \in 1..p
      PROVE  /\ At(B, q) \in 1..Len(new) /\ new[At(B, q)] = s[q]
             /\ q \in B => At(B, q) + 1 \in 1..Len(new) /\ new[At(B, q) + 1] = NL
  <2>1. CASE q = p
    BY <1>1, <1>3, <1>5, <2>1
  <2>2. CASE q # p
    <3>1. q \in 1..o
      BY <1>1, <2>2
    <3>2. /\ At(B, q) \in 1..Len(out) /\ out[At(B, q)] = s[q]
          /\ q \in B => At(B, q) + 1 \in 1..Len(out) /\ out[At(B, q) + 1] = NL
      BY <3>1 DEF OutSound
    <3>3. \A i \in 1..Len(out) : i \in 1..Len(new)
      BY <1>1, <1>3
    <3>4. QED  BY <1>3, <3>2, <3>3
  <2>3. QED  BY <2>1, <2>2
<1>8. QED  BY <1>3, <1>6, <1>7 DEF OutSound, new

-----------------------------------------------------------------------------
WrapRound(s, f, p) == IF p = 0 THEN [out |-> <<>>, count |-> 0] ELSE WrapChar(s, f[p - 1], p)

Wraps(s, n, f) == f = [p \in 0..n |-> WrapRound(s, f, p)]

\* The recursion of WrapText defines a function.
LEMMA WrapExists ==
  ASSUME NEW s, NEW t \in Nat
  PROVE  \E f : Wraps(s, t, f)
<1> DEFINE Bad == {m \in Nat : ~\E f : Wraps(s, m, f)}
<1> SUFFICES ASSUME Bad # {} PROVE FALSE
  OBVIOUS
<1>1. PICK m \in Bad : m = 0 \/ m - 1 \in Nat \ Bad
  BY LeastCounterexample
<1>2. ASSUME NEW f, NEW g, NEW n \in Nat, n = 0 \/ f[n - 1] = g[n - 1]
      PROVE  WrapRound(s, f, n) = WrapRound(s, g, n)
  BY <1>2 DEF WrapRound
<1>3. CASE m = 0
  <2> DEFINE f == [n \in 0..0 |-> WrapRound(s, <<>>, n)]
  <2>1. \A n \in 0..0 : WrapRound(s, f, n) = WrapRound(s, <<>>, n)
    <3> HIDE DEF f
    <3>1. QED  BY <1>2
  <2>2. Wraps(s, 0, f)
    <3>1. f = [n \in 0..0 |-> WrapRound(s, <<>>, n)]
      OBVIOUS
    <3> HIDE DEF f
    <3>2. QED  BY <2>1, <3>1, Zenon DEF Wraps
  <2>3. QED  BY <1>3, <2>2
<1>4. CASE m # 0
  <2>1. PICK f : Wraps(s, m - 1, f)
    BY <1>1, <1>4
  <2> DEFINE g == [n \in 0..m |-> WrapRound(s, f, n)]
  <2>2. \A n \in 0..m : g[n] = WrapRound(s, f, n)
    OBVIOUS
  <2>3. f = [n \in 0..(m - 1) |-> WrapRound(s, f, n)]
    BY <2>1, Zenon DEF Wraps
  <2>4. \A n \in 0..(m - 1) : f[n] = WrapRound(s, f, n)
    BY <2>3, Zenon
  <2>5. g = [n \in 0..m |-> WrapRound(s, f, n)]
    OBVIOUS
  <2> HIDE DEF g
  <2>6. \A n \in 0..m : WrapRound(s, f, n) = WrapRound(s, g, n)
    <3>1. ASSUME NEW n \in 0..m PROVE n = 0 \/ f[n - 1] = g[n - 1]
      BY <2>2, <2>4
    <3>2. QED  BY <1>2, <3>1
  <2>7. Wraps(s, m, g)
    BY <2>5, <2>6, Zenon DEF Wraps
  <2>8. QED  BY <2>7
<1>5. QED  BY <1>3, <1>4

\* One character: what WrapChar appends and counts.
LEMMA WrapCharStep ==
  ASSUME NEW S, NL \in S, NEW s \in Seq(S), NEW o \in Nat, NEW p, p = o + 1, p <= Len(s),
         NEW acc, acc.out \in Seq(S), RowSound(s, acc.count, o), OutSound(s, BrokenAfter(s), acc.out, o)
  PROVE  /\ WrapChar(s, acc, p).out \in Seq(S)
         /\ RowSound(s, WrapChar(s, acc, p).count, p)
         /\ OutSound(s, BrokenAfter(s), WrapChar(s, acc, p).out, p)
<1> DEFINE B == BrokenAfter(s)
           new == WrapChar(s, acc, p)
           more == IF p \in B THEN <<s[p], NL>> ELSE <<s[p]>>
           full == RowFull(acc.count + 1)
<1>1. p \in 1..Len(s) /\ p \in DOMAIN s /\ p \in Nat /\ p # 0 /\ s[p] \in S /\ B \subseteq 1..Len(s)
  BY DEF BrokenAfter
<1>2. p \in B <=> s[p] # NL /\ (p < Len(s) => s[p + 1] # NL) /\ RowEnds(s, p)
  BY <1>1 DEF BrokenAfter, RowEnds, LineAt
<1>3. CASE s[p] = NL
  <2>1. new = [out |-> Append(acc.out, NL), count |-> 0] /\ p \notin B
    BY <1>2, <1>3 DEF WrapChar
  <2>2. Append(acc.out, NL) = acc.out \o <<s[p]>>
    BY <1>3
  <2>3. new.out = acc.out \o more /\ new.count = 0
    <3>1. more = <<s[p]>>
      BY <2>1
    <3>2. new.out = Append(acc.out, NL) /\ new.count = 0
      BY <2>1
    <3> HIDE DEF more, new
    <3>3. QED  BY <2>2, <3>1, <3>2
  <2>4. RowSound(s, 0, p)
    BY <1>1, <1>3, TerminalAssumption DEF RowSound
  <2> HIDE DEF B, new
  <2>5. acc.out \o more \in Seq(S) /\ OutSound(s, B, acc.out \o more, p)
    <3>1. OutSound(s, B, acc.out, o)
      BY DEF B
    <3>2. QED  BY <1>1, <3>1, OutStep
  <2>6. QED  BY <2>3, <2>4, <2>5 DEF B, new
<1>4. CASE s[p] # NL
  <2>1. full <=> RowEnds(s, p)
    BY <1>4, RowStep
  <2>2. RowSound(s, IF full THEN 0 ELSE acc.count + 1, p)
    BY <1>4, RowStep
  <2>3. new = IF ~full THEN [out |-> Append(acc.out, s[p]), count |-> acc.count + 1]
              ELSE [out |-> acc.out \o (IF p < Len(s) /\ s[p+1] = NL THEN <<s[p]>> ELSE <<s[p], NL>>),
                    count |-> 0]
    BY <1>4 DEF WrapChar
  <2>4. Append(acc.out, s[p]) = acc.out \o <<s[p]>>
    BY <1>1, AppendIsConcat
  <2> HIDE DEF full, new
  <2>5. new.count = (IF full THEN 0 ELSE acc.count + 1)
    BY <2>3
  <2>6. new.out = acc.out \o more
    BY <1>2, <1>4, <2>1, <2>3, <2>4
  <2> HIDE DEF B
  <2>7. acc.out \o more \in Seq(S) /\ OutSound(s, B, acc.out \o more, p)
    <3>1. OutSound(s, B, acc.out, o)
      BY DEF B
    <3>2. QED  BY <1>1, <3>1, OutStep
  <2>8. QED  BY <2>2, <2>5, <2>6, <2>7 DEF B, new
<1>5. QED  BY <1>3, <1>4

\* The picture of a text is the text, its characters in their order, with a
\* break behind each full row that is followed by more of its line.
THEOREM WrapTextWraps ==
  ASSUME NEW S, NL \in S, NEW s \in Seq(S)
  PROVE  /\ WrapText(s) \in Seq(S)
         /\ Len(WrapText(s)) <= 2 * Len(s)
         /\ IsWrapped(WrapText(s), s)
<1> DEFINE n == Len(s)
           B == BrokenAfter(s)
           f == CHOOSE g : Wraps(s, n, g)
           Good(p) == f[p].out \in Seq(S) /\ RowSound(s, f[p].count, p) /\ OutSound(s, B, f[p].out, p)
           Bad == {p \in 0..n : ~Good(p)}
<1>0. n \in Nat /\ B \subseteq 1..n
  BY DEF BrokenAfter
<1>1. Wraps(s, n, f)
  <2>1. \E g : Wraps(s, n, g)
    BY <1>0, WrapExists
  <2>2. QED  BY <2>1, Zenon
<1>2. WrapText(s) = f[n].out
  BY DEF WrapText, Wraps, WrapRound
<1> HIDE DEF f
<1>3. \A p \in 0..n : f[p] = WrapRound(s, f, p)
  <2>1. f = [p \in 0..n |-> WrapRound(s, f, p)]
    BY <1>1, Zenon DEF Wraps
  <2>2. QED  BY <2>1, Zenon
<1>4. Bad = {}
  <2> SUFFICES ASSUME Bad # {} PROVE FALSE
    OBVIOUS
  <2>1. PICK p \in Bad : p = 0 \/ p - 1 \in Nat \ Bad
    <3>1. Bad \subseteq Nat
      OBVIOUS
    <3> HIDE DEF Bad
    <3>2. QED  BY <3>1, LeastCounterexample
  <2>2. p \in 0..n /\ ~Good(p)
    BY <2>1
  <2>3. CASE p = 0
    <3>1. f[0] = [out |-> <<>>, count |-> 0]
      BY <1>3, <2>2, <2>3 DEF WrapRound
    <3>2. RowSound(s, 0, 0)
      BY TerminalAssumption DEF RowSound
    <3>3. Upto(B, 0) = 0
      <4> HIDE DEF n, B
      <4>1. QED  BY <1>0, UptoEnds
    <3>4. OutSound(s, B, <<>>, 0)
      BY <3>3 DEF OutSound
    <3>5. Good(0)
      BY <3>1, <3>2, <3>4
    <3>6. QED  BY <2>2, <2>3, <3>5
  <2>4. CASE p # 0
    <3> DEFINE o == p - 1
    <3>1. o \in Nat /\ o \in 0..n /\ p = o + 1 /\ p <= n /\ Good(o)
      BY <1>0, <2>1, <2>2, <2>4
    <3>2. f[p] = WrapChar(s, f[o], p)
      BY <1>3, <2>2, <2>4 DEF WrapRound
    <3> HIDE DEF o
    <3>3. Good(p)
      BY <3>1, <3>2, WrapCharStep
    <3>4. QED  BY <2>2, <3>3
  <2>5. QED  BY <2>3, <2>4
<1>5. Good(n)
  BY <1>0, <1>4
<1> HIDE DEF Bad
<1> DEFINE r == f[n].out
<1>6. r \in Seq(S) /\ OutSound(s, B, r, n)
  BY <1>5
<1>7. Upto(B, n) = Cardinality(B) /\ Cardinality(B) \in Nat /\ Cardinality(B) <= n
  <2> HIDE DEF n, B
  <2>1. Upto(B, n) = Cardinality(B) /\ Cardinality(B) \in Nat
    BY <1>0, UptoEnds
  <2>2. IsFiniteSet(1..n) /\ Cardinality(1..n) = n
    BY <1>0, FS_Interval
  <2>3. QED  BY <1>0, <2>1, <2>2, FS_Subset
<1> HIDE DEF r, Good
<1>8. Len(r) = n + Cardinality(B)
  BY <1>6, <1>7 DEF OutSound
<1>9. \A p \in 1..n : p + Cardinality({q \in B : q < p}) = At(B, p)
  <2>1. \A p \in 1..n : {q \in B : q < p} = {q \in B : q <= p - 1}
    <3>1. \A p \in 1..n : \A q \in B : q < p <=> q <= p - 1
      BY <1>0
    <3>2. QED  BY <3>1, Zenon
  <2>2. QED  BY <2>1, Zenon DEF At, Upto
<1>10. IsWrapped(r, s)
  <2>1. \A p \in DOMAIN s : r[p + Cardinality({q \in B : q < p})] = s[p]
    BY <1>6, <1>9 DEF OutSound
  <2>2. \A p \in B : r[p + Cardinality({q \in B : q < p}) + 1] = NL
    BY <1>0, <1>6, <1>9 DEF OutSound
  <2>3. QED  BY <1>8, <2>1, <2>2, Zenon DEF IsWrapped, B, n
<1>11. QED  BY <1>0, <1>2, <1>6, <1>7, <1>8, <1>10 DEF r

-----------------------------------------------------------------------------
(* terminal_print. *)

Buffers == [0..(Size - 1) -> Signs \cup {NUL}]

\* A text, with its buffer terminated at the latest by the last byte.
Typed(t) == t = <<t[1], t[2]>> /\ t[1] \in Buffers /\ t[2] \in 0..(Size - 1) /\ t[1][Size - 1] = NUL

\* The first terminator is the one at the index.
Tidy(t) == t[1][t[2]] = NUL /\ \A p \in 0..(t[2] - 1) : t[1][p] # NUL

\* The text ends with the prompt and the line l.
Echoes(t, l) ==
  LET first == t[2] - 1 - Len(l)
  IN first >= 0 /\ t[1][first] = Prompt /\ \A i \in 1..Len(l) : t[1][first + i] = l[i]

\* Printing keeps the terminator at the index, and advances the index by what fits.
LEMMA PrintedKeeps ==
  ASSUME NEW t, Typed(t), NEW s \in Seq(Signs)
  PROVE  /\ Typed(Printed(t, s))
         /\ Tidy(t) => Tidy(Printed(t, s))
         /\ Printed(t, s)[2] = t[2] + Fits(Len(s), t[2])
         /\ Fits(Len(s), t[2]) \in 0..Len(s)
<1> DEFINE b == t[1]
           n == t[2]
           k == Fits(Len(s), n)
           m == n + k
           c == [p \in 0..(Size - 1) |-> IF p \in n..(m - 1) THEN s[p - n + 1]
                                         ELSE IF p = m /\ k > 0 THEN NUL ELSE b[p]]
<1>1. /\ Size \in Nat /\ Size > 7 /\ NUL \notin Signs
      /\ n \in 0..(Size - 1) /\ b \in Buffers /\ b[Size - 1] = NUL /\ Len(s) \in Nat
  BY TerminalAssumption DEF Typed
<1>2. k \in 0..Len(s) /\ m \in 0..(Size - 1) /\ n <= m /\ (~(k > 0) => m = n) /\ m = n + k
  BY <1>1 DEF Fits, Least
<1>3. Printed(t, s) = <<c, m>>
  <2>1. n + k - 1 = m - 1
    <3> HIDE DEF n, k, m
    <3>1. QED  BY <1>1, <1>2
  <2>2. QED  BY <2>1, Zenon DEF Printed
<1> HIDE DEF k, b, n, m
<1>4. \A p \in n..(m - 1) : s[p - n + 1] \in Signs
  BY <1>1, <1>2
<1>5. c \in Buffers
  BY <1>1, <1>4 DEF Buffers
<1>6. c[Size - 1] = NUL
  BY <1>1, <1>2
<1>7. \A p \in 0..m : c[p] = IF p \in n..(m - 1) THEN s[p - n + 1]
                             ELSE IF p = m /\ k > 0 THEN NUL ELSE b[p]
  <2>1. \A p \in 0..m : p \in 0..(Size - 1)
    BY <1>1, <1>2
  <2>2. QED  BY <2>1
<1> HIDE DEF c
<1>8. ASSUME b[n] = NUL, \A p \in 0..(n - 1) : b[p] # NUL
      PROVE  c[m] = NUL /\ \A p \in 0..(m - 1) : c[p] # NUL
  <2>1. c[m] = NUL
    BY <1>1, <1>2, <1>7, <1>8
  <2>2. ASSUME NEW p \in 0..(m - 1) PROVE c[p] # NUL
    <3>1. p \in 0..m /\ p # m /\ (p \in n..(m - 1) \/ p \in 0..(n - 1))
      BY <1>1, <1>2
    <3>2. QED  BY <1>1, <1>4, <1>7, <1>8, <3>1
  <2>3. QED  BY <2>1, <2>2
<1>9. Typed(Printed(t, s)) /\ Printed(t, s)[2] = n + k
  BY <1>2, <1>3, <1>5, <1>6 DEF Typed
<1>10. Tidy(t) => Tidy(Printed(t, s))
  <2>1. Tidy(t) => c[m] = NUL /\ \A p \in 0..(m - 1) : c[p] # NUL
    BY <1>8 DEF Tidy, b, n
  <2>2. Printed(t, s)[1] = c /\ Printed(t, s)[2] = m
    BY <1>3
  <2>3. QED  BY <2>1, <2>2 DEF Tidy
<1>11. QED  BY <1>2, <1>9, <1>10 DEF k, n

\* A single character that fits is at the end of the text, behind what was there.
LEMMA PrintedChar ==
  ASSUME NEW t, Typed(t), NEW c \in Signs, Fits(1, t[2]) # 0
  PROVE  /\ Printed(t, <<c>>)[2] = t[2] + 1
         /\ Printed(t, <<c>>)[1][t[2]] = c
         /\ \A p \in 0..(t[2] - 1) : Printed(t, <<c>>)[1][p] = t[1][p]
<1> DEFINE n == t[2]
           new == [p \in 0..(Size - 1) |-> IF p \in n..(n + 1 - 1) THEN <<c>>[p - n + 1]
                                           ELSE IF p = n + 1 /\ 1 > 0 THEN NUL ELSE t[1][p]]
<1>1. n \in 0..(Size - 1) /\ Size \in Nat /\ Len(<<c>>) = 1
  BY TerminalAssumption DEF Typed
<1>2. Fits(1, n) = 1
  BY <1>1 DEF Fits, Least
<1>3. Printed(t, <<c>>) = <<new, n + 1>>
  BY <1>1, <1>2 DEF Printed
<1>4. new[n] = c
  BY <1>1
<1>5. \A p \in 0..(n - 1) : new[p] = t[1][p]
  BY <1>1
<1> HIDE DEF new
<1>6. QED  BY <1>3, <1>4, <1>5

\* What a reader of the buffer takes, and that it takes all of a tidy text.
LEMMA ShownReads ==
  ASSUME Typed(text)
  PROVE  /\ Shown \in Seq(Signs) /\ Len(Shown) \in 0..(Size - 1)
         /\ \A i \in 1..Len(Shown) : Shown[i] = terminal_buffer[i - 1]
         /\ Tidy(text) => Len(Shown) = terminal_buffer_index
<1> DEFINE First(p) == terminal_buffer[p] = NUL /\ \A q \in 0..(p - 1) : terminal_buffer[q] # NUL
           n == CHOOSE p \in 0..(Size - 1) : First(p)
           all == [p \in 1..Size |-> terminal_buffer[p - 1]]
<1>1. /\ Size \in Nat /\ Size > 7 /\ NUL \notin Signs
      /\ terminal_buffer_index \in 0..(Size - 1) /\ terminal_buffer \in [0..(Size - 1) -> Signs \cup {NUL}]
      /\ terminal_buffer[Size - 1] = NUL
  BY TerminalAssumption DEF Typed, text, Buffers
<1>2. \E p \in 0..(Size - 1) : First(p)
  <2> DEFINE S == {p \in 0..(Size - 1) : \E q \in 0..p : terminal_buffer[q] = NUL}
  <2>1. Size - 1 \in S
    BY <1>1
  <2>2. PICK p \in S : p = 0 \/ p - 1 \in Nat \ S
    <3>1. S \subseteq 0..(Size - 1)
      OBVIOUS
    <3> HIDE DEF S
    <3>2. S \subseteq Nat
      BY <1>1, <3>1
    <3>3. S # {}
      BY <2>1
    <3>4. QED  BY <3>2, <3>3, LeastCounterexample
  <2>3. p \in 0..(Size - 1) /\ \E q \in 0..p : terminal_buffer[q] = NUL
    BY <2>2
  <2>4. \A q \in 0..(p - 1) : terminal_buffer[q] # NUL
    BY <1>1, <2>2, <2>3
  <2>5. First(p)
    BY <1>1, <2>3, <2>4
  <2>6. QED  BY <2>3, <2>5
<1>3. n \in 0..(Size - 1) /\ First(n)
  BY <1>2
<1>4. Shown = SubSeq(all, 1, n)
  BY DEF Shown
<1> HIDE DEF n
<1>5. /\ Shown = [i \in 1..n |-> terminal_buffer[i - 1]]
      /\ \A i \in 1..n : terminal_buffer[i - 1] \in Signs
  <2>1. all \in Seq(Signs \cup {NUL}) /\ Len(all) = Size
    BY <1>1
  <2>2. \A i \in 1..n : all[i] = terminal_buffer[i - 1] /\ i - 1 \in 0..(n - 1) /\ i - 1 \in 0..(Size - 1)
    BY <1>1, <1>3
  <2>3. SubSeq(all, 1, n) = [i \in 1..n |-> all[i]]
    <3> HIDE DEF all
    <3>1. QED  BY <1>1, <1>3, <2>1
  <2> HIDE DEF all
  <2>4. [i \in 1..n |-> all[i]] = [i \in 1..n |-> terminal_buffer[i - 1]]
    BY <2>2
  <2>5. \A i \in 1..n : terminal_buffer[i - 1] \in Signs
    BY <1>1, <1>3, <2>2
  <2>6. QED  BY <1>4, <2>3, <2>4, <2>5
<1>6. n \in Nat /\ Shown \in Seq(Signs) /\ Len(Shown) = n
  BY <1>1, <1>3, <1>5
<1>7. \A i \in 1..Len(Shown) : Shown[i] = terminal_buffer[i - 1]
  BY <1>5, <1>6
<1>8. Tidy(text) => n = terminal_buffer_index
  BY <1>1, <1>3 DEF Tidy, text
<1>9. QED  BY <1>3, <1>6, <1>7, <1>8

-----------------------------------------------------------------------------
(* The invariant. *)

\* The text is terminated at its index, and ends with the prompt and the line,
\* unless a key fell into the opening of the window.
TextSound ==
  /\ terminal_buffer[Size - 1] = NUL
  /\ ~split /\ ~Opening =>
       Tidy(text) /\ (garbled \/ Echoes(text, input_line))
  /\ main_at \in {"clear_first", "print_copy", "print_advance"} => terminal_buffer_index <= Size - 2
  /\ ~split /\ Opening =>
       /\ terminal_buffer_index = IF main_at = "print_end" THEN 1 ELSE 0
       /\ garbled \/ input_line = <<>>
       /\ main_at \in {"print_advance", "print_end"} => terminal_buffer[0] = Prompt

\* The cache is that of the text from the end of the wrapping on.
PictureSound ==
  /\ main_at = "set_valid" => ~valid /\ (key_raced \/ IsWrapped(terminal_wrapped_cache, Shown))
  /\ ValidIsFresh
  /\ DrawsTail

TerminalSound == TerminalTypeOK /\ TextSound /\ PictureSound

-----------------------------------------------------------------------------
(* What the invariant gives. *)

\* A text that ends with the prompt and the line shows them at its end.
LEMMA EchoIsSuffix ==
  ASSUME Typed(text), Tidy(text), input_line \in Seq(Chars), Echoes(text, input_line)
  PROVE  IsSuffix(<<Prompt>> \o input_line, Shown)
<1> DEFINE s == <<Prompt>> \o input_line
           k == Len(input_line)
           n == terminal_buffer_index
           first == n - 1 - k
<1>1. /\ k \in Nat /\ n \in Nat /\ first >= 0 /\ terminal_buffer[first] = Prompt
      /\ \A i \in 1..k : terminal_buffer[first + i] = input_line[i]
  BY DEF Typed, Echoes, text
<1>2. s \in Seq(Signs) /\ Len(s) = k + 1 /\ s[1] = Prompt /\ \A i \in 1..k : s[i + 1] = input_line[i]
  BY DEF Signs
<1>3. Shown \in Seq(Signs) /\ Len(Shown) = n /\ \A i \in 1..n : Shown[i] = terminal_buffer[i - 1]
  BY ShownReads
<1> HIDE DEF s, k, n
<1>4. \A i \in 1..(k + 1) : s[k + 1 - i + 1] = Shown[n - i + 1]
  <2> SUFFICES ASSUME NEW i \in 1..(k + 1) PROVE s[k + 1 - i + 1] = Shown[n - i + 1]
    OBVIOUS
  <2> DEFINE j == k + 1 - i
  <2>1. j \in 0..k /\ n - i + 1 \in 1..n /\ n - i = first + j
    BY <1>1
  <2>2. Shown[n - i + 1] = terminal_buffer[first + j]
    BY <1>1, <1>3, <2>1
  <2>3. CASE j = 0
    BY <1>1, <1>2, <2>1, <2>2, <2>3
  <2>4. CASE j \in 1..k
    BY <1>1, <1>2, <2>2, <2>4
  <2>5. QED  BY <1>1, <2>1, <2>3, <2>4
<1> DEFINE rs == Reverse(s)
           rt == Reverse(Shown)
<1>5. /\ rs \in Seq(Signs) /\ Len(rs) = k + 1 /\ \A i \in 1..(k + 1) : rs[i] = s[k + 1 - i + 1]
      /\ rt \in Seq(Signs) /\ Len(rt) = n /\ \A i \in 1..n : rt[i] = Shown[n - i + 1]
  <2>1. ASSUME NEW x \in Seq(Signs), NEW d \in Nat, Len(x) = d
        PROVE  /\ Reverse(x) \in Seq(Signs) /\ Len(Reverse(x)) = d
               /\ \A i \in 1..d : Reverse(x)[i] = x[d - i + 1]
    <3>1. Reverse(x) = [i \in 1..d |-> x[(d - i) + 1]]
      BY <2>1, Zenon DEF Reverse
    <3>2. \A i \in 1..d : x[(d - i) + 1] \in Signs /\ x[(d - i) + 1] = x[d - i + 1]
      BY <2>1
    <3>3. QED  BY <3>1, <3>2
  <2>2. k + 1 \in Nat
    BY <1>1
  <2>3. QED  BY <1>1, <1>2, <1>3, <2>1, <2>2
<1> HIDE DEF rs, rt
<1>6. k + 1 <= n
  BY <1>1
<1>7. SubSeq(rs, 1, k + 1) = SubSeq(rt, 1, k + 1)
  <2>1. SubSeq(rs, 1, k + 1) = [i \in 1..(k + 1) |-> rs[i]]
    BY <1>1, <1>5
  <2>2. SubSeq(rt, 1, k + 1) = [i \in 1..(k + 1) |-> rt[i]]
    BY <1>1, <1>5, <1>6
  <2>3. ASSUME NEW i \in 1..(k + 1) PROVE rs[i] = rt[i]
    <3>1. i \in 1..n
      BY <1>1, <1>6
    <3>2. rs[i] = s[k + 1 - i + 1] /\ rt[i] = Shown[n - i + 1]
      BY <1>5, <3>1
    <3>3. QED  BY <1>4, <3>2, Zenon
  <2>4. QED  BY <2>1, <2>2, <2>3
<1>8. IsPrefix(rs, rt)
  BY <1>5, <1>6, <1>7 DEF IsPrefix
<1>9. QED  BY <1>8 DEF IsSuffix, rs, rt, s

\* The three properties the run checks follow.
LEMMA SoundShows ==
  ASSUME TerminalSound
  PROVE  LineOnScreen /\ ValidIsFresh /\ DrawsTail
<1>1. Typed(text)
  BY DEF TerminalSound, TerminalTypeOK, TextSound, Typed, text, Buffers
<1>2. ASSUME ~garbled, ~split, ~Opening
      PROVE  IsSuffix(<<Prompt>> \o input_line, Shown)
  BY <1>1, <1>2, EchoIsSuffix DEF TerminalSound, TerminalTypeOK, TextSound
<1>3. QED  BY <1>2 DEF TerminalSound, PictureSound, LineOnScreen

-----------------------------------------------------------------------------
(* Every step keeps it: first what each does to the picture. *)

LEMMA SoundText ==
  ASSUME TerminalSound
  PROVE  /\ Typed(text) /\ terminal_buffer \in Buffers /\ terminal_buffer_index \in 0..(Size - 1)
         /\ Size \in Nat /\ Size > 7 /\ NUL \notin Signs /\ InputMax \in Nat
  BY TerminalAssumption DEF TerminalSound, TerminalTypeOK, TextSound, Typed, text, Buffers

\* The text init_gui leaves.
LEMMA TerminalInitSound == TerminalInit => TerminalSound
<1> SUFFICES ASSUME TerminalInit PROVE TerminalSound
  OBVIOUS
<1>1. Size \in Nat /\ Size > 7 /\ InputMax \in Nat \ {0} /\ NUL \notin Signs /\ Prompt \in Signs
  BY TerminalAssumption DEF Signs
<1>2. TerminalTypeOK
  BY <1>1 DEF TerminalInit, TerminalTypeOK
<1>3. TextSound
  <2>1. terminal_buffer[0] = Prompt /\ terminal_buffer[1] = NUL /\ terminal_buffer[Size - 1] = NUL
    BY <1>1 DEF TerminalInit
  <2>2. Tidy(text)
    BY <1>1, <2>1 DEF TerminalInit, Tidy, text
  <2>3. Echoes(text, input_line)
    BY <2>1 DEF TerminalInit, Echoes, text
  <2>4. QED  BY <2>1, <2>2, <2>3 DEF TerminalInit, TextSound, Opening
<1>4. PictureSound
  BY DEF TerminalInit, PictureSound, ValidIsFresh, DrawsTail
<1>5. QED  BY <1>2, <1>3, <1>4 DEF TerminalSound

\* What is read of the buffer depends on the buffer alone.
LEMMA ShownFollows == terminal_buffer' = terminal_buffer => Shown' = Shown
  BY DEF Shown

\* A key takes the mark from the picture, and a key in a redraw is remembered.
LEMMA KeyKeepsPicture ==
  ASSUME TerminalSound, Key
  PROVE  /\ PictureSound'
         /\ terminal_wrapped_cache' \in Seq(Signs) /\ Len(terminal_wrapped_cache') < 2 * Size
         /\ terminal_visible_offset' \in 0..2*Size
         /\ valid' \in BOOLEAN /\ key_raced' \in BOOLEAN
         /\ open' = open /\ main_at' = main_at
<1>1. Size \in Nat /\ Size > 7
  BY TerminalAssumption
<1>2. valid' = FALSE /\ main_at' = main_at /\ open' = open
  BY DEF Key, ValidAfterKey
<1>3. CASE Redrawing
  <2>1. terminal_wrapped_cache' = terminal_wrapped_cache /\ terminal_visible_offset' = terminal_visible_offset
    BY <1>3 DEF Key, picture
  <2>2. key_raced' = TRUE
    BY <1>3 DEF Key
  <2>3. DrawsTail'
    BY <1>2, <2>1 DEF TerminalSound, PictureSound, DrawsTail, Breaks
  <2>4. QED
    BY <1>2, <2>1, <2>2, <2>3 DEF TerminalSound, PictureSound, TerminalTypeOK, ValidIsFresh
<1>4. CASE ~Redrawing
  <2>1. terminal_wrapped_cache' = <<>> /\ terminal_visible_offset' = 0
    BY <1>2, <1>4 DEF Key, NoPicture
  <2>2. key_raced' = key_raced /\ main_at' # "set_valid"
    BY <1>2, <1>4 DEF Key, Redrawing, TerminalSound, TerminalTypeOK
  <2>3. PictureSound'
    BY <1>2, <2>2 DEF PictureSound, ValidIsFresh, DrawsTail
  <2>4. key_raced' \in BOOLEAN /\ valid' \in BOOLEAN
    BY <1>2, <2>2 DEF TerminalSound, TerminalTypeOK
  <2>5. <<>> \in Seq(Signs) /\ Len(<<>>) < 2 * Size /\ 0 \in 0..2*Size
    BY <1>1
  <2>6. QED  BY <1>2, <2>1, <2>3, <2>4, <2>5
<1>5. QED  BY <1>3, <1>4

\* The steps of main that leave the text, the line and the flags on them.
LEMMA TextKept ==
  ASSUME TerminalSound,
         UNCHANGED <<terminal_buffer, terminal_buffer_index, input_line, garbled, split>>,
         main_at' = main_at \/ (~Opening /\ ~Opening')
  PROVE  TextSound'
<1>1. Opening' = Opening /\ text' = text
  BY DEF Opening, text
<1>2. main_at' = main_at \/ main_at' \notin {"clear_first", "print_copy", "print_advance", "print_end"}
  BY DEF Opening
<1>3. QED  BY <1>1, <1>2 DEF TerminalSound, TextSound, Tidy, Echoes

\* The redraw: wrap_text and update_visible_offset.
LEMMA WrapSound == TerminalSound /\ Wrap => TerminalSound'
<1> SUFFICES ASSUME TerminalSound, Wrap PROVE TerminalSound'
  OBVIOUS
<1> DEFINE r == WrapText(Shown)
<1>1. Typed(text) /\ Size \in Nat /\ Size > 7
  BY SoundText
<1>2. Shown \in Seq(Signs) /\ Len(Shown) \in 0..(Size - 1) /\ Shown' = Shown
  BY <1>1, ShownReads, ShownFollows DEF Wrap, text
<1>3. r \in Seq(Signs) /\ Len(r) <= 2 * Len(Shown) /\ IsWrapped(r, Shown)
  <2>1. NL \in Signs
    BY DEF Signs
  <2>2. QED  BY <1>2, <2>1, WrapTextWraps
<1>4. Len(r) \in Nat /\ Len(r) < 2 * Size
  <2>1. Len(r) \in Nat /\ Len(Shown) \in 0..(Size - 1)
    BY <1>2, <1>3
  <2> HIDE DEF r
  <2>2. QED  BY <1>1, <1>3, <2>1
<1> HIDE DEF r
<1>5. /\ terminal_wrapped_cache' = r /\ terminal_visible_offset' = VisibleOffset(r)
      /\ valid' = FALSE /\ valid = FALSE /\ main_at' = "set_valid" /\ main_at = "frame" /\ key_raced' = FALSE
      /\ UNCHANGED <<terminal_buffer, terminal_buffer_index, input_line, open, garbled, split>>
  BY DEF Wrap, Step, text, r, TerminalSound, TerminalTypeOK
<1>6. TextSound'
  BY <1>5, TextKept DEF Opening
<1>7. DrawsTail' /\ terminal_visible_offset' \in 0..2*Size
  <2> DEFINE o == VisibleOffset(r)
  <2>1. /\ o \in 0..Len(r) /\ (o > 0 => r[o] = NL)
        /\ Cardinality({p \in Breaks(r) : p > o}) <= MaxLines
    BY <1>3, OffsetKeepsTail
  <2>2. terminal_visible_offset' = o
    BY <1>5
  <2> HIDE DEF o
  <2>3. o \in 0..2*Size
    BY <1>1, <1>4, <2>1
  <2>4. Breaks(terminal_wrapped_cache)' = Breaks(r)
    BY <1>5 DEF Breaks
  <2>5. {p \in Breaks(terminal_wrapped_cache) : p > terminal_visible_offset}' = {p \in Breaks(r) : p > o}
    BY <2>2, <2>4
  <2>6. QED  BY <1>5, <2>1, <2>2, <2>3, <2>5 DEF DrawsTail
<1>8. PictureSound'
  <2>1. IsWrapped(terminal_wrapped_cache, Shown)'
    <3>1. terminal_wrapped_cache' = r
      BY <1>5
    <3>2. QED  BY <1>2, <1>3, <3>1
  <2>2. QED  BY <1>5, <1>7, <2>1 DEF PictureSound, ValidIsFresh
<1>9. TerminalTypeOK'
  BY <1>3, <1>4, <1>5, <1>7 DEF TerminalSound, TerminalTypeOK
<1>10. QED  BY <1>6, <1>8, <1>9 DEF TerminalSound

LEMMA SetValidSound == TerminalSound /\ SetValid => TerminalSound'
<1> SUFFICES ASSUME TerminalSound, SetValid PROVE TerminalSound'
  OBVIOUS
<1>1. /\ valid' = TRUE /\ main_at = "set_valid" /\ main_at' = "frame"
      /\ UNCHANGED <<terminal_buffer, terminal_buffer_index, input_line, terminal_wrapped_cache,
                     terminal_visible_offset, open, garbled, key_raced, split>>
  BY DEF SetValid, Step, text, picture
<1>2. TextSound'
  BY <1>1, TextKept DEF Opening
<1>3. IsWrapped(terminal_wrapped_cache, Shown)' <=> IsWrapped(terminal_wrapped_cache, Shown)
  BY <1>1, ShownFollows DEF IsWrapped, BrokenAfter
<1>4. PictureSound'
  BY <1>1, <1>3 DEF TerminalSound, PictureSound, ValidIsFresh, Fresh, DrawsTail
<1>5. TerminalTypeOK'
  BY <1>1 DEF TerminalSound, TerminalTypeOK
<1>6. QED  BY <1>2, <1>4, <1>5 DEF TerminalSound

LEMMA CloseWindowSound == TerminalSound /\ CloseWindow => TerminalSound'
<1> SUFFICES ASSUME TerminalSound, CloseWindow PROVE TerminalSound'
  OBVIOUS
<1>1. /\ open' = FALSE /\ main_at' = main_at /\ main_at = "frame"
      /\ UNCHANGED <<terminal_buffer, terminal_buffer_index, input_line, terminal_wrapped_cache,
                     terminal_visible_offset, valid, garbled, key_raced, split>>
  BY DEF CloseWindow, text, picture
<1>2. TextSound'
  BY <1>1, TextKept
<1>3. IsWrapped(terminal_wrapped_cache, Shown)' <=> IsWrapped(terminal_wrapped_cache, Shown)
  BY <1>1, ShownFollows DEF IsWrapped, BrokenAfter
<1>4. PictureSound'
  BY <1>1, <1>3 DEF TerminalSound, PictureSound, ValidIsFresh, Fresh, DrawsTail
<1>5. TerminalTypeOK'
  BY <1>1 DEF TerminalSound, TerminalTypeOK
<1>6. QED  BY <1>2, <1>4, <1>5 DEF TerminalSound

\* While the window is being opened nothing is claimed of the picture.
LEMMA NoPictureDue ==
  ASSUME main_at' # "set_valid", main_at' # "frame" \/ valid' = FALSE
  PROVE  PictureSound'
  BY DEF PictureSound, ValidIsFresh, DrawsTail

\* The stores of the opening, one by one.
LEMMA OpenWindowSound == TerminalSound /\ OpenWindow => TerminalSound'
<1> SUFFICES ASSUME TerminalSound, OpenWindow PROVE TerminalSound'
  OBVIOUS
<1>1. Size \in Nat /\ Size > 7
  BY SoundText
<1>2. /\ main_at' = "clear_first" /\ terminal_buffer_index' = 0
      /\ garbled' = (input_line # <<>>) /\ split' = FALSE
      /\ UNCHANGED <<terminal_buffer, input_line, terminal_wrapped_cache, terminal_visible_offset, valid, open, key_raced>>
  BY DEF OpenWindow, Step, picture
<1>3. TextSound'
  <2>1. garbled' \/ input_line' = <<>>
    BY <1>2
  <2>2. terminal_buffer'[Size - 1] = NUL
    BY <1>2 DEF TerminalSound, TextSound
  <2>3. terminal_buffer_index' <= Size - 2
    BY <1>1, <1>2
  <2>4. QED  BY <1>2, <2>1, <2>2, <2>3 DEF TextSound, Opening
<1>4. PictureSound'
  BY <1>2, NoPictureDue
<1>5. TerminalTypeOK'
  <2>1. garbled' \in BOOLEAN /\ split' \in BOOLEAN
    BY <1>2
  <2>2. terminal_buffer_index' \in 0..(Size - 1)
    BY <1>1, <1>2
  <2>3. QED  BY <1>2, <2>1, <2>2 DEF TerminalSound, TerminalTypeOK
<1>6. QED  BY <1>3, <1>4, <1>5 DEF TerminalSound

LEMMA ClearFirstSound == TerminalSound /\ ClearFirst => TerminalSound'
<1> SUFFICES ASSUME TerminalSound, ClearFirst PROVE TerminalSound'
  OBVIOUS
<1>1. Size \in Nat /\ Size > 7 /\ terminal_buffer \in Buffers
  BY SoundText
<1>2. /\ main_at' = "print_copy" /\ main_at = "clear_first" /\ valid' = FALSE
      /\ terminal_buffer' = [terminal_buffer EXCEPT ![0] = NUL]
      /\ terminal_wrapped_cache' = <<>> /\ terminal_visible_offset' = 0
      /\ UNCHANGED <<terminal_buffer_index, input_line, open, garbled, key_raced, split>>
  BY DEF ClearFirst, Step, NoPicture
<1>3. terminal_buffer' \in Buffers /\ terminal_buffer'[Size - 1] = terminal_buffer[Size - 1]
  BY <1>1, <1>2 DEF Buffers
<1>4. TextSound'
  BY <1>2, <1>3 DEF TerminalSound, TextSound, Opening
<1>5. PictureSound'
  BY <1>2, NoPictureDue
<1>6. TerminalTypeOK'
  BY <1>1, <1>2, <1>3 DEF TerminalSound, TerminalTypeOK, Buffers
<1>7. QED  BY <1>4, <1>5, <1>6 DEF TerminalSound

LEMMA PrintCopySound == TerminalSound /\ PrintCopy => TerminalSound'
<1> SUFFICES ASSUME TerminalSound, PrintCopy PROVE TerminalSound'
  OBVIOUS
<1>1. /\ Size \in Nat /\ Size > 7 /\ terminal_buffer \in Buffers /\ terminal_buffer_index \in 0..(Size - 1)
      /\ Prompt \in Signs
  BY SoundText DEF Signs
<1>2. /\ main_at' = "print_advance" /\ main_at = "print_copy"
      /\ terminal_buffer' = [terminal_buffer EXCEPT ![terminal_buffer_index] = Prompt]
      /\ UNCHANGED <<terminal_buffer_index, input_line, terminal_wrapped_cache, terminal_visible_offset,
                     valid, open, garbled, key_raced, split>>
  BY DEF PrintCopy, Step, picture
<1>3. terminal_buffer_index <= Size - 2
  BY <1>2 DEF TerminalSound, TextSound
<1>4. /\ terminal_buffer' \in Buffers /\ terminal_buffer'[Size - 1] = terminal_buffer[Size - 1]
      /\ terminal_buffer'[terminal_buffer_index] = Prompt
  BY <1>1, <1>2, <1>3 DEF Buffers
<1>5. TextSound'
  BY <1>2, <1>3, <1>4 DEF TerminalSound, TextSound, Opening
<1>6. PictureSound'
  BY <1>2, NoPictureDue
<1>7. TerminalTypeOK'
  BY <1>2, <1>4 DEF TerminalSound, TerminalTypeOK, Buffers
<1>8. QED  BY <1>5, <1>6, <1>7 DEF TerminalSound

LEMMA PrintAdvanceSound == TerminalSound /\ PrintAdvance => TerminalSound'
<1> SUFFICES ASSUME TerminalSound, PrintAdvance PROVE TerminalSound'
  OBVIOUS
<1>1. Size \in Nat /\ Size > 7 /\ terminal_buffer_index \in 0..(Size - 1)
  BY SoundText
<1>2. /\ main_at' = "print_end" /\ main_at = "print_advance"
      /\ terminal_buffer_index' = terminal_buffer_index + 1
      /\ UNCHANGED <<terminal_buffer, input_line, terminal_wrapped_cache, terminal_visible_offset,
                     valid, open, garbled, key_raced, split>>
  BY DEF PrintAdvance, Step, picture
<1>3. terminal_buffer_index' \in 0..(Size - 1)
  BY <1>1, <1>2 DEF TerminalSound, TextSound
<1>4. TextSound'
  BY <1>1, <1>2 DEF TerminalSound, TextSound, Opening
<1>5. PictureSound'
  BY <1>2, NoPictureDue
<1>6. TerminalTypeOK'
  BY <1>2, <1>3 DEF TerminalSound, TerminalTypeOK
<1>7. QED  BY <1>4, <1>5, <1>6 DEF TerminalSound

LEMMA PrintEndSound == TerminalSound /\ PrintEnd => TerminalSound'
<1> SUFFICES ASSUME TerminalSound, PrintEnd PROVE TerminalSound'
  OBVIOUS
<1>1. /\ Size \in Nat /\ Size > 7 /\ terminal_buffer \in Buffers /\ terminal_buffer_index \in 0..(Size - 1)
      /\ NUL \notin Signs /\ Prompt \in Signs
  BY SoundText DEF Signs
<1>2. /\ main_at' = "frame" /\ main_at = "print_end" /\ valid' = FALSE /\ open' = TRUE
      /\ terminal_buffer' = [terminal_buffer EXCEPT ![terminal_buffer_index] = NUL]
      /\ terminal_wrapped_cache' = <<>> /\ terminal_visible_offset' = 0
      /\ UNCHANGED <<terminal_buffer_index, input_line, garbled, key_raced, split>>
  BY DEF PrintEnd, Step, NoPicture
<1>3. /\ terminal_buffer' \in Buffers /\ terminal_buffer'[terminal_buffer_index] = NUL
      /\ terminal_buffer'[Size - 1] = NUL
      /\ \A p \in 0..(Size - 1) : p # terminal_buffer_index => terminal_buffer'[p] = terminal_buffer[p]
  BY <1>1, <1>2 DEF Buffers, TerminalSound, TextSound
<1>4. ASSUME ~split PROVE Tidy(text)' /\ (garbled \/ Echoes(text, input_line))'
  <2>1. /\ terminal_buffer_index = 1 /\ terminal_buffer[0] = Prompt
        /\ garbled \/ input_line = <<>>
    BY <1>2, <1>4 DEF TerminalSound, TextSound, Opening
  <2>2. terminal_buffer'[1] = NUL /\ terminal_buffer'[0] = Prompt /\ terminal_buffer_index' = 1
    BY <1>1, <1>2, <1>3, <2>1
  <2>3. Tidy(text)'
    BY <1>1, <2>2 DEF Tidy, text
  <2>4. ASSUME ~garbled PROVE Echoes(text, input_line)'
    <3>1. input_line' = <<>>
      BY <1>2, <2>1, <2>4
    <3>2. QED  BY <2>2, <3>1 DEF Echoes, text
  <2>5. QED  BY <1>2, <2>3, <2>4
<1>5. TextSound'
  BY <1>2, <1>3, <1>4 DEF TextSound, Opening
<1>6. PictureSound'
  BY <1>2, NoPictureDue
<1>7. TerminalTypeOK'
  <2>1. /\ terminal_wrapped_cache' \in Seq(Signs) /\ Len(terminal_wrapped_cache') < 2 * Size
        /\ terminal_visible_offset' \in 0..2*Size
    BY <1>1, <1>2
  <2>2. QED  BY <1>2, <1>3, <2>1 DEF TerminalSound, TerminalTypeOK, Buffers
<1>8. QED  BY <1>5, <1>6, <1>7 DEF TerminalSound

\* What is left to show of a key: the text and the line.
LEMMA KeySound ==
  ASSUME TerminalSound, Key, TextSound',
         terminal_buffer' \in Buffers, terminal_buffer_index' \in 0..(Size - 1),
         input_line' \in Seq(Chars), Len(input_line') < InputMax,
         garbled' \in BOOLEAN, split' \in BOOLEAN
  PROVE  TerminalSound'
<1>1. TerminalTypeOK'
  BY KeyKeepsPicture DEF TerminalSound, TerminalTypeOK, Buffers
<1>2. QED  BY <1>1, KeyKeepsPicture DEF TerminalSound

\* A key leaves main where it is; in the opening it is the first, on a short text.
LEMMA KeyPlace ==
  ASSUME TerminalSound, Key
  PROVE  /\ main_at' = main_at /\ Opening' = Opening /\ Opening \in BOOLEAN /\ split \in BOOLEAN
         /\ Opening => ~split /\ terminal_buffer_index \in {0, 1}
         /\ main_at \in {"clear_first", "print_copy", "print_advance"} => Opening /\ terminal_buffer_index = 0
<1>1. main_at' = main_at
  BY DEF Key
<1>2. Opening => ~split
  BY DEF Key
<1>3. split \in BOOLEAN /\ Opening \in BOOLEAN
  BY DEF TerminalSound, TerminalTypeOK, Opening
<1>4. Opening => terminal_buffer_index = IF main_at = "print_end" THEN 1 ELSE 0
  BY <1>2 DEF TerminalSound, TextSound
<1>5. QED  BY <1>1, <1>2, <1>3, <1>4 DEF Opening

\* clear_terminal_buffer leaves an empty text.
LEMMA ClearedTidy ==
  ASSUME NEW t, Typed(t)
  PROVE  Typed(Cleared(t)) /\ Tidy(Cleared(t)) /\ Cleared(t)[2] = 0
<1> DEFINE b == [t[1] EXCEPT ![0] = NUL]
<1>1. Size \in Nat /\ Size > 7 /\ t[1] \in Buffers /\ t[1][Size - 1] = NUL
  BY TerminalAssumption DEF Typed
<1>2. b \in Buffers /\ b[Size - 1] = NUL /\ b[0] = NUL
  BY <1>1 DEF Buffers
<1> HIDE DEF b
<1>3. Cleared(t) = <<b, 0>>
  BY DEF Cleared, b
<1>4. QED  BY <1>1, <1>2, <1>3 DEF Typed, Tidy

\* A command's answer is at most three characters.
LEMMA ExecutedKeeps ==
  ASSUME NEW t, Typed(t)
  PROVE  /\ Typed(Executed(t)) /\ Executed(t)[2] <= t[2] + 3
         /\ Tidy(t) \/ input_line = ClearLine => Tidy(Executed(t))
<1>0. ClearLine # <<>> /\ Size \in Nat /\ t[2] \in 0..(Size - 1)
  BY TerminalAssumption DEF Typed
<1>1. CASE input_line = <<>>
  <2>1. Executed(t) = t
    BY <1>1 DEF Executed
  <2>2. QED  BY <1>0, <1>1, <2>1
<1>2. CASE input_line # <<>> /\ input_line = ClearLine
  <2>1. Executed(t) = Cleared(t)
    BY <1>2 DEF Executed
  <2>2. QED  BY <1>0, <2>1, ClearedTidy
<1>3. CASE input_line # <<>> /\ input_line # ClearLine
  <2> DEFINE s == <<Answer, CR, NL>>
  <2>1. Executed(t) = Printed(t, s)
    BY <1>3 DEF Executed
  <2>2. s \in Seq(Signs) /\ Len(s) = 3
    BY DEF Signs
  <2> HIDE DEF s
  <2>3. /\ Typed(Printed(t, s)) /\ (Tidy(t) => Tidy(Printed(t, s)))
        /\ Printed(t, s)[2] = t[2] + Fits(Len(s), t[2]) /\ Fits(Len(s), t[2]) \in 0..Len(s)
    BY <2>2, PrintedKeeps
  <2>4. QED  BY <1>0, <1>3, <2>1, <2>2, <2>3
<1>4. QED  BY <1>1, <1>2, <1>3

\* Enter: a new prompt, and an empty line behind it.
LEMMA EnterSound == TerminalSound /\ Enter => TerminalSound'
<1> SUFFICES ASSUME TerminalSound, Enter PROVE TerminalSound'
  OBVIOUS
<1> DEFINE first == Printed(text, <<CR, NL>>)
           before == Executed(first)
           after == Printed(before, <<Prompt>>)
<1>0. Size \in Nat /\ Size > 7 /\ InputMax \in Nat \ {0} /\ Typed(text) /\ Prompt \in Signs
  BY SoundText, TerminalAssumption DEF Signs
<1>1. /\ Key
      /\ terminal_buffer' = after[1] /\ terminal_buffer_index' = after[2]
      /\ garbled' = (before[2] = after[2]) /\ input_line' = <<>>
      /\ split' = (Opening \/ (split /\ input_line # ClearLine))
  BY Zenon DEF Enter, Become
<1>2. Typed(first) /\ (Tidy(text) => Tidy(first)) /\ first[2] <= terminal_buffer_index + 2
  <2> DEFINE s == <<CR, NL>>
  <2>1. s \in Seq(Signs) /\ Len(s) = 2
    BY DEF Signs
  <2>2. text[2] = terminal_buffer_index /\ terminal_buffer_index \in 0..(Size - 1)
    BY SoundText DEF text
  <2> HIDE DEF s
  <2>3. /\ Typed(Printed(text, s)) /\ (Tidy(text) => Tidy(Printed(text, s)))
        /\ Printed(text, s)[2] = text[2] + Fits(Len(s), text[2]) /\ Fits(Len(s), text[2]) \in 0..Len(s)
    BY <1>0, <2>1, PrintedKeeps
  <2>4. QED  BY <1>0, <2>1, <2>2, <2>3 DEF s
<1> HIDE DEF first
<1>3. /\ Typed(before) /\ before[2] <= first[2] + 3
      /\ Tidy(first) \/ input_line = ClearLine => Tidy(before)
  BY <1>2, ExecutedKeeps
<1> HIDE DEF before
<1>4. /\ Typed(after) /\ (Tidy(before) => Tidy(after))
      /\ after[2] = before[2] + Fits(1, before[2]) /\ Fits(1, before[2]) \in 0..1
  <2>1. <<Prompt>> \in Seq(Signs) /\ Len(<<Prompt>>) = 1
    BY <1>0
  <2>2. QED  BY <1>3, <2>1, PrintedKeeps
<1>5. Fits(1, before[2]) # 0 => after[1][before[2]] = Prompt /\ after[2] = before[2] + 1
  BY <1>0, <1>3, PrintedChar
<1> HIDE DEF after
<1>6. /\ terminal_buffer' \in Buffers /\ terminal_buffer_index' \in 0..(Size - 1)
      /\ terminal_buffer'[Size - 1] = NUL /\ text' = after
      /\ before[2] \in 0..(Size - 1) /\ first[2] \in 0..(Size - 1) /\ terminal_buffer_index \in 0..(Size - 1)
  BY <1>1, <1>2, <1>3, <1>4, SoundText DEF Typed, text
<1>7. /\ main_at' = main_at /\ Opening' = Opening
      /\ main_at \in {"clear_first", "print_copy", "print_advance"} => Opening /\ terminal_buffer_index = 0
  BY <1>1, KeyPlace
<1>8. main_at' \in {"clear_first", "print_copy", "print_advance"} => terminal_buffer_index' <= Size - 2
  BY <1>0, <1>1, <1>2, <1>3, <1>4, <1>6, <1>7
<1>9. Opening' => split'
  BY <1>1, <1>7
<1>10. ASSUME ~split', ~Opening' PROVE Tidy(text)' /\ (garbled \/ Echoes(text, input_line))'
  <2>1. Tidy(before)
    BY <1>1, <1>2, <1>3, <1>7, <1>10 DEF TerminalSound, TextSound
  <2>2. Tidy(text)'
    <3>1. Tidy(after)
      BY <1>4, <2>1
    <3>2. QED  BY <1>6, <3>1 DEF Tidy
  <2>3. ASSUME ~garbled' PROVE Echoes(text, input_line)'
    <3>1. after[2] # before[2]
      BY <1>1, <2>3
    <3>2. after[1][before[2]] = Prompt /\ after[2] = before[2] + 1
      BY <1>4, <1>5, <1>6, <3>1
    <3>3. after[2] - 1 - 0 = before[2] /\ before[2] >= 0
      BY <1>6, <3>2
    <3>4. Echoes(after, <<>>)
      BY <3>2, <3>3 DEF Echoes
    <3>5. QED  BY <1>1, <1>6, <3>4 DEF Echoes
  <2>4. QED  BY <2>2, <2>3
<1>11. TextSound'
  BY <1>6, <1>8, <1>9, <1>10 DEF TextSound
<1>12. garbled' \in BOOLEAN /\ split' \in BOOLEAN
  BY <1>1
<1>13. input_line' \in Seq(Chars) /\ Len(input_line') < InputMax
  BY <1>0, <1>1
<1>14. QED  BY <1>1, <1>6, <1>11, <1>12, <1>13, KeySound

\* Backspace and a character leave the text sound if the new text is.
LEMMA EditSound ==
  ASSUME TerminalSound, Key, split' = (split \/ Opening), garbled' \in BOOLEAN,
         terminal_buffer' \in Buffers, terminal_buffer'[Size - 1] = NUL,
         terminal_buffer_index' \in 0..(Size - 1), terminal_buffer_index' <= terminal_buffer_index + 1,
         input_line' \in Seq(Chars), Len(input_line') < InputMax,
         Tidy(text) /\ (garbled \/ Echoes(text, input_line))
           => Tidy(text)' /\ (garbled \/ Echoes(text, input_line))'
  PROVE  TerminalSound'
<1>1. Size \in Nat /\ Size > 7 /\ terminal_buffer_index \in 0..(Size - 1)
  BY SoundText
<1>2. /\ main_at' = main_at /\ Opening' = Opening
      /\ Opening \in BOOLEAN /\ split \in BOOLEAN
      /\ main_at \in {"clear_first", "print_copy", "print_advance"} => Opening /\ terminal_buffer_index = 0
  BY KeyPlace
<1>3. main_at' \in {"clear_first", "print_copy", "print_advance"} => terminal_buffer_index' <= Size - 2
  BY <1>1, <1>2
<1>4. ASSUME ~split', ~Opening' PROVE Tidy(text)' /\ (garbled \/ Echoes(text, input_line))'
  BY <1>2, <1>4 DEF TerminalSound, TextSound
<1>5. Opening' => split'
  BY <1>2
<1>6. TextSound'
  BY <1>3, <1>4, <1>5 DEF TextSound
<1>7. split' \in BOOLEAN
  BY <1>2
<1>8. QED  BY <1>6, <1>7, KeySound

\* Backspace takes the last character from the text and from the line.
LEMMA BackspaceSound == TerminalSound /\ Backspace => TerminalSound'
<1> SUFFICES ASSUME TerminalSound, Backspace PROVE TerminalSound'
  OBVIOUS
<1> DEFINE b == terminal_buffer
           n == terminal_buffer_index
           k == Len(input_line)
<1>1. /\ Size \in Nat /\ Size > 7 /\ b \in Buffers /\ n \in 0..(Size - 1) /\ b[Size - 1] = NUL
      /\ input_line \in Seq(Chars) /\ k \in Nat /\ k < InputMax /\ InputMax \in Nat /\ garbled \in BOOLEAN
  BY SoundText DEF TerminalSound, TerminalTypeOK, TextSound
<1>2. Key /\ garbled' = garbled /\ split' = (split \/ Opening)
  BY DEF Backspace
<1>3. CASE input_line = <<>> /\ UNCHANGED <<text, input_line>>
  <2>1. text' = text /\ terminal_buffer' = b /\ terminal_buffer_index' = n /\ input_line' = input_line
    BY <1>3 DEF text
  <2>2. Tidy(text) /\ (garbled \/ Echoes(text, input_line))
          => Tidy(text)' /\ (garbled \/ Echoes(text, input_line))'
    BY <1>2, <2>1 DEF Tidy, Echoes
  <2>3. QED  BY <1>1, <1>2, <2>1, <2>2, EditSound
<1>4. CASE input_line # <<>> /\ input_line' = Front(input_line) /\ Become(WithoutLast)
  <2>1. /\ k > 0 /\ input_line' \in Seq(Chars) /\ Len(input_line') = k - 1
        /\ \A i \in 1..(k - 1) : input_line'[i] = input_line[i]
    <3>1. k > 0
      BY <1>1, <1>4
    <3>2. Front(input_line) = SubSeq(input_line, 1, k - 1)
      BY DEF Front
    <3>3. /\ SubSeq(input_line, 1, k - 1) \in Seq(Chars) /\ Len(SubSeq(input_line, 1, k - 1)) = k - 1
          /\ \A i \in 1..(k - 1) : SubSeq(input_line, 1, k - 1)[i] = input_line[i]
      <4>1. ASSUME NEW l \in Seq(Chars), NEW j \in 0..Len(l)
            PROVE  /\ SubSeq(l, 1, j) \in Seq(Chars) /\ Len(SubSeq(l, 1, j)) = j
                   /\ \A i \in 1..j : SubSeq(l, 1, j)[i] = l[i]
        OBVIOUS
      <4>2. k - 1 \in 0..k
        BY <1>1, <3>1
      <4>3. QED  BY <1>1, <4>1, <4>2
    <3>4. QED  BY <1>4, <3>1, <3>2, <3>3, Zenon
  <2>2. CASE n = 0
    <3>1. terminal_buffer' = b /\ terminal_buffer_index' = n /\ text' = text
      BY <1>4, <2>2 DEF Become, WithoutLast, text
    <3>2. ~Echoes(text, input_line)
      BY <1>1, <2>2 DEF Echoes, text
    <3>3. Tidy(text) /\ (garbled \/ Echoes(text, input_line))
            => Tidy(text)' /\ (garbled \/ Echoes(text, input_line))'
      BY <1>2, <3>1, <3>2 DEF Tidy
    <3>4. QED  BY <1>1, <1>2, <2>1, <3>1, <3>3, EditSound
  <2>3. CASE n > 0
    <3>1. /\ terminal_buffer' = [b EXCEPT ![n - 1] = NUL] /\ terminal_buffer_index' = n - 1
          /\ text' = <<terminal_buffer', terminal_buffer_index'>>
      BY <1>4, <2>3 DEF Become, WithoutLast, text
    <3>2. /\ terminal_buffer' \in Buffers /\ terminal_buffer'[n - 1] = NUL
          /\ \A p \in 0..(Size - 1) : p # n - 1 => terminal_buffer'[p] = b[p]
      BY <1>1, <2>3, <3>1 DEF Buffers
    <3>3. terminal_buffer'[Size - 1] = NUL /\ n - 1 \in 0..(Size - 1)
      BY <1>1, <2>3, <3>2
    <3>4. Tidy(text) => Tidy(text)'
      <4>1. \A p \in 0..(n - 1 - 1) : terminal_buffer'[p] = b[p] /\ p \in 0..(n - 1)
        BY <1>1, <3>2
      <4>2. QED  BY <1>1, <3>1, <3>2, <4>1 DEF Tidy, text
    <3>5. Echoes(text, input_line) => Echoes(text, input_line)'
      <4> SUFFICES ASSUME Echoes(text, input_line) PROVE Echoes(text, input_line)'
        OBVIOUS
      <4> DEFINE first == n - 1 - k
      <4>1. first >= 0 /\ b[first] = Prompt /\ \A i \in 1..k : b[first + i] = input_line[i]
        BY DEF Echoes, text
      <4>2. n - 1 - 1 - (k - 1) = first /\ first \in 0..(n - 2)
        BY <1>1, <2>1, <4>1
      <4>3. terminal_buffer'[first] = Prompt
        BY <1>1, <2>3, <3>2, <4>1, <4>2
      <4>4. ASSUME NEW i \in 1..(k - 1) PROVE terminal_buffer'[first + i] = input_line'[i]
        <5>1. first + i \in 0..(n - 2) /\ i \in 1..k
          BY <1>1, <4>1
        <5>2. QED  BY <1>1, <2>1, <3>2, <4>1, <5>1
      <4> HIDE DEF first
      <4>5. Len(input_line') = k - 1 /\ terminal_buffer_index' = n - 1 /\ first >= 0
        BY <1>1, <2>1, <3>1, <4>2
      <4>6. (terminal_buffer_index - 1 - Len(input_line))' = first
        BY <4>2, <4>5
      <4>7. QED  BY <3>1, <4>3, <4>4, <4>5, <4>6 DEF Echoes, text
    <3>6. terminal_buffer_index' <= n + 1 /\ Len(input_line') < InputMax
      BY <1>1, <2>1, <3>1
    <3>7. Tidy(text) /\ (garbled \/ Echoes(text, input_line))
            => Tidy(text)' /\ (garbled \/ Echoes(text, input_line))'
      BY <1>2, <3>4, <3>5
    <3>8. QED  BY <1>1, <1>2, <2>1, <3>1, <3>2, <3>3, <3>6, <3>7, EditSound
  <2>4. QED  BY <1>1, <2>2, <2>3
<1>5. QED  BY <1>3, <1>4 DEF Backspace

\* A character goes to the end of both, or garbles the screen when it does not fit.
LEMMA TypeSound == \A c \in Chars : TerminalSound /\ Type(c) => TerminalSound'
<1> SUFFICES ASSUME NEW c \in Chars, TerminalSound, Type(c) PROVE TerminalSound'
  OBVIOUS
<1> DEFINE b == terminal_buffer
           n == terminal_buffer_index
           k == Len(input_line)
<1>1. /\ Size \in Nat /\ Size > 7 /\ b \in Buffers /\ n \in 0..(Size - 1) /\ b[Size - 1] = NUL
      /\ input_line \in Seq(Chars) /\ k \in Nat /\ k < InputMax /\ InputMax \in Nat /\ garbled \in BOOLEAN
      /\ Typed(text) /\ text[1] = b /\ text[2] = n /\ c \in Signs
  BY SoundText DEF TerminalSound, TerminalTypeOK, TextSound, text, Signs
<1>2. Key /\ split' = (split \/ Opening)
  BY DEF Type
<1>3. CASE k >= InputMax - 1 /\ UNCHANGED <<text, input_line, garbled>>
  <2>1. /\ text' = text /\ terminal_buffer' = b /\ terminal_buffer_index' = n
        /\ input_line' = input_line /\ garbled' = garbled
    BY <1>3 DEF text
  <2>2. Tidy(text) /\ (garbled \/ Echoes(text, input_line))
          => Tidy(text)' /\ (garbled \/ Echoes(text, input_line))'
    BY <2>1 DEF Tidy, Echoes
  <2>3. QED  BY <1>1, <1>2, <2>1, <2>2, EditSound
<1>4. CASE /\ k < InputMax - 1 /\ input_line' = Append(input_line, c)
           /\ Become(Printed(text, <<c>>)) /\ garbled' = (garbled \/ Fits(1, n) = 0)
  <2> DEFINE new == Printed(text, <<c>>)
  <2>1. /\ Typed(new) /\ (Tidy(text) => Tidy(new))
        /\ new[2] = n + Fits(1, n) /\ Fits(1, n) \in 0..1
        /\ Fits(1, n) # 0 => /\ new[2] = n + 1 /\ new[1][n] = c
                              /\ \A p \in 0..(n - 1) : new[1][p] = b[p]
    <3>1. <<c>> \in Seq(Signs) /\ Len(<<c>>) = 1
      BY <1>1
    <3>2. /\ Typed(new) /\ (Tidy(text) => Tidy(new))
          /\ new[2] = n + Fits(1, n) /\ Fits(1, n) \in 0..1
      BY <1>1, <3>1, PrintedKeeps
    <3>3. QED  BY <1>1, <3>2, PrintedChar
  <2> HIDE DEF new
  <2>2. /\ text' = new /\ terminal_buffer' = new[1] /\ terminal_buffer_index' = new[2]
        /\ new[1] \in Buffers /\ new[1][Size - 1] = NUL /\ new[2] \in 0..(Size - 1) /\ new[2] <= n + 1
    BY <1>1, <1>4, <2>1 DEF Become, text, Typed, new
  <2>3. /\ input_line' \in Seq(Chars) /\ Len(input_line') = k + 1 /\ Len(input_line') < InputMax
        /\ input_line'[k + 1] = c /\ \A i \in 1..k : input_line'[i] = input_line[i]
    BY <1>1, <1>4
  <2>4. ASSUME Echoes(text, input_line), ~garbled' PROVE Echoes(text, input_line)'
    <3> DEFINE first == n - 1 - k
    <3>1. first >= 0 /\ b[first] = Prompt /\ \A i \in 1..k : b[first + i] = input_line[i]
      BY <2>4 DEF Echoes, text
    <3>2. new[2] = n + 1 /\ new[1][n] = c /\ \A p \in 0..(n - 1) : new[1][p] = b[p]
      BY <1>4, <2>1, <2>4
    <3>3. new[2] - 1 - (k + 1) = first /\ first \in 0..(n - 1) /\ first + (k + 1) = n
      BY <1>1, <3>1, <3>2
    <3>4. new[1][first] = Prompt
      BY <3>1, <3>2, <3>3
    <3>5. ASSUME NEW i \in 1..(k + 1) PROVE new[1][first + i] = input_line'[i]
      <4>1. CASE i = k + 1
        BY <2>3, <3>2, <3>3, <4>1
      <4>2. CASE i # k + 1
        <5>1. i \in 1..k /\ first + i \in 0..(n - 1)
          BY <1>1, <3>1, <4>2
        <5>2. QED  BY <2>3, <3>1, <3>2, <5>1
      <4>3. QED  BY <4>1, <4>2
    <3> HIDE DEF first
    <3>6. QED  BY <2>2, <2>3, <3>3, <3>4, <3>5 DEF Echoes
  <2>5. Tidy(text) /\ (garbled \/ Echoes(text, input_line))
          => Tidy(text)' /\ (garbled \/ Echoes(text, input_line))'
    <3>1. garbled => garbled'
      BY <1>4
    <3>2. Tidy(text) => Tidy(text)'
      BY <2>1, <2>2 DEF Tidy
    <3>3. QED  BY <2>4, <3>1, <3>2
  <2>6. garbled' \in BOOLEAN
    BY <1>1, <1>4
  <2>7. QED  BY <1>1, <1>2, <2>2, <2>3, <2>5, <2>6, EditSound
<1>5. QED  BY <1>3, <1>4 DEF Type

-----------------------------------------------------------------------------
(* The theorems. *)

LEMMA TerminalStays == TerminalSound /\ UNCHANGED terminal_vars => TerminalSound'
<1> SUFFICES ASSUME TerminalSound, UNCHANGED terminal_vars PROVE TerminalSound'
  OBVIOUS
<1>1. UNCHANGED <<terminal_buffer, terminal_buffer_index, input_line, terminal_wrapped_cache, valid,
                  terminal_visible_offset, open, main_at, garbled, key_raced, split>>
  BY DEF terminal_vars
<1>2. TextSound'
  BY <1>1, TextKept
<1>3. IsWrapped(terminal_wrapped_cache, Shown)' <=> IsWrapped(terminal_wrapped_cache, Shown)
  <2>1. terminal_wrapped_cache' = terminal_wrapped_cache /\ Shown' = Shown
    BY <1>1, ShownFollows
  <2>2. QED  BY <2>1
<1>4. PictureSound'
  BY <1>1, <1>3 DEF TerminalSound, PictureSound, ValidIsFresh, Fresh, DrawsTail, Breaks
<1>5. TerminalTypeOK'
  BY <1>1 DEF TerminalSound, TerminalTypeOK
<1>6. QED  BY <1>2, <1>4, <1>5 DEF TerminalSound

\* Every step of keys and of main.
LEMMA TerminalInductive == TerminalSound /\ [TerminalNext]_terminal_vars => TerminalSound'
<1>1. TerminalSound /\ Redraw => TerminalSound'
  BY WrapSound, SetValidSound DEF Redraw
<1>2. TerminalSound /\ FinishOpening => TerminalSound'
  BY ClearFirstSound, PrintCopySound, PrintAdvanceSound, PrintEndSound DEF FinishOpening
<1>3. TerminalSound /\ Keys => TerminalSound'
  BY EnterSound, BackspaceSound, TypeSound DEF Keys
<1>4. QED
  BY <1>1, <1>2, <1>3, OpenWindowSound, CloseWindowSound, TerminalStays DEF TerminalNext

\* The invariant holds whatever keys come between whichever stores of main.
THEOREM TerminalAlwaysSound == TerminalSpec => []TerminalSound
<1>1. TerminalInit => TerminalSound
  BY TerminalInitSound
<1>2. TerminalSound /\ [TerminalNext]_terminal_vars => TerminalSound'
  BY TerminalInductive
<1>3. QED  BY <1>1, <1>2, PTL DEF TerminalSpec

\* LineOnScreen: no key, redraw or opening leaves a line on the screen that is
\* not the one Enter executes, but for the exceptions it names (terminal.c:36-67,
\* 169-194).
THEOREM LineAlwaysOnScreen == TerminalSpec => []LineOnScreen
<1>1. TerminalSound => LineOnScreen
  BY SoundShows
<1>2. QED  BY <1>1, TerminalAlwaysSound, PTL

\* ValidIsFresh: only a key in the middle of update_terminal leaves an old picture
\* marked valid (terminal.c:156-161).
THEOREM ValidAlwaysFresh == TerminalSpec => []ValidIsFresh
<1>1. TerminalSound => ValidIsFresh
  BY SoundShows
<1>2. QED  BY <1>1, TerminalAlwaysSound, PTL

\* DrawsTail: what is drawn starts with a whole row and is the end of the text
\* (terminal.c:93-117, 163-164).
THEOREM AlwaysDrawsTail == TerminalSpec => []DrawsTail
<1>1. TerminalSound => DrawsTail
  BY SoundShows
<1>2. QED  BY <1>1, TerminalAlwaysSound, PTL
=============================================================================
