------------------------------- MODULE Views --------------------------------
(***************************************************************************)
(* The desktop window, the browser views and the end of an idle program    *)
(* (internal/server/view.go): a timer that has fired cannot be stopped,    *)
(* and a switch to the browser waits for one to come.                      *)
(***************************************************************************)
EXTENDS Naturals, FiniteSets

CONSTANTS
    Switches,       \* requests to move to the browser
    MaxViews        \* bound on views open of each kind

VARIABLES
    desktop, browser,   \* views.desktop, views.browser
    hidden, armed, given,
    grace,              \* views.timer: is there one
    firing,             \* calls of giveUp that wait for views.mu
    waiting,            \* views.waiting
    came,               \* waiters whose channel is closed
    switch,             \* where a request of toBrowser is
    quits               \* calls of onIdle

viewVars == <<desktop, browser, hidden, armed, given, grace, firing, waiting, came, switch, quits>>

ViewInit ==
    /\ desktop = 0 /\ browser = 0 /\ hidden = FALSE /\ armed = FALSE /\ given = FALSE
    /\ grace = FALSE /\ firing = 0 /\ waiting = {} /\ came = {}
    /\ switch = [w \in Switches |-> "off"] /\ quits = 0

\* views.live, of the counts and the flag it is asked about.
Live(d, b, h) == IF h THEN b ELSE d + b

\* reconsider: the timer there is afterwards.
Reconsider(d, b, h) == IF armed' /\ ~ given THEN Live(d, b, h) = 0 ELSE grace

Opened(kind) ==
    /\ (IF kind = "desktop" THEN desktop ELSE browser) < MaxViews
    /\ desktop' = IF kind = "desktop" THEN desktop + 1 ELSE desktop
    /\ browser' = IF kind = "desktop" THEN browser ELSE browser + 1
    /\ came' = IF kind = "desktop" THEN came ELSE came \cup waiting
    /\ waiting' = IF kind = "desktop" THEN waiting ELSE {}
    /\ armed' = TRUE
    /\ grace' = Reconsider(desktop', browser', hidden)
    /\ UNCHANGED <<hidden, given, firing, switch, quits>>

Closed(kind) ==
    /\ (IF kind = "desktop" THEN desktop ELSE browser) > 0
    /\ desktop' = IF kind = "desktop" THEN desktop - 1 ELSE desktop
    /\ browser' = IF kind = "desktop" THEN browser ELSE browser - 1
    /\ UNCHANGED armed
    /\ grace' = Reconsider(desktop', browser', hidden)
    /\ UNCHANGED <<hidden, given, firing, waiting, came, switch, quits>>

\* The timer fires; stopTimer can no longer take it back, and views.timer
\* still names it until giveUp runs.
Fire ==
    /\ grace /\ firing < 2
    /\ firing' = firing + 1
    /\ UNCHANGED <<desktop, browser, hidden, armed, given, grace, waiting, came, switch, quits>>

IsGone == armed /\ ~ given /\ Live(desktop, browser, hidden) = 0

GiveUpTab ==
    /\ firing > 0
    /\ firing' = firing - 1
    /\ grace' = FALSE
    /\ given' = (given \/ IsGone)
    /\ quits' = IF IsGone THEN quits + 1 ELSE quits
    /\ UNCHANGED <<desktop, browser, hidden, armed, waiting, came, switch>>

\* toBrowser waits for a browser view before it hides the window.
AwaitBrowser(w) ==
    /\ switch[w] = "off"
    /\ switch' = [switch EXCEPT ![w] = "waits"]
    /\ came' = IF browser > 0 THEN came \cup {w} ELSE came
    /\ waiting' = IF browser > 0 THEN waiting ELSE waiting \cup {w}
    /\ UNCHANGED <<desktop, browser, hidden, armed, given, grace, firing, quits>>

HideWindow(w) ==
    /\ switch[w] = "waits" /\ w \in came
    /\ switch' = [switch EXCEPT ![w] = "done"]
    /\ hidden' = TRUE
    /\ UNCHANGED armed
    /\ grace' = Reconsider(desktop, browser, TRUE)
    /\ waiting' = waiting \ {w} /\ came' = came \ {w}
    /\ UNCHANGED <<desktop, browser, given, firing, quits>>

\* The browser could not be opened, did not come in time, or the request went away.
BrowserNeverCame(w) ==
    /\ switch[w] = "waits"
    /\ switch' = [switch EXCEPT ![w] = "done"]
    /\ waiting' = waiting \ {w} /\ came' = came \ {w}
    /\ UNCHANGED <<desktop, browser, hidden, armed, given, grace, firing, quits>>

ToDesktop ==
    /\ hidden
    /\ hidden' = FALSE
    /\ UNCHANGED armed
    /\ grace' = Reconsider(desktop, browser, FALSE)
    /\ UNCHANGED <<desktop, browser, given, firing, waiting, came, switch, quits>>

ViewNext ==
    \/ \E kind \in {"desktop", "browser"} : Opened(kind) \/ Closed(kind)
    \/ Fire \/ GiveUpTab \/ ToDesktop
    \/ \E w \in Switches : AwaitBrowser(w) \/ HideWindow(w) \/ BrowserNeverCame(w)

-----------------------------------------------------------------------------
(* Properties.                                                             *)

\* The program that nobody looks at is on its way out: views.timer runs or
\* has fired, also when the window was hidden and the browser went away.
\* What loose timers did before does not matter.
IdleIsLeaving == armed /\ ~ given /\ Live(desktop, browser, hidden) = 0 => grace \/ firing > 0

=============================================================================
