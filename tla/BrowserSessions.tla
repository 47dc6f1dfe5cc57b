--------------------------- MODULE BrowserSessions --------------------------
(***************************************************************************)
(* The browser tool (tools/browser): BrowserTool, AsyncBrowserTool and the *)
(* BrowserSessionManager that keeps browsers open between calls.           *)
(*                                                                         *)
(* Calls overlap in threads.  A browser, with its Playwright driver, is    *)
(* named by the call that launched it, and so is its session.  What the    *)
(* pages contain is left out; any use of a page may fail, and any closing. *)
(***************************************************************************)
EXTENDS Naturals, FiniteSets

CONSTANTS
    BrowserCalls,   \* invocations of the tool, resets and exits among them
    BrowserKinds,   \* the tools used: a subset of {"sync", "async"}
    BrowserOps,     \* the operations used
    HasPlaywright,  \* the values _playwright_available may have
    NoBrowser

ASSUME BrowserAssumption ==
    /\ NoBrowser \notin BrowserCalls
    /\ BrowserKinds \subseteq {"sync", "async"}
    /\ BrowserOps \subseteq {"navigate", "get_text", "get_links", "screenshot", "click",
                        "fill", "evaluate", "create_session", "close_session"}
    /\ HasPlaywright \subseteq BOOLEAN

VARIABLES
    browser,    \* the browser of each call: none, open or closed
    tables,     \* _sessions of every BrowserSessionManager there was
    tool,       \* the calls: [at, kind, op, session, table, browser]
    playwright, \* is Playwright installed?
    abandoned   \* history: open browsers that no table and no call knows

browserVars == <<browser, tables, tool, playwright, abandoned>>

SessionOps == {"create_session", "close_session"}

\* Operations that do without Playwright.
HttpOps == {"navigate", "get_text", "get_links"}

\* BrowserSessionManager(): the singleton, the last one made.
Current == CHOOSE g \in DOMAIN tables : \A h \in DOMAIN tables : h <= g

GoTo(c, at) == tool' = [tool EXCEPT ![c].at = at]

----------------------------------------------------------------------------
(* invoke and ainvoke.                                                     *)

\* Parameters, network policy and url are checked before anything is opened.
RefuseBrowser(c) ==
    /\ tool[c].at = "new"
    /\ GoTo(c, "error")
    /\ UNCHANGED <<browser, tables, playwright, abandoned>>

\* Where the operation goes on.  Without Playwright the synchronous tool reads
\* pages over HTTP, and Open will fail for the rest.
Dispatched(kind, op, session) ==
    CASE op = "create_session" -> "open"
      [] op = "close_session" -> "pop"
      [] op \notin SessionOps /\ session # NoBrowser -> "page"
      [] OTHER -> IF kind = "sync" /\ ~playwright /\ op \in HttpOps THEN "fetch" ELSE "open"

\* The session ids that calls have returned.
KnownSessions == {c \in BrowserCalls : tool[c].at = "ok" /\ tool[c].op = "create_session"}

InvokeBrowser(c, kind, op, session) ==
    /\ tool[c].at = "new"
    /\ op = "create_session" => session = NoBrowser
    /\ op = "close_session" => session # NoBrowser
    /\ tool' = [tool EXCEPT ![c] =
         [at |-> Dispatched(kind, op, session), kind |-> kind, op |-> op,
          session |-> session, table |-> Current, browser |-> NoBrowser]]
    /\ UNCHANGED <<browser, tables, playwright, abandoned>>

----------------------------------------------------------------------------
(* Browsers.                                                               *)

\* Does the call close the browser that it opened?
ClosesItsOwn(c) == tool[c].kind = "async" \/ tool[c].op = "navigate"

\* Playwright is started and a browser launched, or starting it fails.
Open(c) ==
    /\ tool[c].at = "open"
    /\ \/ /\ playwright
          /\ browser' = [browser EXCEPT ![c] = "open"]
          /\ tool' = [tool EXCEPT ![c].browser = c,
                        ![c].at = IF tool[c].op = "create_session" THEN "store" ELSE "use"]
       \/ GoTo(c, "error") /\ UNCHANGED browser
    /\ UNCHANGED <<tables, playwright, abandoned>>

\* new_context or new_page raises: nobody closes the browser.
OpenFails(c) ==
    /\ tool[c].at = "store"
    /\ GoTo(c, "error")
    /\ abandoned' = abandoned \cup {c}
    /\ UNCHANGED <<browser, tables, playwright>>

\* create_session keeps the manager it found, which may have been replaced.
StoreSession(c) ==
    /\ tool[c].at = "store"
    /\ tables' = [tables EXCEPT ![tool[c].table] = @ \cup {c}]
    /\ abandoned' = IF tool[c].table = Current THEN abandoned ELSE abandoned \cup {c}
    /\ GoTo(c, "ok")
    /\ UNCHANGED <<browser, playwright>>

\* get_page: a session that is not there is an error.
FindPage(c) ==
    LET s == tool[c].session IN
    /\ tool[c].at = "page"
    /\ tool' = IF s \in tables[tool[c].table]
               THEN [tool EXCEPT ![c].at = "use", ![c].browser = s]
               ELSE [tool EXCEPT ![c].at = "error"]
    /\ UNCHANGED <<browser, tables, playwright, abandoned>>

\* The page is opened and used.  A page whose browser was closed meanwhile
\* raises; any other may.  The synchronous tool closes its own browser after
\* navigate only: every other operation leaves it open.
Use(c) ==
    LET own == tool[c].browser = c IN
    /\ tool[c].at = "use"
    /\ \E end \in {"ok", "error"} :
         /\ end = "ok" => browser[tool[c].browser] = "open"
         /\ GoTo(c, IF own /\ ClosesItsOwn(c) THEN "close" ELSE end)
    /\ abandoned' = IF own /\ ~ClosesItsOwn(c) THEN abandoned \cup {c} ELSE abandoned
    /\ UNCHANGED <<browser, tables, playwright>>

\* Mutant: only the session is forgotten.
LeftOpen(open, gone) == open

Closed(open, gone) == [b \in DOMAIN open |-> IF b \in gone THEN "closed" ELSE open[b]]

\* Closing a browser or stopping its driver may fail; BrowserSession.close only
\* logs that, and nobody tries again.
Close(gone, left) ==
    /\ browser' = Closed(browser, gone \ left)
    /\ abandoned' = abandoned \cup left

\* The finally clause, and the end of close_session, which never tells.
CloseOwn(c) ==
    /\ tool[c].at = "close"
    /\ \E left \in SUBSET {tool[c].browser} : Close({tool[c].browser}, left)
    /\ GoTo(c, "ok")
    /\ UNCHANGED <<tables, playwright>>

\* requests, then urllib: no browser.
Fetch(c) ==
    /\ tool[c].at = "fetch"
    /\ \E end \in {"ok", "error"} : GoTo(c, end)
    /\ UNCHANGED <<browser, tables, playwright, abandoned>>

----------------------------------------------------------------------------
(* close_session, close_all and reset_instance.                            *)

PopSession(c) ==
    LET s == tool[c].session
        t == tool[c].table
    IN
    /\ tool[c].at = "pop"
    /\ tables' = [tables EXCEPT ![t] = @ \ {s}]
    /\ tool' = IF s \in tables[t]
               THEN [tool EXCEPT ![c].at = "close", ![c].browser = s]
               ELSE [tool EXCEPT ![c].at = "ok"]
    /\ UNCHANGED <<browser, playwright, abandoned>>

CloseAll ==
    /\ \E left \in SUBSET tables[Current] : Close(tables[Current], left)
    /\ tables' = [tables EXCEPT ![Current] = {}]
    /\ UNCHANGED <<tool, playwright>>

\* The sessions are closed and the next caller gets a new manager.  Calls that
\* found the old one go on with it.
Reset(c) ==
    /\ tool[c].at = "new"
    /\ \E left \in SUBSET tables[Current] : Close(tables[Current], left)
    /\ tables' = [g \in DOMAIN tables \cup {Current + 1} |->
                    IF g \in DOMAIN tables \ {Current} THEN tables[g] ELSE {}]
    /\ GoTo(c, "ok")
    /\ UNCHANGED playwright

----------------------------------------------------------------------------
BrowserInit ==
    /\ browser = [c \in BrowserCalls |-> "none"]
    /\ tables = [g \in {0} |-> {}]
    /\ tool = [c \in BrowserCalls |->
         [at |-> "new", kind |-> "sync", op |-> "navigate", session |-> NoBrowser,
          table |-> 0, browser |-> NoBrowser]]
    /\ playwright \in HasPlaywright
    /\ abandoned = {}

BrowserNext ==
    \/ \E c \in BrowserCalls :
         \/ \E kind \in BrowserKinds, op \in BrowserOps,
               session \in KnownSessions \cup {NoBrowser} : InvokeBrowser(c, kind, op, session)
         \/ RefuseBrowser(c) \/ Open(c) \/ OpenFails(c) \/ StoreSession(c) \/ FindPage(c)
         \/ Use(c) \/ CloseOwn(c) \/ Fetch(c) \/ PopSession(c) \/ Reset(c)
    \/ CloseAll

BrowserSpec == BrowserInit /\ [][BrowserNext]_browserVars

----------------------------------------------------------------------------
\* The browsers that calls under way will store, use or close.
InHand == {tool[c].browser : c \in {d \in BrowserCalls : tool[d].at \in {"store", "use", "close"}}}

\* However calls overlap with closing and resetting, a browser that is open is
\* one somebody can close: a session of the current manager, or in the hands
\* of a call; and no session it knows has lost its browser.  The exceptions
\* are the ones the code makes: a page operation of the synchronous tool
\* without a session, a launch that fails half way, a session stored with
\* a manager that was replaced, and a closing that failed, after which the
\* session is gone all the same.
BrowsersAccounted ==
    /\ \A b \in BrowserCalls : browser[b] = "open" =>
         b \in tables[Current] \cup InHand \cup abandoned
    /\ \A b \in tables[Current] : browser[b] = "open"
=============================================================================
