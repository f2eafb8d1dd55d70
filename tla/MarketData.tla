----------------------------- MODULE MarketData -----------------------------
(***************************************************************************)
(* From a Watch to the data it is fed: Watch (lib/TFTrading/Watch.cpp)     *)
(* counts who looks at an instrument, ProviderInterface the handlers of a  *)
(* symbol, the IQFeed Provider (lib/TFIQFeed/Provider.cpp) turns them into *)
(* commands, and Network (lib/OUCommon/Network.h) holds the connection.    *)
(*                                                                         *)
(* Four threads act: the owner's, which connects and watches; that of the  *)
(* network, which runs the completions of asynchronous calls one by one;   *)
(* that of the lookup of tables, whose end is what makes the provider      *)
(* connected; and the server.  A handler of one of them is one step.       *)
(***************************************************************************)
EXTENDS Naturals

CONSTANTS Symbols, Watches,
          SymbolOf,        \* [Watches -> Symbols]
          MaxConnects,     \* Bound on the calls of Connect
          MaxStarts        \* Bound on the starts of a watch

ASSUME MarketDataAssumption ==
  /\ SymbolOf \in [Watches -> Symbols]
  /\ MaxConnects \in Nat /\ MaxStarts \in Nat

VARIABLES net,             \* Network: m_stateNetwork
          attempt,         \* What async_connect has come to
          timers,          \* Calls of OnTimeOut still to come
          reading,         \* m_lReadProgress: a read is outstanding
          sending,         \* m_cntActiveSends: some command is not yet written
          ending,          \* OnNetDisconnecting has been called, and is not over
          up,              \* The server holds its end of the connection
          lookup,          \* The lookup of IQFeed's tables
          connected,       \* ProviderInterfaceBase: m_bConnected
          symbol,          \* IQFeedSymbol: m_stateWatch; what the server sends
          count, watching, \* Watch: m_cntWatching, m_bWatching
          connects, failed \* Calls of Connect; the program has ended

net_vars == <<net, attempt, timers, reading, ending, up, lookup, connects>>
watch_vars == <<symbol, count, watching>>
vars == <<net, attempt, timers, reading, sending, ending, up, lookup, connected,
          symbol, count, watching, connects, failed>>

WatchStates == {"None", "Quote", "Trade", "Both"}
Feeds == {"none", "all", "trades"}

TypeOK ==
  /\ net \in {"DISCONNECTED", "CONNECTING", "CONNECTED", "DISCONNECTING"}
  /\ attempt \in {"none", "trying", "ok", "failed"}
  /\ timers \in 0 .. 2
  /\ reading \in BOOLEAN /\ sending \in BOOLEAN /\ ending \in BOOLEAN
  /\ up \in BOOLEAN /\ connected \in BOOLEAN
  /\ lookup \in {"none", "loading", "done"}
  /\ symbol \in [Symbols -> [state : WatchStates, feed : Feeds]]
  /\ count \in [Watches -> 0 .. MaxStarts]
  /\ watching \in [Watches -> BOOLEAN]
  /\ connects \in 0 .. MaxConnects
  /\ failed \in BOOLEAN
  \* Asserted by OnReadDone and by OnSendDoneCommon.
  /\ reading \/ sending => net \in {"CONNECTED", "DISCONNECTING"}
  /\ ending => net = "DISCONNECTING"

Init ==
  /\ net = "DISCONNECTED" /\ attempt = "none" /\ timers = 0
  /\ reading = FALSE /\ sending = FALSE /\ ending = FALSE
  /\ up = FALSE /\ lookup = "none" /\ connected = FALSE
  /\ symbol = [s \in Symbols |-> [state |-> "None", feed |-> "none"]]
  /\ count = [w \in Watches |-> 0]
  /\ watching = [w \in Watches |-> FALSE]
  /\ connects = 0 /\ failed = FALSE
-----------------------------------------------------------------------------
(* Watches and commands. *)

\* The table of transitions; "-" is no command.
Command(from, to) ==
  CASE to = from -> "-"
    [] to = "None" -> "r"
    [] to = "Trade" -> "t"
    [] from \in {"None", "Trade"} -> "w"
    [] OTHER -> "-"

\* What the server does with a command.
Obeyed(command, feed) ==
  CASE command = "w" -> "all"
    [] command = "t" -> "trades"
    [] command = "r" -> "none"
    [] OTHER -> feed

\* UpdateQuoteTradeWatch: the state changes, whether or not Send reaches the
\* server.
Sent(s, next) ==
  [state |-> next,
   feed |-> IF net = "CONNECTED" /\ up THEN Obeyed(Command(s.state, next), s.feed)
            ELSE s.feed]

StartQuoteWatch(s) ==
  CASE s.state = "None" -> Sent(s, "Quote")
    [] s.state = "Trade" -> Sent(s, "Both")
    [] OTHER -> s
StartTradeWatch(s) ==
  CASE s.state = "None" -> Sent(s, "Trade")
    [] s.state = "Quote" -> Sent(s, "Both")
    [] OTHER -> s
StopTradeWatch(s) ==
  CASE s.state = "Trade" -> Sent(s, "None")
    [] s.state = "Both" -> Sent(s, "Quote")
    [] OTHER -> s
StopQuoteWatch(s) ==
  CASE s.state = "Quote" -> Sent(s, "None")
    [] s.state = "Both" -> Sent(s, "Trade")
    [] OTHER -> s

Handlers(s) == {w \in Watches : watching[w] /\ SymbolOf[w] = s}

\* EnableWatch of the watches in ws: the first handlers of a symbol start it.
SymbolsEnabled(ws) ==
  [s \in Symbols |->
     IF Handlers(s) = {} /\ (\E w \in ws : SymbolOf[w] = s)
     THEN StartTradeWatch(StartQuoteWatch(symbol[s])) ELSE symbol[s]]

\* DisableWatch of the watches in ws: the last handlers of a symbol stop it.
\* (Mutant: any handler does.)
AnyGone(s, ws) == Handlers(s) \cap ws # {}
LastGone(s, ws) == Handlers(s) # {} /\ Handlers(s) \subseteq ws
SymbolsDisabled(ws) ==
  [s \in Symbols |->
     IF connected /\ LastGone(s, ws) THEN StopQuoteWatch(StopTradeWatch(symbol[s]))
     ELSE symbol[s]]

\* What EnableWatch asks, beside the connection.
Wanted(w) == count[w] > 0 /\ ~ watching[w]

\* Send counts a command until it is written.  Whenever the state of a
\* symbol has changed, some command was sent.
Commands ==
  sending' = \/ sending
             \/ /\ net = "CONNECTED"
                /\ \E s \in Symbols : symbol'[s].state # symbol[s].state

StartWatch(w) ==
  /\ count[w] < MaxStarts
  /\ count' = [count EXCEPT ![w] = @ + 1]
  /\ IF count[w] = 0 /\ ~ watching[w] /\ connected
     THEN /\ watching' = [watching EXCEPT ![w] = TRUE]
          /\ symbol' = SymbolsEnabled({w})
     ELSE UNCHANGED <<watching, symbol>>
  /\ Commands
  /\ UNCHANGED <<net_vars, connected, failed>>

StopWatch(w) ==
  /\ count[w] > 0
  /\ count' = [count EXCEPT ![w] = @ - 1]
  /\ IF count[w] = 1 /\ watching[w]
     THEN /\ watching' = [watching EXCEPT ![w] = FALSE]
          /\ symbol' = SymbolsDisabled({w})
     ELSE UNCHANGED <<watching, symbol>>
  /\ Commands
  /\ UNCHANGED <<net_vars, connected, failed>>
-----------------------------------------------------------------------------
(* Connection. *)

\* Provider::Connect, Network::Connect.  The wait of a timer that is set
\* again ends too, and calls OnTimeOut.  A Connect while the network is
\* not disconnected fails an assertion.  (The completion of an earlier
\* attempt has run before the owner connects again.)
Connect ==
  /\ ~ connected /\ attempt = "none" /\ timers < 2
  /\ connects < MaxConnects
  /\ connects' = connects + 1
  /\ IF net = "DISCONNECTED"
     THEN /\ net' = "CONNECTING" /\ attempt' = "trying" /\ timers' = timers + 1
          /\ UNCHANGED failed
     ELSE failed' = TRUE /\ UNCHANGED <<net, attempt, timers>>
  /\ UNCHANGED <<reading, sending, ending, up, lookup, connected, watch_vars>>

\* The socket of an attempt without an answer is closed: it fails.  (Nothing
\* is read or sent before a connection: OnNetDisconnecting does not wait.)
\* (Mutants: only connections that are up time out; these too.)
TimesOutConnected == net = "CONNECTED"
TimesOutAnyway == net # "DISCONNECTED"
TimesOut == net = "CONNECTING"
OnTimeOut ==
  /\ timers > 0
  /\ timers' = timers - 1
  /\ IF TimesOut
     THEN /\ net' = "DISCONNECTED" /\ connected' = FALSE
          /\ attempt' = IF attempt = "trying" THEN "failed" ELSE attempt
     ELSE UNCHANGED <<net, connected, attempt>>
  /\ UNCHANGED <<reading, sending, ending, up, lookup, watch_vars, connects, failed>>

\* After an error only the timer ends the attempt.  A success that was
\* queued before the time-out closed the socket reads from no socket.
\* The tables are looked up when they are empty.
OnConnectDone ==
  /\ attempt \in {"ok", "failed"}
  /\ attempt' = "none"
  /\ IF attempt = "ok"
     THEN /\ net' = "CONNECTED"
          /\ failed' = (net # "CONNECTING")
          /\ reading' = (net = "CONNECTING") /\ up' = (net = "CONNECTING")
          /\ lookup' = IF lookup = "none" THEN "loading" ELSE lookup
     ELSE UNCHANGED <<net, failed, reading, up, lookup>>
  /\ UNCHANGED <<timers, sending, ending, connected, watch_vars, connects>>

\* OnIQFeedConnected: ConnectionComplete starts symbols that have handlers,
\* OnConnected enables the watches.
LookupDone ==
  /\ lookup = "loading"
  /\ lookup' = "done"
  /\ connected' = TRUE
  /\ LET ws == {w \in Watches : Wanted(w)}
         started == [s \in Symbols |-> IF Handlers(s) # {}
                       THEN StartTradeWatch(StartQuoteWatch(symbol[s])) ELSE symbol[s]]
     IN  /\ watching' = [w \in Watches |-> watching[w] \/ w \in ws]
         /\ symbol' = [s \in Symbols |-> IF Handlers(s) # {} THEN started[s]
                                         ELSE SymbolsEnabled(ws)[s]]
  /\ Commands
  /\ UNCHANGED <<net, attempt, timers, reading, ending, up, connects, count, failed>>

\* Provider::Disconnect: OnDisconnecting disables the watches, the socket is
\* shut down, and OnNetDisconnecting is called.  The shutdown of a socket
\* whose connection was reset throws, and OnNetDisconnecting is never called.
Disconnect ==
  /\ connected
  /\ watching' = [w \in Watches |-> FALSE]
  /\ symbol' = [s \in Symbols |->
                  [SymbolsDisabled(Watches)[s] EXCEPT !.feed = "none"]]
  /\ Commands
  /\ IF net = "CONNECTED"
     THEN net' = "DISCONNECTING" /\ ending' \in (IF up THEN {TRUE} ELSE BOOLEAN)
     ELSE UNCHANGED <<net, ending>>
  /\ up' = FALSE
  /\ UNCHANGED <<attempt, timers, reading, lookup, connected, count, connects, failed>>

\* It is posted again while a read or a command is outstanding.
\* (Mutant: it does not wait.)
AlwaysQuiet == TRUE
Quiet == ~ sending /\ ~ reading
OnNetDisconnecting ==
  /\ ending /\ Quiet
  /\ ending' = FALSE
  /\ net' = "DISCONNECTED" /\ connected' = FALSE
  /\ UNCHANGED <<attempt, timers, reading, sending, up, lookup, watch_vars, connects, failed>>

\* A read of no bytes: it is not repeated, and nothing else happens.
OnReadDone ==
  /\ reading /\ ~ up
  /\ reading' = FALSE
  /\ UNCHANGED <<net, attempt, timers, sending, ending, up, lookup, connected,
                 watch_vars, connects, failed>>

\* A read of bytes is repeated.  Lines of the server that ask for a key or a
\* protocol are answered with commands.
OnNetworkLineBuffer ==
  /\ reading /\ up /\ net = "CONNECTED"
  /\ sending' = TRUE
  /\ UNCHANGED <<net, attempt, timers, reading, ending, up, lookup, connected,
                 watch_vars, connects, failed>>

\* The last of the commands has been written, or has failed.
OnSendDone ==
  /\ sending
  /\ sending' = FALSE
  /\ UNCHANGED <<net, attempt, timers, reading, ending, up, lookup, connected,
                 watch_vars, connects, failed>>
-----------------------------------------------------------------------------
(* The other end. *)

Answer ==
  /\ attempt = "trying"
  /\ attempt' \in {"ok", "failed"}
  /\ UNCHANGED <<net, timers, reading, sending, ending, up, lookup, connected,
                 watch_vars, connects, failed>>

Drop ==
  /\ up
  /\ up' = FALSE
  /\ symbol' = [s \in Symbols |-> [symbol[s] EXCEPT !.feed = "none"]]
  /\ UNCHANGED <<net, attempt, timers, reading, sending, ending, lookup, connected,
                 count, watching, connects, failed>>
-----------------------------------------------------------------------------
Running ==
  \/ Connect \/ Disconnect
  \/ \E w \in Watches : StartWatch(w) \/ StopWatch(w)
  \/ OnTimeOut \/ OnConnectDone \/ OnReadDone \/ OnNetworkLineBuffer
  \/ OnSendDone \/ OnNetDisconnecting
  \/ LookupDone
  \/ Answer \/ Drop

Next == ~ failed /\ Running

Spec == Init /\ [][Next]_vars

\* The thread of the network runs, timers end, a shut down read returns,
\* what is sent is written or fails; the lookup of the tables answers.
Fairness ==
  /\ WF_vars(~ failed /\ OnTimeOut) /\ WF_vars(~ failed /\ OnConnectDone)
  /\ WF_vars(~ failed /\ OnReadDone) /\ WF_vars(~ failed /\ OnSendDone)
  /\ WF_vars(~ failed /\ OnNetDisconnecting) /\ WF_vars(~ failed /\ LookupDone)

FairSpec == Spec /\ Fairness
-----------------------------------------------------------------------------
(* Properties. *)

Watched(s) == \E w \in Watches : SymbolOf[w] = s /\ count[w] > 0

\* While the connection works, the server sends all data of exactly the
\* symbols that somebody watches, whatever starts and stops were counted
\* before, during and after the connection was made.
FeedFollowsWatches ==
  connected /\ net = "CONNECTED" /\ up =>
    \A s \in Symbols : symbol[s].feed = IF Watched(s) THEN "all" ELSE "none"

\* A connection that was made stays until its owner disconnects, whatever
\* timers and answers of earlier attempts are still to come; and it is over
\* for the owner only when the reads and commands of the network are done.
ConnectionStays ==
  [][/\ net = "CONNECTED" /\ net' # net => connected /\ net' = "DISCONNECTING"
     /\ connected /\ ~ connected' =>
          net = "DISCONNECTING" /\ ~ reading /\ ~ sending]_vars

\* Network::Disconnect after a shutdown that threw.
ShutdownThrew == net = "DISCONNECTING" /\ ~ ending

\* A connection is made or given up, and a disconnection ends, unless the
\* shutdown of the socket threw or the program has failed.
NetworkSettles ==
  net \in {"CONNECTING", "DISCONNECTING"} ~>
    net \in {"CONNECTED", "DISCONNECTED"} \/ ShutdownThrew \/ failed
=============================================================================
