-------------------------- MODULE MarketDataProofs --------------------------
(***************************************************************************)
(* Proofs about MarketData, for any number of watches and symbols.         *)
(*                                                                         *)
(* The provider becomes connected once, when the tables have been looked   *)
(* up.  Until then no watch has handlers and no command was sent; from     *)
(* then on, and while the connection lasts, the handlers of a symbol are   *)
(* its counted watches, and its state says whether it has any.             *)
(***************************************************************************)
EXTENDS MarketData, TLAPS

Rows == [state : WatchStates, feed : Feeds]

\* TypeOK in two parts.
FlagsOK ==
  /\ reading \in BOOLEAN /\ sending \in BOOLEAN /\ ending \in BOOLEAN
  /\ up \in BOOLEAN /\ connected \in BOOLEAN /\ failed \in BOOLEAN
StatesOK ==
  /\ net \in {"DISCONNECTED", "CONNECTING", "CONNECTED", "DISCONNECTING"}
  /\ attempt \in {"none", "trying", "ok", "failed"}
  /\ timers \in 0 .. 2
  /\ lookup \in {"none", "loading", "done"}
  /\ symbol \in [Symbols -> Rows]
  /\ count \in [Watches -> 0 .. MaxStarts]
  /\ watching \in [Watches -> BOOLEAN]
  /\ connects \in 0 .. MaxConnects
  /\ reading \/ sending => net \in {"CONNECTED", "DISCONNECTING"}
  /\ ending => net = "DISCONNECTING"

Unwatched == [state |-> "None", feed |-> "none"]

\* Before the tables were looked up.
NothingSent ==
  lookup # "done" =>
    /\ ~ connected
    /\ \A w \in Watches : ~ watching[w]
    /\ \A s \in Symbols : symbol[s] = Unwatched

\* The lookup follows a connection, which lasts: only a provider that is
\* connected disconnects.
LookupIsConnected == lookup = "loading" => net = "CONNECTED" /\ attempt = "none"

\* A provider that is connected has no attempt; only it disconnects.
ConnectedIsSettled ==
  /\ connected => attempt = "none" /\ net # "CONNECTING"
  /\ ending => connected

WatchingIsCounted == \A w \in Watches : watching[w] => count[w] > 0

\* What the state of a symbol with the handlers h is, and what it is sent.
StateFor(h) == IF h # {} THEN "Both" ELSE "None"
FeedFor(h) == IF h # {} THEN "all" ELSE "none"

Working == connected /\ net = "CONNECTED"

CountedIsWatching == Working => \A w \in Watches : count[w] > 0 => watching[w]

SymbolsFollowHandlers ==
  Working => \A s \in Symbols :
    /\ symbol[s].state = StateFor(Handlers(s))
    /\ up => symbol[s].feed = FeedFor(Handlers(s))

IInv ==
  /\ TypeOK /\ NothingSent /\ LookupIsConnected /\ ConnectedIsSettled
  /\ WatchingIsCounted /\ CountedIsWatching /\ SymbolsFollowHandlers
-----------------------------------------------------------------------------
(* The commands. *)

\* The commands that are sent, and what they lead to.
LEMMA CommandTable ==
  /\ Command("None", "Quote") = "w" /\ Command("Quote", "Both") = "-"
  /\ Command("Both", "Quote") = "-" /\ Command("Quote", "None") = "r"
  BY DEF Command

LEMMA ServerObeys ==
  ASSUME NEW feed \in Feeds
  PROVE  /\ Obeyed("w", feed) = "all"
         /\ Obeyed("r", feed) = "none"
         /\ Obeyed("-", feed) = feed
         /\ \A command : Obeyed(command, feed) \in Feeds
<1>1. Obeyed("w", feed) = "all" /\ Obeyed("r", feed) = "none"
  BY DEF Obeyed
<1>2. Obeyed("-", feed) = feed
  BY DEF Obeyed
<1>3. ASSUME NEW command
      PROVE  Obeyed(command, feed) \in Feeds
  <2>1. CASE command = "w" \/ command = "t" \/ command = "r"
    BY <2>1 DEF Obeyed, Feeds
  <2>2. CASE ~ (command = "w" \/ command = "t" \/ command = "r")
    BY <2>2 DEF Obeyed
  <2> QED BY <2>1, <2>2
<1> QED BY <1>1, <1>2, <1>3

\* Whatever is sent, a row stays a row.
LEMMA SentIsRow ==
  ASSUME NEW r \in Rows, NEW next \in WatchStates
  PROVE  Sent(r, next) \in Rows
<1> DEFINE o == Obeyed(Command(r.state, next), r.feed)
<1>1. r.feed \in Feeds
  BY DEF Rows
<1>2. o \in Feeds
  BY <1>1, ServerObeys
<1> HIDE DEF o
<1> QED BY <1>1, <1>2 DEF Sent, Rows, o

\* The state that is asked for, and the feed as the server obeys.
LEMMA SentSays ==
  ASSUME NEW r \in Rows, NEW next
  PROVE  /\ Sent(r, next).state = next
         /\ net = "CONNECTED" /\ up =>
              Sent(r, next).feed = Obeyed(Command(r.state, next), r.feed)
         /\ ~ (net = "CONNECTED" /\ up) => Sent(r, next).feed = r.feed
  BY DEF Sent

LEMMA CommandsKeepRows ==
  ASSUME NEW r \in Rows
  PROVE  /\ StartQuoteWatch(r) \in Rows /\ StartTradeWatch(r) \in Rows
         /\ StopQuoteWatch(r) \in Rows /\ StopTradeWatch(r) \in Rows
<1>1. \A next \in WatchStates : Sent(r, next) \in Rows
  BY SentIsRow
<1>2. StartQuoteWatch(r) \in Rows
  BY <1>1 DEF StartQuoteWatch, WatchStates
<1>3. StartTradeWatch(r) \in Rows
  BY <1>1 DEF StartTradeWatch, WatchStates
<1>4. StopQuoteWatch(r) \in Rows
  BY <1>1 DEF StopQuoteWatch, WatchStates
<1>5. StopTradeWatch(r) \in Rows
  BY <1>1 DEF StopTradeWatch, WatchStates
<1> QED BY <1>2, <1>3, <1>4, <1>5

\* The two starts of a symbol that nobody watched ask for all data.
LEMMA StartedIsBoth ==
  ASSUME NEW r \in Rows, r.state = "None"
  PROVE  /\ StartTradeWatch(StartQuoteWatch(r)) \in Rows
         /\ StartTradeWatch(StartQuoteWatch(r)).state = "Both"
         /\ net = "CONNECTED" /\ up =>
              StartTradeWatch(StartQuoteWatch(r)).feed = "all"
<1> DEFINE q == Sent(r, "Quote")
<1>1. r.feed \in Feeds
  BY DEF Rows
<1>2. StartQuoteWatch(r) = q
  BY DEF StartQuoteWatch
<1>3. q \in Rows /\ q.feed \in Feeds
  BY SentIsRow DEF WatchStates, Rows
<1>4. q.state = "Quote" /\ (net = "CONNECTED" /\ up => q.feed = "all")
  BY <1>1, SentSays, CommandTable, ServerObeys
<1> HIDE DEF q
<1>5. StartTradeWatch(q) = Sent(q, "Both")
  BY <1>4 DEF StartTradeWatch
<1>6. Sent(q, "Both") \in Rows
  BY <1>3, SentIsRow DEF WatchStates
<1>7. Sent(q, "Both").state = "Both" /\ Sent(q, "Both").feed = q.feed
  BY <1>3, <1>4, SentSays, CommandTable, ServerObeys
<1> QED BY <1>2, <1>4, <1>5, <1>6, <1>7

\* The two stops of a symbol that was watched ask for no data.
LEMMA StoppedIsNone ==
  ASSUME NEW r \in Rows, r.state = "Both"
  PROVE  /\ StopQuoteWatch(StopTradeWatch(r)) \in Rows
         /\ StopQuoteWatch(StopTradeWatch(r)).state = "None"
         /\ net = "CONNECTED" /\ up =>
              StopQuoteWatch(StopTradeWatch(r)).feed = "none"
<1> DEFINE q == Sent(r, "Quote")
<1>2. StopTradeWatch(r) = q
  BY DEF StopTradeWatch
<1>3. q \in Rows /\ q.feed \in Feeds
  BY SentIsRow DEF WatchStates, Rows
<1>4. q.state = "Quote"
  BY SentSays
<1> HIDE DEF q
<1>5. StopQuoteWatch(q) = Sent(q, "None")
  BY <1>4 DEF StopQuoteWatch
<1>6. Sent(q, "None") \in Rows
  BY <1>3, SentIsRow DEF WatchStates
<1>7. /\ Sent(q, "None").state = "None"
      /\ net = "CONNECTED" /\ up => Sent(q, "None").feed = "none"
  BY <1>3, <1>4, SentSays, CommandTable, ServerObeys
<1> QED BY <1>2, <1>5, <1>6, <1>7
-----------------------------------------------------------------------------
(* The invariant. *)

LEMMA TypeParts == TypeOK <=> FlagsOK /\ StatesOK
  BY DEF TypeOK, FlagsOK, StatesOK, Rows

LEMMA TypePartsNext == TypeOK' <=> FlagsOK' /\ StatesOK'
  BY DEF TypeOK, FlagsOK, StatesOK, Rows

LEMMA InitInv == Init => IInv
<1> SUFFICES ASSUME Init PROVE IInv
  OBVIOUS
<1>1. TypeOK
  <2>1. symbol \in [Symbols -> Rows]
    BY DEF Init, Rows, WatchStates, Feeds
  <2>2. FlagsOK
    BY DEF Init, FlagsOK
  <2>3. watching \in [Watches -> BOOLEAN]
    BY DEF Init
  <2>4. StatesOK
    BY <2>1, <2>3, MarketDataAssumption DEF Init, StatesOK
  <2> QED BY <2>2, <2>4, TypeParts
<1>2. NothingSent /\ LookupIsConnected /\ ConnectedIsSettled
  BY DEF Init, NothingSent, LookupIsConnected, ConnectedIsSettled, Unwatched
<1>3. WatchingIsCounted /\ CountedIsWatching /\ SymbolsFollowHandlers
  BY DEF Init, WatchingIsCounted, CountedIsWatching, SymbolsFollowHandlers, Working
<1> QED BY <1>1, <1>2, <1>3 DEF IInv

\* What a change that leaves the watches alone must keep.
LEMMA WatchesAloneKeep ==
  ASSUME IInv, UNCHANGED <<symbol, count, watching>>,
         lookup' # "done" => lookup # "done" /\ ~ connected',
         Working' => Working /\ (up' => up)
  PROVE  /\ NothingSent' /\ WatchingIsCounted'
         /\ CountedIsWatching' /\ SymbolsFollowHandlers'
<1>1. NothingSent'
  BY DEF IInv, NothingSent
<1>2. WatchingIsCounted'
  BY DEF IInv, WatchingIsCounted
<1>3. CountedIsWatching'
  BY DEF IInv, CountedIsWatching
<1>4. \A s : Handlers(s)' = Handlers(s)
  BY DEF Handlers
<1>5. SymbolsFollowHandlers'
  BY <1>4 DEF IInv, SymbolsFollowHandlers
<1> QED BY <1>1, <1>2, <1>3, <1>5

\* Connections are made, given up, shut down: no watch is touched.
LEMMA ConnectionKeeps ==
  ASSUME IInv,
         Connect \/ OnTimeOut \/ OnConnectDone \/ OnReadDone
           \/ OnNetworkLineBuffer \/ OnSendDone \/ OnNetDisconnecting \/ Answer
  PROVE  IInv'
<1> USE DEF net_vars, watch_vars
<1>0. /\ FlagsOK /\ StatesOK
      /\ NothingSent /\ LookupIsConnected /\ ConnectedIsSettled
  BY TypeParts DEF IInv
<1>1. CASE Connect
  <2>1. TypeOK'
    <3>1. FlagsOK'
      BY <1>0, <1>1 DEF FlagsOK, Connect
    <3>2. StatesOK'
      BY <1>0, <1>1, MarketDataAssumption DEF StatesOK, Connect
    <3> QED BY <3>1, <3>2, TypePartsNext
  <2>2. LookupIsConnected' /\ ConnectedIsSettled'
    BY <1>0, <1>1 DEF Connect, LookupIsConnected, ConnectedIsSettled
  <2>3. /\ UNCHANGED <<symbol, count, watching>>
        /\ lookup' # "done" => lookup # "done" /\ ~ connected'
        /\ Working' => Working /\ (up' => up)
    BY <1>1 DEF Connect, Working
  <2> QED BY <2>1, <2>2, <2>3, WatchesAloneKeep DEF IInv
<1>2. CASE OnTimeOut
  <2>1. TypeOK'
    <3>1. FlagsOK'
      BY <1>0, <1>2 DEF FlagsOK, OnTimeOut, TimesOut
    <3>2. StatesOK'
      BY <1>0, <1>2 DEF StatesOK, OnTimeOut, TimesOut
    <3> QED BY <3>1, <3>2, TypePartsNext
  <2>2. LookupIsConnected' /\ ConnectedIsSettled'
    BY <1>0, <1>2 DEF OnTimeOut, TimesOut, LookupIsConnected, ConnectedIsSettled, StatesOK
  <2>3. /\ UNCHANGED <<symbol, count, watching>>
        /\ lookup' # "done" => lookup # "done" /\ ~ connected'
        /\ Working' => Working /\ (up' => up)
    BY <1>0, <1>2 DEF OnTimeOut, TimesOut, Working, NothingSent
  <2> QED BY <2>1, <2>2, <2>3, WatchesAloneKeep DEF IInv
<1>3. CASE OnConnectDone
  <2>0. ~ connected /\ ~ ending /\ lookup # "loading"
    BY <1>0, <1>3 DEF OnConnectDone, LookupIsConnected, ConnectedIsSettled
  <2>1. TypeOK'
    <3>1. FlagsOK'
      BY <1>0, <1>3, <2>0 DEF FlagsOK, OnConnectDone
    <3>2. StatesOK'
      BY <1>0, <1>3, <2>0 DEF StatesOK, OnConnectDone
    <3> QED BY <3>1, <3>2, TypePartsNext
  <2>2. LookupIsConnected' /\ ConnectedIsSettled'
    BY <1>0, <1>3, <2>0 DEF OnConnectDone, LookupIsConnected, ConnectedIsSettled
  <2>3. /\ UNCHANGED <<symbol, count, watching>>
        /\ lookup' # "done" => lookup # "done" /\ ~ connected'
        /\ Working' => Working /\ (up' => up)
    BY <1>0, <1>3, <2>0 DEF OnConnectDone, Working
  <2> QED BY <2>1, <2>2, <2>3, WatchesAloneKeep DEF IInv
<1>4. CASE OnReadDone
  <2>1. TypeOK'
    <3>1. FlagsOK'
      BY <1>0, <1>4 DEF FlagsOK, OnReadDone
    <3>2. StatesOK'
      BY <1>0, <1>4 DEF StatesOK, OnReadDone
    <3> QED BY <3>1, <3>2, TypePartsNext
  <2>2. LookupIsConnected' /\ ConnectedIsSettled'
    BY <1>0, <1>4 DEF OnReadDone, LookupIsConnected, ConnectedIsSettled
  <2>3. /\ UNCHANGED <<symbol, count, watching>>
        /\ lookup' # "done" => lookup # "done" /\ ~ connected'
        /\ Working' => Working /\ (up' => up)
    BY <1>0, <1>4 DEF OnReadDone, Working, NothingSent
  <2> QED BY <2>1, <2>2, <2>3, WatchesAloneKeep DEF IInv
<1>5. CASE OnNetDisconnecting
  <2>1. TypeOK'
    <3>1. FlagsOK'
      BY <1>0, <1>5 DEF FlagsOK, OnNetDisconnecting, Quiet
    <3>2. StatesOK'
      BY <1>0, <1>5 DEF StatesOK, OnNetDisconnecting, Quiet
    <3> QED BY <3>1, <3>2, TypePartsNext
  <2>2. LookupIsConnected' /\ ConnectedIsSettled'
    BY <1>0, <1>5 DEF OnNetDisconnecting, LookupIsConnected, ConnectedIsSettled, StatesOK
  <2>3. /\ UNCHANGED <<symbol, count, watching>>
        /\ lookup' # "done" => lookup # "done" /\ ~ connected'
        /\ Working' => Working /\ (up' => up)
    BY <1>5 DEF OnNetDisconnecting, Working
  <2> QED BY <2>1, <2>2, <2>3, WatchesAloneKeep DEF IInv
<1>6. CASE Answer
  <2>1. TypeOK'
    <3>1. FlagsOK'
      BY <1>0, <1>6 DEF FlagsOK, Answer
    <3>2. StatesOK'
      BY <1>0, <1>6 DEF StatesOK, Answer
    <3> QED BY <3>1, <3>2, TypePartsNext
  <2>2. LookupIsConnected' /\ ConnectedIsSettled'
    BY <1>0, <1>6 DEF Answer, LookupIsConnected, ConnectedIsSettled
  <2>3. /\ UNCHANGED <<symbol, count, watching>>
        /\ lookup' # "done" => lookup # "done" /\ ~ connected'
        /\ Working' => Working /\ (up' => up)
    BY <1>0, <1>6 DEF Answer, Working, NothingSent
  <2> QED BY <2>1, <2>2, <2>3, WatchesAloneKeep DEF IInv
<1>7. CASE OnNetworkLineBuffer
  <2>1. TypeOK'
    <3>1. FlagsOK'
      BY <1>0, <1>7 DEF FlagsOK, OnNetworkLineBuffer
    <3>2. StatesOK'
      BY <1>0, <1>7 DEF StatesOK, OnNetworkLineBuffer
    <3> QED BY <3>1, <3>2, TypePartsNext
  <2>2. LookupIsConnected' /\ ConnectedIsSettled'
    BY <1>0, <1>7 DEF OnNetworkLineBuffer, LookupIsConnected, ConnectedIsSettled
  <2>3. /\ UNCHANGED <<symbol, count, watching>>
        /\ lookup' # "done" => lookup # "done" /\ ~ connected'
        /\ Working' => Working /\ (up' => up)
    BY <1>0, <1>7 DEF OnNetworkLineBuffer, Working, NothingSent
  <2> QED BY <2>1, <2>2, <2>3, WatchesAloneKeep DEF IInv
<1>8. CASE OnSendDone
  <2>1. TypeOK'
    <3>1. FlagsOK'
      BY <1>0, <1>8 DEF FlagsOK, OnSendDone
    <3>2. StatesOK'
      BY <1>0, <1>8 DEF StatesOK, OnSendDone
    <3> QED BY <3>1, <3>2, TypePartsNext
  <2>2. LookupIsConnected' /\ ConnectedIsSettled'
    BY <1>0, <1>8 DEF OnSendDone, LookupIsConnected, ConnectedIsSettled
  <2>3. /\ UNCHANGED <<symbol, count, watching>>
        /\ lookup' # "done" => lookup # "done" /\ ~ connected'
        /\ Working' => Working /\ (up' => up)
    BY <1>0, <1>8 DEF OnSendDone, Working, NothingSent
  <2> QED BY <2>1, <2>2, <2>3, WatchesAloneKeep DEF IInv
<1> QED BY <1>1, <1>2, <1>3, <1>4, <1>5, <1>6, <1>7, <1>8

\* Commands are sent by networks that are connected.
LEMMA CommandsCount ==
  ASSUME FlagsOK, StatesOK, Commands
  PROVE  /\ sending' \in BOOLEAN
         /\ sending' => net \in {"CONNECTED", "DISCONNECTING"}
<1> DEFINE sent == \E s \in Symbols : symbol'[s].state # symbol[s].state
<1>1. sending' = (sending \/ (net = "CONNECTED" /\ sent))
  BY Zenon DEF Commands
<1> HIDE DEF sent
<1> QED BY <1>1 DEF FlagsOK, StatesOK

\* Another count of a watch leaves the rest of IInv alone.
LEMMA CountIsTyped ==
  ASSUME StatesOK, NEW w \in Watches
  PROVE  /\ count[w] < MaxStarts =>
              [count EXCEPT ![w] = @ + 1] \in [Watches -> 0 .. MaxStarts]
         /\ count[w] > 0 =>
              [count EXCEPT ![w] = @ - 1] \in [Watches -> 0 .. MaxStarts]
<1>1. count \in [Watches -> 0 .. MaxStarts] /\ count[w] \in 0 .. MaxStarts
  BY DEF StatesOK
<1>2. MaxStarts \in Nat
  BY MarketDataAssumption
<1>3. count[w] < MaxStarts => count[w] + 1 \in 0 .. MaxStarts
  BY <1>1, <1>2
<1>4. count[w] > 0 => count[w] - 1 \in 0 .. MaxStarts
  BY <1>1, <1>2
<1> QED BY <1>1, <1>3, <1>4

\* Enabling and disabling keeps the rows.
LEMMA SwitchingKeepsRows ==
  ASSUME StatesOK, NEW ws
  PROVE  /\ SymbolsEnabled(ws) \in [Symbols -> Rows]
         /\ SymbolsDisabled(ws) \in [Symbols -> Rows]
<1>1. \A s \in Symbols : symbol[s] \in Rows
  BY DEF StatesOK
<1>2. \A s \in Symbols :
        /\ StartTradeWatch(StartQuoteWatch(symbol[s])) \in Rows
        /\ StopQuoteWatch(StopTradeWatch(symbol[s])) \in Rows
  BY <1>1, CommandsKeepRows
<1>3. SymbolsEnabled(ws) \in [Symbols -> Rows]
  BY <1>1, <1>2, Zenon DEF SymbolsEnabled
<1>4. SymbolsDisabled(ws) \in [Symbols -> Rows]
  BY <1>1, <1>2, Zenon DEF SymbolsDisabled
<1> QED BY <1>3, <1>4

\* A watch starts: the first of a connected symbol starts its feed.
LEMMA StartKeeps ==
  ASSUME IInv, NEW w \in Watches, StartWatch(w)
  PROVE  IInv'
<1>0. /\ FlagsOK /\ StatesOK
      /\ NothingSent /\ LookupIsConnected /\ ConnectedIsSettled
      /\ WatchingIsCounted /\ CountedIsWatching /\ SymbolsFollowHandlers
  BY TypeParts DEF IInv
<1>1. /\ UNCHANGED <<net, attempt, timers, reading, ending, up, lookup, connects,
                     connected, failed>>
      /\ count[w] < MaxStarts
      /\ count' = [count EXCEPT ![w] = @ + 1]
  BY DEF StartWatch, net_vars
<1>2. count' \in [Watches -> 0 .. MaxStarts]
  BY <1>0, <1>1, CountIsTyped
<1>3. /\ \A v \in Watches : v # w => count'[v] = count[v]
      /\ count'[w] > 0 /\ count[w] \in Nat
  <2>1. count \in [Watches -> 0 .. MaxStarts] /\ MaxStarts \in Nat
    BY <1>0, MarketDataAssumption DEF StatesOK
  <2> QED BY <1>1, <2>1
<1>4. FlagsOK' /\ (sending' => net \in {"CONNECTED", "DISCONNECTING"})
  BY <1>0, <1>1, CommandsCount DEF FlagsOK, StartWatch
<1>5. LookupIsConnected' /\ ConnectedIsSettled'
  BY <1>0, <1>1 DEF LookupIsConnected, ConnectedIsSettled
<1>6. CASE count[w] = 0 /\ ~ watching[w] /\ connected
  <2>1. /\ watching' = [watching EXCEPT ![w] = TRUE]
        /\ symbol' = SymbolsEnabled({w})
    BY <1>6 DEF StartWatch
  <2>2. /\ watching' \in [Watches -> BOOLEAN]
        /\ watching'[w]
        /\ \A v \in Watches : v # w => watching'[v] = watching[v]
    BY <1>0, <2>1 DEF StatesOK
  <2>3. TypeOK'
    <3>1. symbol' \in [Symbols -> Rows]
      BY <1>0, <2>1, SwitchingKeepsRows
    <3>2. StatesOK'
      BY <1>0, <1>1, <1>2, <2>2, <3>1, <1>4 DEF StatesOK
    <3> QED BY <1>4, <3>2, TypePartsNext
  <2>4. NothingSent'
    BY <1>0, <1>1, <1>6 DEF NothingSent
  <2>5. WatchingIsCounted'
    BY <1>0, <1>3, <2>2 DEF WatchingIsCounted
  <2>6. CountedIsWatching'
    BY <1>0, <1>1, <1>3, <2>2 DEF CountedIsWatching, Working
  <2>7. SymbolsFollowHandlers'
    <3> SUFFICES ASSUME Working, NEW s \in Symbols
                 PROVE  /\ symbol'[s].state = StateFor(Handlers(s)')
                        /\ up => symbol'[s].feed = FeedFor(Handlers(s)')
      BY <1>1, Zenon DEF SymbolsFollowHandlers, Working
    <3>1. /\ symbol[s].state = StateFor(Handlers(s))
          /\ up => symbol[s].feed = FeedFor(Handlers(s))
          /\ symbol[s] \in Rows
      BY <1>0 DEF SymbolsFollowHandlers, StatesOK
    <3>2. symbol'[s] = IF Handlers(s) = {} /\ SymbolOf[w] = s
                       THEN StartTradeWatch(StartQuoteWatch(symbol[s])) ELSE symbol[s]
      BY <2>1 DEF SymbolsEnabled
    <3>3. CASE Handlers(s) = {} /\ SymbolOf[w] = s
      <4>1. Handlers(s)' # {}
        BY <2>2, <3>3 DEF Handlers
      <4>2. symbol[s].state = "None"
        BY <3>1, <3>3 DEF StateFor
      <4>3. /\ symbol'[s].state = "Both"
            /\ up => symbol'[s].feed = "all"
        BY <3>1, <3>2, <3>3, <4>2, StartedIsBoth DEF Working
      <4> QED BY <4>1, <4>3 DEF StateFor, FeedFor
    <3>4. CASE Handlers(s) # {}
      <4>1. Handlers(s)' # {}
        BY <2>2, <3>4, Zenon DEF Handlers
      <4> QED BY <3>1, <3>2, <3>4, <4>1 DEF StateFor, FeedFor
    <3>5. CASE SymbolOf[w] # s
      <4>1. Handlers(s)' = Handlers(s)
        BY <2>2, <3>5 DEF Handlers
      <4> QED BY <3>1, <3>2, <3>5, <4>1
    <3> QED BY <3>3, <3>4, <3>5
  <2> QED BY <1>5, <2>3, <2>4, <2>5, <2>6, <2>7 DEF IInv
<1>7. CASE ~ (count[w] = 0 /\ ~ watching[w] /\ connected)
  <2>1. UNCHANGED <<watching, symbol>>
    BY <1>7 DEF StartWatch
  <2>2. TypeOK'
    <3>1. StatesOK'
      BY <1>0, <1>1, <1>2, <2>1, <1>4 DEF StatesOK
    <3> QED BY <1>4, <3>1, TypePartsNext
  <2>3. NothingSent'
    BY <1>0, <1>1, <2>1 DEF NothingSent
  <2>4. WatchingIsCounted'
    BY <1>0, <1>3, <2>1 DEF WatchingIsCounted
  <2>5. CountedIsWatching'
    <3>1. Working => watching[w]
      BY <1>0, <1>3, <1>7 DEF Working, CountedIsWatching
    <3> QED BY <1>0, <1>1, <1>3, <2>1, <3>1 DEF CountedIsWatching, Working
  <2>6. SymbolsFollowHandlers'
    <3>1. \A s : Handlers(s)' = Handlers(s)
      BY <2>1 DEF Handlers
    <3> QED BY <1>0, <1>1, <2>1, <3>1 DEF SymbolsFollowHandlers, Working
  <2> QED BY <1>5, <2>2, <2>3, <2>4, <2>5, <2>6 DEF IInv
<1> QED BY <1>6, <1>7
\* A watch stops: the last of a symbol ends its feed.
LEMMA StopKeeps ==
  ASSUME IInv, NEW w \in Watches, StopWatch(w)
  PROVE  IInv'
<1>0. /\ FlagsOK /\ StatesOK
      /\ NothingSent /\ LookupIsConnected /\ ConnectedIsSettled
      /\ WatchingIsCounted /\ CountedIsWatching /\ SymbolsFollowHandlers
  BY TypeParts DEF IInv
<1>1. /\ UNCHANGED <<net, attempt, timers, reading, ending, up, lookup, connects,
                     connected, failed>>
      /\ count[w] > 0
      /\ count' = [count EXCEPT ![w] = @ - 1]
  BY DEF StopWatch, net_vars
<1>2. count' \in [Watches -> 0 .. MaxStarts]
  BY <1>0, <1>1, CountIsTyped
<1>3. /\ \A v \in Watches : v # w => count'[v] = count[v]
      /\ count'[w] = count[w] - 1 /\ count[w] \in Nat
  <2>1. count \in [Watches -> 0 .. MaxStarts] /\ MaxStarts \in Nat
    BY <1>0, MarketDataAssumption DEF StatesOK
  <2> QED BY <1>1, <2>1
<1>4. FlagsOK' /\ (sending' => net \in {"CONNECTED", "DISCONNECTING"})
  BY <1>0, <1>1, CommandsCount DEF FlagsOK, StopWatch
<1>5. LookupIsConnected' /\ ConnectedIsSettled'
  BY <1>0, <1>1 DEF LookupIsConnected, ConnectedIsSettled
<1>6. CASE count[w] = 1 /\ watching[w]
  <2>1. /\ watching' = [watching EXCEPT ![w] = FALSE]
        /\ symbol' = SymbolsDisabled({w})
    BY <1>6 DEF StopWatch
  <2>2. /\ watching' \in [Watches -> BOOLEAN]
        /\ ~ watching'[w]
        /\ \A v \in Watches : v # w => watching'[v] = watching[v]
    BY <1>0, <2>1 DEF StatesOK
  <2>3. TypeOK'
    <3>1. symbol' \in [Symbols -> Rows]
      BY <1>0, <2>1, SwitchingKeepsRows
    <3>2. StatesOK'
      BY <1>0, <1>1, <1>2, <2>2, <3>1, <1>4 DEF StatesOK
    <3> QED BY <1>4, <3>2, TypePartsNext
  <2>4. NothingSent'
    BY <1>0, <1>1, <1>6 DEF NothingSent
  <2>5. WatchingIsCounted'
    BY <1>0, <1>3, <2>2 DEF WatchingIsCounted
  <2>6. CountedIsWatching'
    <3>1. ~ (count'[w] > 0)
      BY <1>3, <1>6
    <3> QED BY <1>0, <1>1, <1>3, <2>2, <3>1 DEF CountedIsWatching, Working
  <2>7. SymbolsFollowHandlers'
    <3> SUFFICES ASSUME Working, NEW s \in Symbols
                 PROVE  /\ symbol'[s].state = StateFor(Handlers(s)')
                        /\ up => symbol'[s].feed = FeedFor(Handlers(s)')
      BY <1>1, Zenon DEF SymbolsFollowHandlers, Working
    <3>1. /\ symbol[s].state = StateFor(Handlers(s))
          /\ up => symbol[s].feed = FeedFor(Handlers(s))
          /\ symbol[s] \in Rows
      BY <1>0 DEF SymbolsFollowHandlers, StatesOK
    <3>2. symbol'[s] = IF LastGone(s, {w})
                       THEN StopQuoteWatch(StopTradeWatch(symbol[s])) ELSE symbol[s]
      BY <2>1 DEF SymbolsDisabled, Working
    <3>3. Handlers(s)' = Handlers(s) \ {w}
      BY <2>2 DEF Handlers
    <3>4. CASE LastGone(s, {w})
      <4>1. Handlers(s) # {} /\ Handlers(s)' = {}
        BY <3>3, <3>4 DEF LastGone
      <4>2. symbol[s].state = "Both"
        BY <3>1, <4>1 DEF StateFor
      <4>3. /\ symbol'[s].state = "None"
            /\ up => symbol'[s].feed = "none"
        BY <3>1, <3>2, <3>4, <4>2, StoppedIsNone DEF Working
      <4> QED BY <4>1, <4>3 DEF StateFor, FeedFor
    <3>5. CASE ~ LastGone(s, {w})
      <4>1. Handlers(s)' = {} <=> Handlers(s) = {}
        BY <3>3, <3>5 DEF LastGone
      <4> QED BY <3>1, <3>2, <3>5, <4>1 DEF StateFor, FeedFor
    <3> QED BY <3>4, <3>5
  <2> QED BY <1>5, <2>3, <2>4, <2>5, <2>6, <2>7 DEF IInv
<1>7. CASE ~ (count[w] = 1 /\ watching[w])
  <2>1. UNCHANGED <<watching, symbol>>
    BY <1>7 DEF StopWatch
  <2>2. TypeOK'
    <3>1. StatesOK'
      BY <1>0, <1>1, <1>2, <2>1, <1>4 DEF StatesOK
    <3> QED BY <1>4, <3>1, TypePartsNext
  <2>3. NothingSent'
    BY <1>0, <1>1, <2>1 DEF NothingSent
  <2>4. WatchingIsCounted'
    <3>1. watching[w] => count'[w] > 0
      BY <1>1, <1>3, <1>7
    <3> QED BY <1>0, <1>3, <2>1, <3>1 DEF WatchingIsCounted
  <2>5. CountedIsWatching'
    <3>1. Working => watching[w]
      BY <1>0, <1>1 DEF CountedIsWatching
    <3> QED BY <1>0, <1>1, <1>3, <2>1, <3>1 DEF CountedIsWatching, Working
  <2>6. SymbolsFollowHandlers'
    <3>1. \A s : Handlers(s)' = Handlers(s)
      BY <2>1 DEF Handlers
    <3> QED BY <1>0, <1>1, <2>1, <3>1 DEF SymbolsFollowHandlers, Working
  <2> QED BY <1>5, <2>2, <2>3, <2>4, <2>5, <2>6 DEF IInv
<1> QED BY <1>6, <1>7

\* The provider becomes connected: every watch that is counted is enabled.
LEMMA LookupKeeps ==
  ASSUME IInv, LookupDone
  PROVE  IInv'
<1>0. /\ FlagsOK /\ StatesOK
      /\ NothingSent /\ LookupIsConnected
  BY TypeParts DEF IInv
<1>1. /\ lookup = "loading" /\ lookup' = "done" /\ connected' = TRUE
      /\ UNCHANGED <<net, attempt, timers, reading, ending, up, connects, count, failed>>
      /\ Commands
  BY DEF LookupDone
<1>2. /\ net = "CONNECTED" /\ attempt = "none"
      /\ \A v \in Watches : ~ watching[v]
      /\ \A s \in Symbols : symbol[s] = Unwatched /\ Handlers(s) = {}
  BY <1>0, <1>1 DEF NothingSent, LookupIsConnected, Handlers
<1> DEFINE ws == {w \in Watches : Wanted(w)}
<1>3. watching' = [v \in Watches |-> watching[v] \/ v \in ws]
  BY DEF LookupDone
<1>4. \A v \in Watches : watching'[v] <=> count[v] > 0
  BY <1>2, <1>3 DEF Wanted
<1>5. watching' \in [Watches -> BOOLEAN]
  BY <1>0, <1>3, Zenon DEF StatesOK
<1>6. symbol' = SymbolsEnabled(ws)
  <2>1. symbol' = [s \in Symbols |->
          IF Handlers(s) # {}
          THEN [r \in Symbols |-> IF Handlers(r) # {}
                 THEN StartTradeWatch(StartQuoteWatch(symbol[r])) ELSE symbol[r]][s]
          ELSE SymbolsEnabled(ws)[s]]
    BY Zenon DEF LookupDone
  <2>2. symbol' = [s \in Symbols |-> SymbolsEnabled(ws)[s]]
    BY <1>2, <2>1, Zenon
  <2>3. SymbolsEnabled(ws) \in [Symbols -> Rows]
    BY <1>0, SwitchingKeepsRows
  <2> HIDE DEF ws
  <2> QED BY <2>2, <2>3
<1>7. TypeOK'
  <2>1. symbol' \in [Symbols -> Rows]
    BY <1>0, <1>6, SwitchingKeepsRows
  <2>2. FlagsOK' /\ (sending' => net \in {"CONNECTED", "DISCONNECTING"})
    BY <1>0, <1>1, CommandsCount DEF FlagsOK
  <2>3. StatesOK'
    BY <1>0, <1>1, <1>5, <2>1, <2>2 DEF StatesOK
  <2> QED BY <2>2, <2>3, TypePartsNext
<1>8. NothingSent' /\ LookupIsConnected' /\ ConnectedIsSettled'
  BY <1>1, <1>2 DEF NothingSent, LookupIsConnected, ConnectedIsSettled
<1>9. WatchingIsCounted' /\ CountedIsWatching'
  BY <1>1, <1>4 DEF WatchingIsCounted, CountedIsWatching
<1>10. SymbolsFollowHandlers'
  <2> SUFFICES ASSUME NEW s \in Symbols
               PROVE  /\ symbol'[s].state = StateFor(Handlers(s)')
                      /\ up => symbol'[s].feed = FeedFor(Handlers(s)')
    BY <1>1, Zenon DEF SymbolsFollowHandlers
  <2>1. symbol'[s] = IF \E w \in ws : SymbolOf[w] = s
                     THEN StartTradeWatch(StartQuoteWatch(symbol[s])) ELSE symbol[s]
    BY <1>2, <1>6 DEF SymbolsEnabled
  <2>2. Handlers(s)' # {} <=> \E w \in ws : SymbolOf[w] = s
    BY <1>2, <1>4 DEF Handlers, Wanted
  <2>3. symbol[s] \in Rows /\ symbol[s].state = "None" /\ symbol[s].feed = "none"
    BY <1>0, <1>2 DEF StatesOK, Unwatched
  <2>4. CASE Handlers(s)' # {}
    <3>1. symbol'[s] = StartTradeWatch(StartQuoteWatch(symbol[s]))
      BY <2>1, <2>2, <2>4
    <3>2. /\ symbol'[s].state = "Both"
          /\ up => symbol'[s].feed = "all"
      BY <1>2, <2>3, <3>1, StartedIsBoth
    <3> QED BY <2>4, <3>2 DEF StateFor, FeedFor
  <2>5. CASE Handlers(s)' = {}
    <3>1. symbol'[s] = symbol[s]
      BY <2>1, <2>2, <2>5
    <3> QED BY <2>3, <2>5, <3>1 DEF StateFor, FeedFor
  <2> QED BY <2>4, <2>5
<1> QED BY <1>7, <1>8, <1>9, <1>10 DEF IInv
\* The owner disconnects: the connection no longer works.
LEMMA DisconnectKeeps ==
  ASSUME IInv, Disconnect
  PROVE  IInv'
<1>0. /\ FlagsOK /\ StatesOK
      /\ NothingSent /\ LookupIsConnected /\ ConnectedIsSettled
  BY TypeParts DEF IInv
<1>1. /\ connected /\ up' = FALSE
      /\ watching' = [w \in Watches |-> FALSE]
      /\ net' = (IF net = "CONNECTED" THEN "DISCONNECTING" ELSE net)
      /\ ending' \in BOOLEAN \/ ending' = ending
      /\ net # "CONNECTED" => ending' = ending
      /\ Commands
      /\ UNCHANGED <<attempt, timers, reading, lookup, connected, count, connects, failed>>
  BY DEF Disconnect
<1>2. lookup = "done" /\ attempt = "none" /\ net # "CONNECTING"
  BY <1>0, <1>1 DEF NothingSent, ConnectedIsSettled
<1>3. ~ Working'
  BY <1>1 DEF Working
<1>4. symbol' \in [Symbols -> Rows]
  <2>1. SymbolsDisabled(Watches) \in [Symbols -> Rows]
    BY <1>0, SwitchingKeepsRows
  <2>2. \A r \in Rows : [r EXCEPT !.feed = "none"] \in Rows
    BY DEF Rows, Feeds
  <2>3. symbol' = [s \in Symbols |-> [SymbolsDisabled(Watches)[s] EXCEPT !.feed = "none"]]
    BY DEF Disconnect
  <2>4. \A s \in Symbols : [SymbolsDisabled(Watches)[s] EXCEPT !.feed = "none"] \in Rows
    BY <2>1, <2>2
  <2> QED BY <2>3, <2>4, Zenon
<1>5. TypeOK'
  <2>1. FlagsOK' /\ (sending' => net \in {"CONNECTED", "DISCONNECTING"})
    BY <1>0, <1>1, CommandsCount DEF FlagsOK
  <2>2. watching' \in [Watches -> BOOLEAN]
    BY <1>1
  <2>3. StatesOK'
    BY <1>0, <1>1, <1>4, <2>1, <2>2 DEF StatesOK
  <2> QED BY <2>1, <2>3, TypePartsNext
<1>6. NothingSent' /\ LookupIsConnected' /\ ConnectedIsSettled'
  BY <1>1, <1>2 DEF NothingSent, LookupIsConnected, ConnectedIsSettled
<1>7. WatchingIsCounted'
  BY <1>1 DEF WatchingIsCounted
<1>8. CountedIsWatching' /\ SymbolsFollowHandlers'
  BY <1>3 DEF CountedIsWatching, SymbolsFollowHandlers
<1> QED BY <1>5, <1>6, <1>7, <1>8 DEF IInv

\* The server closes the connection: states stay, nothing is sent.
LEMMA DropKeeps ==
  ASSUME IInv, Drop
  PROVE  IInv'
<1>0. /\ FlagsOK /\ StatesOK
      /\ NothingSent /\ LookupIsConnected /\ ConnectedIsSettled
      /\ WatchingIsCounted /\ CountedIsWatching /\ SymbolsFollowHandlers
  BY TypeParts DEF IInv
<1>1. /\ up' = FALSE
      /\ symbol' = [s \in Symbols |-> [symbol[s] EXCEPT !.feed = "none"]]
      /\ UNCHANGED <<net, attempt, timers, reading, sending, ending, lookup, connected,
                     count, watching, connects, failed>>
  BY DEF Drop
<1>2. \A s \in Symbols :
        /\ symbol'[s] \in Rows /\ symbol'[s].state = symbol[s].state
        /\ symbol[s] = Unwatched => symbol'[s] = Unwatched
  BY <1>0, <1>1 DEF StatesOK, Rows, Feeds, Unwatched
<1>3. TypeOK'
  <2>1. FlagsOK'
    BY <1>0, <1>1 DEF FlagsOK
  <2>2. symbol' \in [Symbols -> Rows]
    BY <1>1, <1>2, Zenon
  <2>3. StatesOK'
    BY <1>0, <1>1, <2>2 DEF StatesOK
  <2> QED BY <2>1, <2>3, TypePartsNext
<1>4. NothingSent' /\ LookupIsConnected' /\ ConnectedIsSettled'
  BY <1>0, <1>1, <1>2 DEF NothingSent, LookupIsConnected, ConnectedIsSettled
<1>5. WatchingIsCounted' /\ CountedIsWatching'
  BY <1>0, <1>1 DEF WatchingIsCounted, CountedIsWatching, Working
<1>6. SymbolsFollowHandlers'
  <2>1. \A s : Handlers(s)' = Handlers(s)
    BY <1>1 DEF Handlers
  <2> QED BY <1>0, <1>1, <1>2, <2>1 DEF SymbolsFollowHandlers, Working
<1> QED BY <1>3, <1>4, <1>5, <1>6 DEF IInv

LEMMA NextKeepsInv == IInv /\ [Next]_vars => IInv'
<1> SUFFICES ASSUME IInv, [Next]_vars
             PROVE  IInv'
  OBVIOUS
<1>1. CASE UNCHANGED vars
  <2>1. \A s : Handlers(s)' = Handlers(s)
    BY <1>1 DEF vars, Handlers
  <2>2. TypeOK'
    BY <1>1, TypeParts, TypePartsNext DEF IInv, vars, FlagsOK, StatesOK
  <2> QED BY <1>1, <2>1, <2>2 DEF vars, IInv, NothingSent, LookupIsConnected,
        ConnectedIsSettled, WatchingIsCounted, CountedIsWatching,
        SymbolsFollowHandlers, Working
<1>2. CASE Next
  <2>1. CASE Connect \/ OnTimeOut \/ OnConnectDone \/ OnReadDone
               \/ OnNetworkLineBuffer \/ OnSendDone \/ OnNetDisconnecting \/ Answer
    BY <2>1, ConnectionKeeps
  <2>2. CASE \E w \in Watches : StartWatch(w) \/ StopWatch(w)
    BY <2>2, StartKeeps, StopKeeps
  <2>3. CASE LookupDone
    BY <2>3, LookupKeeps
  <2>4. CASE Disconnect
    BY <2>4, DisconnectKeeps
  <2>5. CASE Drop
    BY <2>5, DropKeeps
  <2> QED BY <1>2, <2>1, <2>2, <2>3, <2>4, <2>5 DEF Next, Running
<1> QED BY <1>1, <1>2

LEMMA InvHolds == Spec => []IInv
  BY InitInv, NextKeepsInv, PTL DEF Spec
-----------------------------------------------------------------------------
(* The theorems. *)

\* Watches, symbols, timers and the connection keep their types, and a read
\* or a command is outstanding only while the network is connected or waits for
\* it (asserted by Network::OnReadDone and OnSendDoneCommon).
THEOREM TypeCorrect == Spec => []TypeOK
<1>1. IInv => TypeOK
  BY DEF IInv
<1> QED BY <1>1, InvHolds, PTL

\* While the connection works, the server sends data of exactly the symbols
\* that are watched (Watch::StartWatch, StopWatch, EnableWatch, DisableWatch).
THEOREM FeedFollows == Spec => []FeedFollowsWatches
<1>1. IInv => FeedFollowsWatches
  <2> SUFFICES ASSUME IInv, connected, net = "CONNECTED", up, NEW s \in Symbols
               PROVE  symbol[s].feed = IF Watched(s) THEN "all" ELSE "none"
    BY Zenon DEF FeedFollowsWatches
  <2>1. symbol[s].feed = FeedFor(Handlers(s))
    BY DEF IInv, SymbolsFollowHandlers, Working
  <2>2. Handlers(s) # {} <=> Watched(s)
    BY DEF IInv, WatchingIsCounted, CountedIsWatching, Working, Handlers, Watched
  <2> QED BY <2>1, <2>2 DEF FeedFor
<1> QED BY <1>1, InvHolds, PTL

\* A connection that was made ends only by a Disconnect of its owner, whatever
\* timers and answers are still to come, and is over for the owner only when
\* nothing is read or sent (Network::OnTimeOut, OnNetDisconnecting).
THEOREM ConnectionLasts == Spec => ConnectionStays
<1>1. IInv /\ [Next]_vars =>
        [/\ net = "CONNECTED" /\ net' # net => connected /\ net' = "DISCONNECTING"
         /\ connected /\ ~ connected' =>
              net = "DISCONNECTING" /\ ~ reading /\ ~ sending]_vars
  <2> SUFFICES ASSUME IInv, Next
               PROVE  /\ net = "CONNECTED" /\ net' # net =>
                           connected /\ net' = "DISCONNECTING"
                      /\ connected /\ ~ connected' =>
                           net = "DISCONNECTING" /\ ~ reading /\ ~ sending
    OBVIOUS
  <2> USE DEF net_vars, watch_vars
  <2>1. CASE Connect \/ Answer \/ Drop \/ OnReadDone \/ OnNetworkLineBuffer \/ OnSendDone
    BY <2>1 DEF Connect, Answer, Drop, OnReadDone, OnNetworkLineBuffer, OnSendDone
  <2>2. CASE \E w \in Watches : StartWatch(w) \/ StopWatch(w)
    BY <2>2 DEF StartWatch, StopWatch
  <2>3. CASE OnTimeOut
    BY <2>3 DEF OnTimeOut, TimesOut, IInv, ConnectedIsSettled
  <2>4. CASE OnConnectDone
    BY <2>4 DEF OnConnectDone
  <2>5. CASE LookupDone
    BY <2>5 DEF LookupDone
  <2>6. CASE Disconnect
    BY <2>6 DEF Disconnect
  <2>7. CASE OnNetDisconnecting
    BY <2>7 DEF OnNetDisconnecting, Quiet, IInv, TypeOK
  <2> QED BY <2>1, <2>2, <2>3, <2>4, <2>5, <2>6, <2>7 DEF Next, Running
<1> QED BY <1>1, InvHolds, PTL DEF Spec, ConnectionStays
=============================================================================
